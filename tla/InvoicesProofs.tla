---------------------------- MODULE InvoicesProofs ----------------------------
(* Theorems about Invoices for every set of invoices, lines, work orders and *)
(* requests.                                                                 *)
EXTENDS Invoices, TLAPS

-----------------------------------------------------------------------------
(* The inductive invariant                                                   *)

EditOp == {"link", "unlink", "addLine", "findLine", "setLine", "dropLine"}
LineOp == {"findLine", "setLine", "dropLine"}

\* A request in progress is about a row there is, on which it is alone unless
\* the invoice is marked as overlapped.
Requests ==
    \A r \in Request :
        /\ req[r].op = "idle" => req[r].inv = NoInvoice
        /\ req[r].op # "idle" =>
            /\ req[r].inv \in Invoice /\ status[req[r].inv] # "NONE"
            /\ req[r].op \in LineOp => req[r].line \in Line
            /\ req[r].op = "setStatus" => req[r].to \in Stamp

Overlaps ==
    \A q, r \in Request :
        q # r /\ req[q].op # "idle" /\ req[q].inv = req[r].inv => req[r].inv \in overlapped

\* A request that goes by an old check still has what no overlap can take away;
\* without overlap it has all it has checked.
Checked ==
    \A r \in Request :
        /\ req[r].op = "link" => Belong(req[r].wos, customer[req[r].inv])
        /\ req[r].op = "setLine" =>
            lineOf[req[r].line] = req[r].inv /\ content[req[r].line] # "none"
        /\ req[r].op = "setStatus" /\ req[r].to = "PAID" => "ISSUED" \in stamps[req[r].inv]
        /\ req[r].inv \in Invoice /\ req[r].inv \notin overlapped =>
            /\ req[r].op \in EditOp => status[req[r].inv] = "DRAFT"
            /\ req[r].op = "setStatus" => req[r].to \in Allowed[status[req[r].inv]]

\* Lines that are not there yet are nobody's.
FreeLines == \A l \in Line : content[l] = "none" => lineOf[l] = NoInvoice

\* The timestamps of a row with its status; without overlap the last of them is
\* the status.
Stamps ==
    \A i \in Invoice :
        /\ status[i] \in {"NONE", "DRAFT"} /\ i \notin overlapped => stamps[i] = {}
        /\ status[i] = "NONE" => stamps[i] = {} /\ links[i] = {}
        /\ status[i] \in Stamp => status[i] \in stamps[i]
        /\ "PAID" \in stamps[i] => "ISSUED" \in stamps[i]
        /\ i \notin overlapped =>
            /\ "PAID" \in stamps[i] => status[i] = "PAID"
            /\ "VOID" \in stamps[i] => status[i] = "VOID"

Inductive ==
    TypeOK /\ Requests /\ Overlaps /\ Checked /\ FreeLines /\ Stamps /\ LinksOfCustomer

-----------------------------------------------------------------------------
(* Every step keeps it                                                       *)

\* Init establishes the inductive invariant.
LEMMA InitInductive == Init => Inductive
  BY NullAssumption
  DEF Init, Inductive, TypeOK, Requests, Overlaps, Checked, FreeLines, Stamps,
      LinksOfCustomer, Belong, Idle, Status, Stamp, Op, EditOp, LineOp

\* What the check of a request must have established before it goes on.
CheckedFor(op, i, W, l, to) ==
    /\ op \in EditOp => Draft(i)
    /\ op \in LineOp => l \in Line
    /\ op = "link" => Belong(W, customer[i])
    /\ op = "setStatus" => to \in Stamp /\ to \in Allowed[status[i]]

\* A request that goes on after its check.
LEMMA BeginInductive ==
  ASSUME Inductive, NEW r \in Request, NEW op \in Op \ {"idle", "setLine"},
         NEW i \in Invoice, NEW ok \in BOOLEAN, NEW W \in SUBSET WorkOrder,
         NEW l \in Line \cup {NoLine}, NEW to \in Status,
         Begin(r, op, i, ok, W, l, to), ok => CheckedFor(op, i, W, l, to)
  PROVE  Inductive'
<1> USE NullAssumption DEF Begin, invoiceVars, docVars
<1>0. TypeOK /\ Requests /\ Overlaps /\ Checked /\ FreeLines /\ Stamps /\ LinksOfCustomer
  BY DEF Inductive
<1>1. CASE ~ok
  BY <1>0, <1>1
  DEF Inductive, TypeOK, Requests, Overlaps, Checked, FreeLines, Stamps, LinksOfCustomer, Belong
<1>2. CASE ok
  <2> DEFINE new == [op |-> op, inv |-> i, wos |-> W, line |-> l, to |-> to]
  <2>1. req' = [req EXCEPT ![r] = new] /\ UNCHANGED <<invoiceVars, docVars>>
    BY <1>2
  <2>2. overlapped \subseteq overlapped' /\ overlapped' \subseteq overlapped \cup {i}
    BY <1>2
  <2>3. TypeOK'
    BY <1>0, <2>1, <2>2 DEF TypeOK
  <2>4. req'[r] = new /\ \A q \in Request \ {r} : req'[q] = req[q]
    BY <1>0, <2>1 DEF TypeOK
  <2>5. Requests'
    BY <1>0, <1>2, <2>1, <2>4 DEF Requests, CheckedFor, LineOp
  <2>6. Overlaps'
    <3>1. ASSUME NEW q \in Request \ {r}, req[q].inv = i PROVE i \in overlapped'
      BY <1>2, <3>1
    <3> QED
      BY <1>0, <2>2, <2>4, <3>1 DEF Overlaps
  <2>7. Checked'
    <3>1. to = "PAID" /\ op = "setStatus" => "ISSUED" \in stamps[i]
      BY <1>0, <1>2 DEF CheckedFor, Allowed, Stamps, Stamp, TypeOK, Status
    <3> QED
      BY <1>0, <1>2, <2>1, <2>2, <2>4, <3>1
      DEF Checked, CheckedFor, EditOp, LineOp, Draft, Belong
  <2>8. (FreeLines /\ LinksOfCustomer)'
    BY <1>0, <2>1 DEF FreeLines, LinksOfCustomer, Belong
  <2>9. Stamps'
    BY <1>0, <2>1, <2>2 DEF Stamps
  <2> QED
    BY <2>3, <2>5, <2>6, <2>7, <2>8, <2>9 DEF Inductive
<1> QED
  BY <1>1, <1>2

\* The end of a request takes it out of every clause about requests.
LEMMA EndKeeps ==
  ASSUME Inductive, NEW r \in Request, End(r), UNCHANGED overlapped,
         \A i \in Invoice : status[i] # "NONE" => status'[i] # "NONE"
  PROVE  /\ req'[r] = Idle /\ \A q \in Request \ {r} : req'[q] = req[q]
         /\ req' \in [Request -> [op : Op, inv : Invoice \cup {NoInvoice},
                            wos : SUBSET WorkOrder, line : Line \cup {NoLine}, to : Status]]
         /\ Requests' /\ Overlaps'
<1>0. TypeOK /\ Requests /\ Overlaps
  BY DEF Inductive
<1>1. req'[r] = Idle /\ \A q \in Request \ {r} : req'[q] = req[q]
  BY <1>0 DEF End, TypeOK
<1>2. Idle \in [op : Op, inv : Invoice \cup {NoInvoice},
                wos : SUBSET WorkOrder, line : Line \cup {NoLine}, to : Status]
  BY DEF Idle, Op, Status
<1>3. req' \in [Request -> [op : Op, inv : Invoice \cup {NoInvoice},
                wos : SUBSET WorkOrder, line : Line \cup {NoLine}, to : Status]]
  BY <1>0, <1>2 DEF End, TypeOK
<1>4. Requests'
  BY <1>0, <1>1 DEF Requests, Idle
<1>5. Overlaps'
  BY <1>0, <1>1, NullAssumption DEF Overlaps, Requests, Idle
<1> QED
  BY <1>1, <1>3, <1>4, <1>5

\* A row, its links and perhaps a first line are created.
LEMMA CreateInductive ==
  ASSUME Inductive, NEW c \in Customer, NEW W \in SUBSET WorkOrder, CreateInvoice(c, W)
  PROVE  Inductive'
<1>0. TypeOK /\ Requests /\ Overlaps /\ Checked /\ FreeLines /\ Stamps /\ LinksOfCustomer
  BY DEF Inductive
<1>1. PICK i \in Invoice :
        /\ status[i] = "NONE" /\ status' = [status EXCEPT ![i] = "DRAFT"]
        /\ customer' = [customer EXCEPT ![i] = c] /\ links' = [links EXCEPT ![i] = W]
        /\ \/ UNCHANGED <<lineOf, content>>
           \/ \E l \in Line, t \in Text :
                /\ content[l] = "none"
                /\ lineOf' = [lineOf EXCEPT ![l] = i] /\ content' = [content EXCEPT ![l] = t]
  BY DEF CreateInvoice
<1>2. UNCHANGED <<stamps, req, overlapped>> /\ Belong(W, c)
  BY DEF CreateInvoice
<1>3. \A l \in Line : \/ lineOf'[l] = lineOf[l] /\ content'[l] = content[l]
                      \/ content[l] = "none" /\ content'[l] \in Text
  <2>1. CASE UNCHANGED <<lineOf, content>>
    BY <2>1
  <2>2. ASSUME NEW k \in Line, NEW t \in Text, content[k] = "none",
               lineOf' = [lineOf EXCEPT ![k] = i], content' = [content EXCEPT ![k] = t]
        PROVE  \A l \in Line : \/ lineOf'[l] = lineOf[l] /\ content'[l] = content[l]
                               \/ content[l] = "none" /\ content'[l] \in Text
    BY <1>0, <2>2 DEF TypeOK
  <2> QED
    BY <1>1, <2>1, <2>2
<1>4. TypeOK'
  BY <1>0, <1>1, <1>2 DEF TypeOK, Status
<1>5. (Requests /\ Overlaps)'
  BY <1>0, <1>1, <1>2 DEF TypeOK, Requests, Overlaps
<1>6. \A r \in Request : req[r].op # "idle" => req[r].inv # i
  BY <1>0, <1>1 DEF Requests
<1>7. Checked'
  <2>1. ASSUME NEW r \in Request, req[r].op # "idle"
        PROVE  /\ req[r].inv \in Invoice /\ status'[req[r].inv] = status[req[r].inv]
               /\ customer'[req[r].inv] = customer[req[r].inv]
               /\ req[r].op = "setLine" => req[r].line \in Line
    BY <1>0, <1>1, <1>6, <2>1 DEF TypeOK, Requests, LineOp
  <2>2. ASSUME NEW r \in Request, req[r].op = "setLine"
        PROVE  lineOf'[req[r].line] = req[r].inv /\ content'[req[r].line] # "none"
    BY <1>0, <1>3, <2>1, <2>2 DEF Checked
  <2> QED
    BY <1>0, <1>2, <2>1, <2>2 DEF Checked, Belong, EditOp
<1>8. FreeLines'
  BY <1>0, <1>3 DEF FreeLines, Text
<1>9. Stamps'
  BY <1>0, <1>1, <1>2 DEF Stamps, TypeOK, Stamp
<1>10. LinksOfCustomer'
  BY <1>0, <1>1, <1>2 DEF LinksOfCustomer, Belong, TypeOK
<1> QED
  BY <1>4, <1>5, <1>7, <1>8, <1>9, <1>10 DEF Inductive

\* A request writes links.
LEMMA LinksInductive ==
  ASSUME Inductive, NEW r \in Request, Link(r) \/ Unlink(r)
  PROVE  Inductive'
<1>0. TypeOK /\ Requests /\ Overlaps /\ Checked /\ FreeLines /\ Stamps /\ LinksOfCustomer
  BY DEF Inductive
<1>1. End(r) /\ UNCHANGED <<invoiceVars, lineOf, content, overlapped>>
  BY DEF Link, Unlink
<1>2. /\ req'[r] = Idle /\ \A q \in Request \ {r} : req'[q] = req[q]
      /\ req' \in [Request -> [op : Op, inv : Invoice \cup {NoInvoice},
                            wos : SUBSET WorkOrder, line : Line \cup {NoLine}, to : Status]]
      /\ Requests' /\ Overlaps'
  BY <1>1, EndKeeps DEF invoiceVars
<1>3. req[r].inv \in Invoice /\ req[r].wos \in SUBSET WorkOrder /\ status[req[r].inv] # "NONE"
  BY <1>0 DEF Requests, TypeOK, Link, Unlink
<1>4. /\ links' \in [Invoice -> SUBSET WorkOrder]
      /\ \A i \in Invoice \ {req[r].inv} : links'[i] = links[i]
      /\ Belong(links'[req[r].inv], customer[req[r].inv])
  BY <1>0, <1>3 DEF Link, Unlink, TypeOK, Checked, LinksOfCustomer, Belong
<1>5. TypeOK'
  BY <1>0, <1>1, <1>2, <1>4 DEF TypeOK, invoiceVars
<1>6. Checked'
  BY <1>0, <1>1, <1>2, NullAssumption DEF Checked, invoiceVars, Idle, Belong, EditOp
<1>7. FreeLines' /\ Stamps' /\ LinksOfCustomer'
  BY <1>0, <1>1, <1>3, <1>4 DEF FreeLines, Stamps, LinksOfCustomer, invoiceVars, Belong
<1> QED
  BY <1>2, <1>5, <1>6, <1>7 DEF Inductive

\* A request writes a line: only one that was not there becomes somebody's.
LEMMA LinesInductive ==
  ASSUME Inductive, NEW r \in Request, AddLine(r) \/ SetLine(r) \/ DropLine(r)
  PROVE  Inductive'
<1>0. TypeOK /\ Requests /\ Overlaps /\ Checked /\ FreeLines /\ Stamps /\ LinksOfCustomer
  BY DEF Inductive
<1>1. End(r) /\ UNCHANGED <<invoiceVars, links, overlapped>>
  BY DEF AddLine, SetLine, DropLine
<1>2. /\ req'[r] = Idle /\ \A q \in Request \ {r} : req'[q] = req[q]
      /\ req' \in [Request -> [op : Op, inv : Invoice \cup {NoInvoice},
                            wos : SUBSET WorkOrder, line : Line \cup {NoLine}, to : Status]]
      /\ Requests' /\ Overlaps'
  BY <1>1, EndKeeps DEF invoiceVars
<1>3. req[r].inv \in Invoice /\ (req[r].op \in LineOp => req[r].line \in Line)
  BY <1>0 DEF Requests, AddLine, SetLine, DropLine
<1>4. /\ lineOf' \in [Line -> Invoice \cup {NoInvoice}]
      /\ content' \in [Line -> Text \cup {"none", "gone"}]
      /\ \A l \in Line : \/ lineOf'[l] = lineOf[l] /\ content'[l] = content[l]
                         \/ content[l] = "none" /\ content'[l] # "none"
                         \/ lineOf'[l] = lineOf[l] /\ content'[l] # "none"
  BY <1>0, <1>3 DEF AddLine, SetLine, DropLine, LineThere, TypeOK, LineOp, Text
<1>5. TypeOK'
  BY <1>0, <1>1, <1>2, <1>4 DEF TypeOK, invoiceVars
<1>6. Checked'
  <2>1. ASSUME NEW q \in Request, req'[q].op = "setLine"
        PROVE  lineOf'[req'[q].line] = req'[q].inv /\ content'[req'[q].line] # "none"
    <3>1. q # r /\ req'[q] = req[q]
      BY <1>2, <2>1 DEF Idle
    <3>2. req[q].line \in Line
      BY <1>0, <2>1, <3>1 DEF Requests, LineOp
    <3> QED
      BY <1>0, <1>4, <2>1, <3>1, <3>2 DEF Checked
  <2> QED
    BY <1>0, <1>1, <1>2, <2>1, NullAssumption DEF Checked, invoiceVars, Idle, Belong, EditOp
<1>7. FreeLines' /\ Stamps' /\ LinksOfCustomer'
  BY <1>0, <1>1, <1>4 DEF FreeLines, Stamps, LinksOfCustomer, invoiceVars, Belong
<1> QED
  BY <1>2, <1>5, <1>6, <1>7 DEF Inductive

\* A line that was found is written next, one that was not ends the request.
LEMMA FindInductive ==
  ASSUME Inductive, NEW r \in Request, FindLine(r)
  PROVE  Inductive'
<1>0. TypeOK /\ Requests /\ Overlaps /\ Checked /\ FreeLines /\ Stamps /\ LinksOfCustomer
  BY DEF Inductive
<1>1. UNCHANGED <<invoiceVars, docVars, overlapped>> /\ req[r].op = "findLine"
  BY DEF FindLine
<1>2. (FreeLines /\ Stamps /\ LinksOfCustomer)'
  BY <1>0, <1>1 DEF FreeLines, Stamps, LinksOfCustomer, invoiceVars, docVars, Belong
<1>3. CASE LineThere(r)
  <2>1. req' = [req EXCEPT ![r].op = "setLine"]
    BY <1>3 DEF FindLine
  <2>2. /\ req'[r] = [req[r] EXCEPT !.op = "setLine"]
        /\ \A q \in Request \ {r} : req'[q] = req[q]
    BY <1>0, <2>1 DEF TypeOK
  <2>3. TypeOK'
    <3>1. req'[r] \in [op : Op, inv : Invoice \cup {NoInvoice},
                      wos : SUBSET WorkOrder, line : Line \cup {NoLine}, to : Status]
      BY <1>0, <2>2 DEF TypeOK, Op
    <3> QED
      BY <1>0, <1>1, <2>1, <3>1 DEF TypeOK, invoiceVars, docVars
  <2>4. /\ req'[r].op = "setLine" /\ req'[r].inv = req[r].inv /\ req'[r].line = req[r].line
        /\ req[r].inv \in Invoice /\ req[r].line \in Line
    BY <1>0, <1>1, <2>2 DEF TypeOK, Requests, LineOp
  <2>5. (Requests /\ Overlaps)'
    <3>1. \A q \in Request : req'[q].op # "idle" <=> req[q].op # "idle"
      BY <1>1, <2>2, <2>4
    <3>2. \A q \in Request : req'[q].inv = req[q].inv
      BY <2>2, <2>4
    <3>3. Requests'
      BY <1>0, <1>1, <2>2, <2>4, <3>1 DEF Requests, LineOp, invoiceVars
    <3> QED
      BY <1>0, <1>1, <3>1, <3>2, <3>3 DEF Overlaps
  <2>6. Checked'
    <3>1. lineOf[req[r].line] = req[r].inv /\ content[req[r].line] # "none"
      BY <1>3 DEF LineThere, Text
    <3>2. req[r].inv \notin overlapped => status[req[r].inv] = "DRAFT"
      BY <1>0, <1>1, <2>4 DEF Checked, EditOp
    <3>3. UNCHANGED <<status, customer, stamps, lineOf, content, overlapped>>
      BY <1>1 DEF invoiceVars, docVars
    <3> DEFINE Good(q) ==
          /\ req'[q].op = "link" => Belong(req'[q].wos, customer[req'[q].inv])
          /\ req'[q].op = "setLine" =>
              lineOf[req'[q].line] = req'[q].inv /\ content[req'[q].line] # "none"
          /\ req'[q].op = "setStatus" /\ req'[q].to = "PAID"
              => "ISSUED" \in stamps[req'[q].inv]
          /\ req'[q].inv \in Invoice /\ req'[q].inv \notin overlapped =>
              /\ req'[q].op \in EditOp => status[req'[q].inv] = "DRAFT"
              /\ req'[q].op = "setStatus" => req'[q].to \in Allowed[status[req'[q].inv]]
    <3>4. Good(r)
      BY <2>4, <3>1, <3>2
    <3>5. \A q \in Request \ {r} : Good(q)
      BY <1>0, <2>2 DEF Checked
    <3>6. \A q \in Request : Good(q)
      BY <3>4, <3>5
    <3> QED
      BY <3>3, <3>6 DEF Checked, Belong
  <2> QED
    BY <1>2, <2>3, <2>5, <2>6 DEF Inductive
<1>4. CASE ~LineThere(r)
  <2>1. End(r)
    BY <1>4 DEF FindLine
  <2>2. /\ req'[r] = Idle /\ \A q \in Request \ {r} : req'[q] = req[q]
        /\ req' \in [Request -> [op : Op, inv : Invoice \cup {NoInvoice},
                            wos : SUBSET WorkOrder, line : Line \cup {NoLine}, to : Status]]
        /\ Requests' /\ Overlaps'
    BY <1>1, <2>1, EndKeeps DEF invoiceVars
  <2>3. TypeOK' /\ Checked'
    BY <1>0, <1>1, <2>2, NullAssumption
    DEF TypeOK, Checked, invoiceVars, docVars, Idle, Belong, EditOp
  <2> QED
    BY <1>2, <2>2, <2>3 DEF Inductive
<1> QED
  BY <1>3, <1>4

\* A request writes a status and its timestamp.
LEMMA SetStatusInductive ==
  ASSUME Inductive, NEW r \in Request, SetStatus(r)
  PROVE  Inductive'
<1>0. TypeOK /\ Requests /\ Overlaps /\ Checked /\ FreeLines /\ Stamps /\ LinksOfCustomer
  BY DEF Inductive
<1> DEFINE i == req[r].inv
           to == req[r].to
<1>1. /\ End(r) /\ UNCHANGED <<customer, docVars, overlapped>> /\ req[r].op = "setStatus"
      /\ status' = [status EXCEPT ![i] = to] /\ stamps' = [stamps EXCEPT ![i] = @ \cup {to}]
  BY DEF SetStatus, SetStamp
<1>2. i \in Invoice /\ to \in Stamp
  BY <1>0, <1>1 DEF Requests
<1>3. /\ req'[r] = Idle /\ \A q \in Request \ {r} : req'[q] = req[q]
      /\ req' \in [Request -> [op : Op, inv : Invoice \cup {NoInvoice},
                            wos : SUBSET WorkOrder, line : Line \cup {NoLine}, to : Status]]
      /\ Requests' /\ Overlaps'
  <2>1. \A j \in Invoice : status[j] # "NONE" => status'[j] # "NONE"
    BY <1>0, <1>1, <1>2 DEF TypeOK, Stamp
  <2> QED
    BY <1>1, <2>1, EndKeeps
<1>4. TypeOK'
  BY <1>0, <1>1, <1>2, <1>3 DEF TypeOK, docVars, Status
<1>5. /\ status'[i] = to /\ stamps'[i] = stamps[i] \cup {to}
      /\ \A j \in Invoice \ {i} : status'[j] = status[j] /\ stamps'[j] = stamps[j]
  BY <1>0, <1>1, <1>2 DEF TypeOK
<1>6. Checked'
  <2>1. ASSUME NEW q \in Request, q # r, req[q].inv \in Invoice, req[q].inv \notin overlapped
        PROVE  req[q].inv # i
    BY <1>0, <1>1, <2>1 DEF Overlaps
  <2>2. ASSUME NEW q \in Request, q # r, req[q].op = "setStatus", req[q].to = "PAID"
        PROVE  "ISSUED" \in stamps'[req[q].inv]
    BY <1>0, <1>5, <2>2 DEF Checked, Requests
  <2> QED
    BY <1>0, <1>1, <1>3, <1>5, <2>1, <2>2, NullAssumption
    DEF Checked, docVars, Idle, Belong, EditOp
<1>7. Stamps'
  <2>1. to = "PAID" => "ISSUED" \in stamps[i]
    BY <1>0, <1>1 DEF Checked
  <2>2. i \notin overlapped => to \in Allowed[status[i]] /\ status[i] \in {"DRAFT", "ISSUED"}
    BY <1>0, <1>1, <1>2 DEF Checked, Allowed, TypeOK, Status, Stamp
  <2>3. i \notin overlapped => "PAID" \notin stamps[i] /\ "VOID" \notin stamps[i]
    BY <1>0, <1>2, <2>2 DEF Stamps
  <2> QED
    BY <1>0, <1>1, <1>2, <1>5, <2>1, <2>2, <2>3 DEF Stamps, docVars, Stamp
<1>8. (FreeLines /\ LinksOfCustomer)'
  BY <1>0, <1>1 DEF FreeLines, LinksOfCustomer, docVars, Belong
<1> QED
  BY <1>3, <1>4, <1>6, <1>7, <1>8 DEF Inductive

\* A request is cut short.
LEMMA AbortInductive ==
  ASSUME Inductive, NEW r \in Request, Abort(r)
  PROVE  Inductive'
<1>0. TypeOK /\ Checked /\ FreeLines /\ Stamps /\ LinksOfCustomer
  BY DEF Inductive
<1>1. End(r) /\ UNCHANGED <<invoiceVars, docVars, overlapped>>
  BY DEF Abort
<1>2. /\ req'[r] = Idle /\ \A q \in Request \ {r} : req'[q] = req[q]
      /\ req' \in [Request -> [op : Op, inv : Invoice \cup {NoInvoice},
                            wos : SUBSET WorkOrder, line : Line \cup {NoLine}, to : Status]]
      /\ Requests' /\ Overlaps'
  BY <1>1, EndKeeps DEF invoiceVars
<1>3. TypeOK' /\ Checked'
  BY <1>0, <1>1, <1>2, NullAssumption
  DEF TypeOK, Checked, invoiceVars, docVars, Idle, Belong, EditOp
<1>4. (FreeLines /\ Stamps /\ LinksOfCustomer)'
  BY <1>0, <1>1 DEF FreeLines, Stamps, LinksOfCustomer, invoiceVars, docVars, Belong
<1> QED
  BY <1>2, <1>3, <1>4 DEF Inductive

\* Each step of Next keeps the inductive invariant.
LEMMA NextInductive == Inductive /\ [Next]_vars => Inductive'
<1> SUFFICES ASSUME Inductive, [Next]_vars PROVE Inductive'
  OBVIOUS
<1>1. CASE UNCHANGED vars
  BY <1>1
  DEF vars, invoiceVars, docVars, Inductive, TypeOK, Requests, Overlaps, Checked, FreeLines,
      Stamps, LinksOfCustomer, Belong
<1>2. ASSUME NEW c \in Customer, NEW W \in SUBSET WorkOrder, CreateInvoice(c, W)
      PROVE  Inductive'
  BY <1>2, CreateInductive
<1>3. ASSUME NEW r \in Request, NEW i \in Invoice,
             \/ AddLineCheck(r, i)
             \/ \E W \in SUBSET WorkOrder : LinkCheck(r, i, W)
             \/ \E w \in WorkOrder : UnlinkCheck(r, i, w)
             \/ \E l \in Line : SetLineCheck(r, i, l) \/ DropLineCheck(r, i, l)
             \/ \E to \in Stamp : StatusCheck(r, i, to)
      PROVE  Inductive'
  <2> USE DEF CheckedFor, EditOp, LineOp, Op, Status
  <2>1. CASE AddLineCheck(r, i)
    <3>1. Begin(r, "addLine", i, Draft(i), {}, NoLine, "NONE")
      BY <2>1 DEF AddLineCheck
    <3> QED
      BY <3>1, BeginInductive DEF Draft
  <2>2. ASSUME NEW W \in SUBSET WorkOrder, LinkCheck(r, i, W) PROVE Inductive'
    <3>1. Begin(r, "link", i, Draft(i) /\ Belong(W, customer[i]), W, NoLine, "NONE")
      BY <2>2 DEF LinkCheck
    <3> QED
      BY <3>1, BeginInductive DEF Draft
  <2>3. ASSUME NEW w \in WorkOrder, UnlinkCheck(r, i, w) PROVE Inductive'
    <3>1. Begin(r, "unlink", i, Draft(i), {w}, NoLine, "NONE")
      BY <2>3 DEF UnlinkCheck
    <3> QED
      BY <3>1, BeginInductive DEF Draft
  <2>4. ASSUME NEW l \in Line, SetLineCheck(r, i, l) PROVE Inductive'
    <3>1. Begin(r, "findLine", i, Draft(i), {}, l, "NONE")
      BY <2>4 DEF SetLineCheck
    <3> QED
      BY <3>1, BeginInductive DEF Draft
  <2>5. ASSUME NEW l \in Line, DropLineCheck(r, i, l) PROVE Inductive'
    <3>1. Begin(r, "dropLine", i, Draft(i), {}, l, "NONE")
      BY <2>5 DEF DropLineCheck
    <3> QED
      BY <3>1, BeginInductive DEF Draft
  <2>6. ASSUME NEW to \in Stamp, StatusCheck(r, i, to) PROVE Inductive'
    <3>1. Begin(r, "setStatus", i, to \in Allowed[status[i]], {}, NoLine, to)
      BY <2>6 DEF StatusCheck
    <3>2. to \in Status /\ "setStatus" \in Op \ {"idle", "setLine"}
      OBVIOUS
    <3>3. (to \in Allowed[status[i]]) \in BOOLEAN
      OBVIOUS
    <3> QED
      BY <3>1, <3>2, <3>3, BeginInductive
  <2> QED
    BY <1>3, <2>1, <2>2, <2>3, <2>4, <2>5, <2>6
<1>4. ASSUME NEW r \in Request,
             \/ Link(r) \/ Unlink(r) \/ AddLine(r) \/ FindLine(r) \/ SetLine(r)
             \/ DropLine(r) \/ SetStatus(r) \/ Abort(r)
      PROVE  Inductive'
  BY <1>4, LinksInductive, LinesInductive, FindInductive, SetStatusInductive, AbortInductive
<1> QED
  BY <1>1, <1>2, <1>3, <1>4 DEF Next

-----------------------------------------------------------------------------
(* The theorems                                                              *)

\* The inductive invariant holds for ever.
THEOREM InductiveInvariant == Spec => []Inductive
  BY InitInductive, NextInductive, PTL DEF Spec

\* Rows and requests keep their types.
THEOREM TypeCorrect == Spec => []TypeOK
<1>1. Inductive => TypeOK
  BY DEF Inductive
<1> QED
  BY <1>1, InductiveInvariant, PTL

\* An invoice bills only work orders of its own customer, although the check
\* and the insert of the links are two calls.
THEOREM OwnWorkOrders == Spec => []LinksOfCustomer
<1>1. Inductive => LinksOfCustomer
  BY DEF Inductive
<1> QED
  BY <1>1, InductiveInvariant, PTL

\* The timestamps tell the history of the status whatever requests overlap.
THEOREM HistoryTold == Spec => []StampsTellHistory
<1>1. Inductive => StampsTellHistory
  BY DEF Inductive, Stamps, StampsTellHistory, TypeOK
<1> QED
  BY <1>1, InductiveInvariant, PTL

\* An edit of an invoice that no requests overlap on finds it a draft.
LEMMA EditsDraft ==
  ASSUME Inductive, NEW r \in Request, req[r].op \in EditOp, NEW i \in Invoice,
         status[i] \in Stamp, i \notin overlapped
  PROVE  req[r].inv # i
  BY DEF Inductive, Checked, Stamp

\* No step changes what an issued invoice bills, except for overlaps.
LEMMA DocumentStays ==
  ASSUME Inductive, [Next]_vars, NEW i \in Invoice, status[i] \in Stamp, i \notin overlapped'
  PROVE  Document(i)' = Document(i)
<1> USE NullAssumption
<1> DEFINE Same == /\ links'[i] = links[i]
                   /\ \A l \in Line : lineOf'[l] = i <=> lineOf[l] = i
                   /\ \A l \in Line : lineOf[l] = i => content'[l] = content[l]
<1>0. TypeOK /\ Requests /\ Checked /\ FreeLines
  BY DEF Inductive
<1>1. ASSUME UNCHANGED docVars PROVE Same
  BY <1>1 DEF docVars
<1>2. ASSUME NEW c \in Customer, NEW W \in SUBSET WorkOrder, CreateInvoice(c, W) PROVE Same
  <2>1. PICK j \in Invoice :
          /\ status[j] = "NONE" /\ links' = [links EXCEPT ![j] = W]
          /\ \/ UNCHANGED <<lineOf, content>>
             \/ \E k \in Line, t \in Text :
                  /\ content[k] = "none"
                  /\ lineOf' = [lineOf EXCEPT ![k] = j] /\ content' = [content EXCEPT ![k] = t]
    BY <1>2 DEF CreateInvoice
  <2>2. j # i
    BY <2>1 DEF Stamp
  <2>3. links'[i] = links[i]
    BY <1>0, <2>1, <2>2 DEF TypeOK
  <2>4. ASSUME NEW k \in Line, NEW t \in Text, content[k] = "none",
               lineOf' = [lineOf EXCEPT ![k] = j], content' = [content EXCEPT ![k] = t]
        PROVE  Same
    <3>1. lineOf[k] # i
      BY <1>0, <2>4 DEF FreeLines
    <3> QED
      BY <1>0, <2>2, <2>3, <2>4, <3>1 DEF TypeOK
  <2>5. CASE UNCHANGED <<lineOf, content>>
    BY <2>3, <2>5
  <2> QED
    BY <2>1, <2>4, <2>5
<1>3. ASSUME NEW r \in Request, Link(r) \/ Unlink(r) PROVE Same
  <2>1. req[r].inv # i
    BY <1>3, EditsDraft DEF Link, Unlink, EditOp
  <2> QED
    BY <1>0, <1>3, <2>1 DEF Link, Unlink, TypeOK
<1>4. ASSUME NEW r \in Request, AddLine(r) PROVE Same
  <2>1. req[r].inv # i
    BY <1>4, EditsDraft DEF AddLine, EditOp
  <2>2. PICK k \in Line, t \in Text :
          /\ content[k] = "none"
          /\ lineOf' = [lineOf EXCEPT ![k] = req[r].inv] /\ content' = [content EXCEPT ![k] = t]
    BY <1>4 DEF AddLine
  <2>3. lineOf[k] # i
    BY <1>0, <2>2 DEF FreeLines
  <2> QED
    BY <1>0, <1>4, <2>1, <2>2, <2>3 DEF AddLine, TypeOK
<1>5. ASSUME NEW r \in Request, SetLine(r) \/ DropLine(r) PROVE Same
  <2>1. req[r].inv # i /\ req[r].line \in Line
    BY <1>0, <1>5, EditsDraft DEF SetLine, DropLine, EditOp, LineOp, Requests
  <2>2. UNCHANGED <<links, lineOf>>
    BY <1>5 DEF SetLine, DropLine
  <2>3. content' = content \/ lineOf[req[r].line] = req[r].inv
    BY <1>0, <1>5 DEF SetLine, DropLine, LineThere, Checked
  <2>4. \A l \in Line \ {req[r].line} : content'[l] = content[l]
    BY <1>0, <1>5 DEF SetLine, DropLine, TypeOK
  <2> QED
    BY <2>1, <2>2, <2>3, <2>4
<1>6. Same
  <2>1. CASE UNCHANGED vars
    BY <1>1, <2>1 DEF vars
  <2>2. ASSUME NEW r \in Request, NEW j \in Invoice,
               \/ AddLineCheck(r, j)
               \/ \E W \in SUBSET WorkOrder : LinkCheck(r, j, W)
               \/ \E w \in WorkOrder : UnlinkCheck(r, j, w)
               \/ \E l \in Line : SetLineCheck(r, j, l) \/ DropLineCheck(r, j, l)
               \/ \E to \in Stamp : StatusCheck(r, j, to)
        PROVE  Same
    BY <1>1, <2>2
    DEF AddLineCheck, LinkCheck, UnlinkCheck, SetLineCheck, DropLineCheck, StatusCheck, Begin
  <2>3. ASSUME NEW r \in Request, FindLine(r) \/ SetStatus(r) \/ Abort(r) PROVE Same
    BY <1>1, <2>3 DEF FindLine, SetStatus, Abort
  <2>4. ASSUME NEW r \in Request,
               Link(r) \/ Unlink(r) \/ AddLine(r) \/ SetLine(r) \/ DropLine(r)
        PROVE  overlapped' = overlapped
    BY <2>4 DEF Link, Unlink, AddLine, SetLine, DropLine
  <2> QED
    BY <1>2, <1>3, <1>4, <1>5, <2>1, <2>2, <2>3, <2>4 DEF Next
<1>7. {k \in Line : lineOf'[k] = i} = {k \in Line : lineOf[k] = i}
  BY <1>6
<1> QED
  BY <1>6, <1>7 DEF Document

\* What an issued invoice bills is frozen as long as no requests overlapped on it.
THEOREM Frozen == Spec => FrozenAfterDraft
<1>1. Inductive /\ [Next]_vars =>
        [\A i \in Invoice : status[i] \in Stamp /\ i \notin overlapped'
                              => Document(i)' = Document(i)]_vars
  BY DocumentStays
<1> QED
  BY <1>1, InductiveInvariant, PTL DEF Spec, FrozenAfterDraft
=============================================================================
