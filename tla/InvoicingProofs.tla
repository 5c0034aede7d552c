-------------------------- MODULE InvoicingProofs --------------------------
(***************************************************************************)
(* Proofs about Invoicing, for every value of its constants: that it is    *)
(* well typed; what finalizing promises: finalized invoices stay as they   *)
(* are, items and invoices agree, a snapshot shows the items as they are,  *)
(* and numbers are not reused; what an invoice may hold and print: the cap *)
(* on its items, the bound on its total, and a PDF that is always that of  *)
(* the frozen snapshot.  At the end, that Invoicing implements             *)
(* InvoiceLedger: a step of a resolver is one step of the ledger or none.  *)
(***************************************************************************)
EXTENDS Invoicing, FiniteSetTheorems, TLAPS

-----------------------------------------------------------------------------
(* What the helpers of the actions do to the requests in flight.           *)

\* Every request is well typed and ready for its next step.
RequestsTyped == CallsTyped /\ RequestShapes

\* A well-typed request that is ready.
ReadyRequest(q) == q \in Request /\ Ready(q)

\* The empty set of lines is one.
LEMMA NoLinesIsLineSet == NoLines \in LineSets
BY SMT DEF NoLines, LineSets

\* A resolver that is not running holds a well-typed record.
LEMMA IdleIsRequest == ReadyRequest(Idle)
<1>1. Idle \in Request
  BY NoLinesIsLineSet, SMT DEF Idle, Request, Steps, InvoicingSettings
<1>2. Ready(Idle)
  BY SMT DEF Idle, Ready, DraftSteps, FinalizeSteps, PdfSteps
<1>3. QED
  BY <1>1, <1>2 DEF ReadyRequest

\* A resolver's first read stores what it holds, and counts the call.
LEMMA BeginTypes ==
  ASSUME RequestsTyped, NEW r \in Requests, NEW op, NEW q, ReadyRequest(q), Begin(r, op, q)
  PROVE  RequestsTyped'
BY SMT DEF RequestsTyped, CallsTyped, RequestShapes, Begin, Call, ReadyRequest

\* A later step replaces what the resolver holds.
LEMMA ContinueTypes ==
  ASSUME RequestsTyped, NEW r \in Requests, NEW q, ReadyRequest(q), Continue(r, q)
  PROVE  RequestsTyped'
BY SMT DEF RequestsTyped, CallsTyped, RequestShapes, Continue, ReadyRequest

\* The resolver returns.
LEMMA ReturnTypes ==
  ASSUME RequestsTyped, NEW r \in Requests, Return(r)
  PROVE  RequestsTyped'
BY IdleIsRequest, ContinueTypes DEF Return

\* A mutation that is a single write counts the call and leaves the others.
LEMMA CallTypes ==
  ASSUME RequestsTyped, NEW op, Call(op), UNCHANGED requests
  PROVE  RequestsTyped'
BY SMT DEF RequestsTyped, CallsTyped, RequestShapes, Call

-----------------------------------------------------------------------------
(* Type correctness: what each resolver goes on to hold.                   *)

Typed == ItemsTyped /\ InvoicesTyped /\ DetailsTyped /\ RequestsTyped

\* createBillableItem's read of the project leaves a well-typed request.
LEMMA CreateBillableItemCheckRequests ==
  ASSUME Typed, NEW r \in Requests, NEW p \in Projects, NEW c \in Amounts,
         CreateBillableItemCheck(r, p, c)
  PROVE  RequestsTyped'
<1> DEFINE q == [Idle EXCEPT !.step = "createItemPut", !.project = p, !.content = c]
<1>1. "createItemPut" \in Steps
  BY DEF Steps
<1>2. q \in Request
  BY <1>1, IdleIsRequest, Zenon DEF Request, ReadyRequest
<1>3. Ready(q)
  BY IdsAssumption, SMT DEF Idle, Ready, DraftSteps, FinalizeSteps, PdfSteps
<1>4. QED
  BY <1>2, <1>3, BeginTypes DEF CreateBillableItemCheck, Typed, ReadyRequest

\* updateBillableItem's read of the item leaves a well-typed request.
LEMMA UpdateBillableItemReadRequests ==
  ASSUME Typed, NEW r \in Requests, NEW i \in Items, NEW c \in Amounts,
         UpdateBillableItemRead(r, i, c)
  PROVE  RequestsTyped'
<1> DEFINE q(row) == [Idle EXCEPT !.step = IF row.invoice = None
                                           THEN "updateItemWrite"
                                           ELSE "updateItemReadInvoice",
                                  !.ids = {i}, !.content = c,
                                  !.invoice = row.invoice]
<1>1. PICK row \in itemSeen[i] : Begin(r, "updateBillableItem", q(row))
  BY DEF UpdateBillableItemRead
<1>2. row.invoice \in Invoices \cup {None}
  BY SMT DEF Typed, ItemsTyped, BillableItem
<1>3. (IF row.invoice = None THEN "updateItemWrite" ELSE "updateItemReadInvoice") \in Steps
  BY DEF Steps
<1>4. q(row) \in Request
  BY <1>2, <1>3, IdleIsRequest, Zenon DEF Request, ReadyRequest
<1>5. Ready(q(row))
  BY IdsAssumption, SMT DEF Idle, Ready, DraftSteps, FinalizeSteps, PdfSteps
<1>6. QED
  BY <1>1, <1>4, <1>5, BeginTypes DEF Typed, ReadyRequest

\* A step that only moves a ready request on to the step it is ready for.
LEMMA NextStepTypes ==
  ASSUME RequestsTyped, NEW r \in Requests, NEW step \in Steps,
         Continue(r, [requests[r] EXCEPT !.step = step]),
         Ready([requests[r] EXCEPT !.step = step])
  PROVE  RequestsTyped'
<1>1. [requests[r] EXCEPT !.step = step] \in Request
  BY SMT DEF RequestsTyped, CallsTyped, Request
<1>2. QED
  BY <1>1, ContinueTypes DEF ReadyRequest

\* updateBillableItem's read of the invoice leaves a well-typed request.
LEMMA UpdateBillableItemReadInvoiceRequests ==
  ASSUME Typed, NEW r \in Requests, UpdateBillableItemReadInvoice(r)
  PROVE  RequestsTyped'
<1>1. Ready([requests[r] EXCEPT !.step = "updateItemWrite"])
  BY SMT DEF UpdateBillableItemReadInvoice, Typed, RequestsTyped, CallsTyped, RequestShapes,
             Request, Ready, DraftSteps, FinalizeSteps, PdfSteps
<1>2. QED
  BY <1>1, NextStepTypes DEF UpdateBillableItemReadInvoice, Typed, Steps

\* deleteBillableItem's read of the item leaves a well-typed request.
LEMMA DeleteBillableItemReadRequests ==
  ASSUME Typed, NEW r \in Requests, NEW i \in Items, DeleteBillableItemRead(r, i)
  PROVE  RequestsTyped'
<1> DEFINE q == [Idle EXCEPT !.step = "deleteItemWrite", !.ids = {i}]
<1>1. "deleteItemWrite" \in Steps
  BY DEF Steps
<1>2. q \in Request
  BY <1>1, IdleIsRequest, Zenon DEF Request, ReadyRequest
<1>3. Ready(q)
  BY SMT DEF Idle, Ready, DraftSteps, FinalizeSteps, PdfSteps
<1>4. QED
  BY <1>2, <1>3, BeginTypes DEF DeleteBillableItemRead, Typed, ReadyRequest

\* createInvoice's reads and checks leaves a well-typed request.
LEMMA CreateInvoiceCheckRequests ==
  ASSUME Typed, NEW r \in Requests, NEW p \in Projects, NEW ids \in SUBSET Items,
         CreateInvoiceCheck(r, p, ids)
  PROVE  RequestsTyped'
<1> DEFINE q == [Idle EXCEPT !.step = "createInvoiceWrite", !.project = p, !.ids = ids]
<1>1. "createInvoiceWrite" \in Steps
  BY DEF Steps
<1>2. q \in Request
  BY <1>1, IdleIsRequest, Zenon DEF Request, ReadyRequest
<1>3. Ready(q)
  BY IdsAssumption, SMT DEF CreateInvoiceCheck, Idle, Ready, DraftSteps, FinalizeSteps, PdfSteps
<1>4. QED
  BY <1>2, <1>3, BeginTypes DEF CreateInvoiceCheck, Typed, ReadyRequest

\* What a resolver that mutates a draft holds after require_invoice_member.
DraftRead(I, ids, step) == [Idle EXCEPT !.step = step, !.invoice = I, !.ids = ids,
                                        !.project = invoices[I].project,
                                        !.version = invoices[I].version,
                                        !.held = invoices[I].items]

\* The read of a draft that every mutation of one starts with leaves a well-typed request.
LEMMA ReadDraftRequests ==
  ASSUME Typed, NEW r \in Requests, NEW I \in Invoices, NEW ids \in SUBSET Items,
         NEW step \in {"addItemsCheck", "removeItemsWrite", "deleteInvoiceWrite",
                       "finalizeReadItems"},
         NEW op, ReadDraft(r, op, I, ids, step),
         step = "addItemsCheck" =>
            Cardinality(invoices[I].items) + Cardinality(ids) <= MaxInvoiceItems,
         step = "finalizeReadItems" => invoices[I].items # {}
  PROVE  RequestsTyped'
<1> DEFINE q == DraftRead(I, ids, step)
<1>1. step \in Steps
  BY DEF Steps
<1>2. invoices[I] \in Invoice /\ invoices[I].status = "draft" /\ invoices[I].project # None
  BY SMT DEF Typed, InvoicesTyped, InvoiceShape, ReadDraft
<1>3. /\ invoices[I].project \in Projects \cup {None}
      /\ invoices[I].version \in Nat
      /\ invoices[I].items \in SUBSET Items
  BY <1>2, SMT DEF Invoice
<1>4. q \in Request
  BY <1>1, <1>3, IdleIsRequest, Zenon DEF Request, ReadyRequest, DraftRead
<1>5. /\ q.step = step /\ q.invoice = I /\ q.ids = ids /\ q.lines = NoLines
      /\ q.project = invoices[I].project /\ q.held = invoices[I].items
  BY SMT DEF Idle, DraftRead
<1>6. DOMAIN q.lines = {}
  BY <1>5, SMT DEF NoLines
<1> HIDE DEF q
<1>7. Ready(q)
  BY <1>2, <1>5, <1>6, IdsAssumption, SMT DEF Ready, DraftSteps, FinalizeSteps, PdfSteps
<1>8. QED
  BY <1>4, <1>7, BeginTypes DEF ReadDraft, Typed, ReadyRequest, q, DraftRead

\* addInvoiceItems's check of items and total leaves a well-typed request.
LEMMA AddInvoiceItemsCheckRequests ==
  ASSUME Typed, NEW r \in Requests, AddInvoiceItemsCheck(r)
  PROVE  RequestsTyped'
<1>1. Ready([requests[r] EXCEPT !.step = "addItemsWrite"])
  BY SMT DEF AddInvoiceItemsCheck, Typed, RequestsTyped, CallsTyped, RequestShapes,
             Request, Ready, DraftSteps, FinalizeSteps, PdfSteps
<1>2. QED
  BY <1>1, NextStepTypes DEF AddInvoiceItemsCheck, Typed, Steps

\* Line amounts of a set of items are lines.
LEMMA LinesOf == ASSUME NEW S \in SUBSET Items, NEW f \in [S -> Amounts] PROVE f \in LineSets
BY SMT DEF LineSets

\* The lines read so far, with one more item's content, are lines.
LEMMA OneMoreLine ==
  ASSUME NEW lines \in LineSets, NEW i \in Items, NEW c \in Amounts
  PROVE  [j \in DOMAIN lines \cup {i} |-> IF j = i THEN c ELSE lines[j]] \in LineSets
<1> DEFINE f == [j \in DOMAIN lines \cup {i} |-> IF j = i THEN c ELSE lines[j]]
<1>1. PICK S \in SUBSET Items : lines \in [S -> Amounts]
  BY SMT DEF LineSets
<1>2. f \in [S \cup {i} -> Amounts]
  BY <1>1, SMT
<1>3. S \cup {i} \in SUBSET Items
  BY <1>1
<1> HIDE DEF f
<1>4. f \in LineSets
  BY <1>2, <1>3, LinesOf
<1>5. QED
  BY <1>4 DEF f

\* finalizeInvoice's read of one item leaves a well-typed request.
LEMMA FinalizeInvoiceReadItemRequests ==
  ASSUME Typed, NEW r \in Requests, NEW i \in Items, FinalizeInvoiceReadItem(r, i)
  PROVE  RequestsTyped'
<1> DEFINE q == requests[r]
           lines == [j \in DOMAIN q.lines \cup {i} |-> IF j = i THEN items[i].content
                                                               ELSE q.lines[j]]
           q1 == [q EXCEPT !.lines = lines]
<1>1. ReadyRequest(q) /\ q.lines \in LineSets
  BY SMT DEF Typed, RequestsTyped, CallsTyped, RequestShapes, ReadyRequest, Request
<1>2. items[i].content \in Amounts
  BY SMT DEF FinalizeInvoiceReadItem, OnInvoice, Typed, ItemsTyped, BillableItem, ItemShape
<1>3. lines \in LineSets
  BY <1>1, <1>2, OneMoreLine
<1>4. DOMAIN lines = DOMAIN q.lines \cup {i}
  OBVIOUS
<1>5. i \in q.held /\ q.step = "finalizeReadItems" /\ Continue(r, q1)
  BY DEF FinalizeInvoiceReadItem
<1> HIDE DEF lines
<1>6. q1 \in Request
  BY <1>1, <1>3, SMT DEF Request, ReadyRequest
<1>7. Ready(q1)
  BY <1>1, <1>4, <1>5, SMT DEF Request, ReadyRequest, Ready, DraftSteps, FinalizeSteps, PdfSteps
<1>8. QED
  BY <1>5, <1>6, <1>7, ContinueTypes DEF Typed, ReadyRequest

\* finalizeInvoice's read of project and instance leaves a well-typed request.
LEMMA FinalizeInvoiceReadDetailsRequests ==
  ASSUME Typed, NEW r \in Requests, FinalizeInvoiceReadDetails(r)
  PROVE  RequestsTyped'
<1> DEFINE q == requests[r]
           q1(row, s) == [q EXCEPT !.step = "finalizeAllocate",
                                   !.client = row.client, !.settings = s]
<1>1. ReadyRequest(q)
  BY SMT DEF Typed, RequestsTyped, CallsTyped, RequestShapes, ReadyRequest
<1>2. /\ q.step = "finalizeReadItems" /\ DOMAIN q.lines = q.held
      /\ \E row \in projectSeen[q.project], s \in settingsSeen :
            row.client # None /\ Continue(r, q1(row, s))
  BY DEF FinalizeInvoiceReadDetails
<1>3. PICK row \in projectSeen[q.project], s \in settingsSeen :
         row.client # None /\ Continue(r, q1(row, s))
  BY <1>2
<1>4. q.project \in Projects
  BY <1>1, <1>2, SMT DEF ReadyRequest, Request, Ready, DraftSteps, FinalizeSteps
<1>5. row.client \in Clients \cup {None} /\ s \in InvoicingSettings
  BY <1>3, <1>4, SMT DEF Typed, DetailsTyped, Project
<1>6. "finalizeAllocate" \in Steps
  BY DEF Steps
<1>7. q1(row, s) \in Request
  BY <1>1, <1>5, <1>6, Zenon DEF ReadyRequest, Request
<1>8. Ready(q1(row, s))
  BY <1>1, <1>2, <1>3, SMT DEF ReadyRequest, Request, Ready, DraftSteps, FinalizeSteps, PdfSteps
<1>9. QED
  BY <1>3, <1>7, <1>8, ContinueTypes DEF Typed, ReadyRequest

\* The number an invoice stores is a natural number, saturated or not.
LEMMA AsNumberIsNat == ASSUME NEW n \in Nat PROVE AsNumber(n) \in Nat
BY BoundsAssumption, SMT DEF AsNumber

\* finalizeInvoice's taking of a number leaves a well-typed request.
LEMMA FinalizeInvoiceAllocateRequests ==
  ASSUME Typed, NEW r \in Requests, FinalizeInvoiceAllocate(r)
  PROVE  RequestsTyped'
<1> DEFINE q == requests[r]
           q1 == [q EXCEPT !.step = "finalizeWrite", !.number = AsNumber(counter + 1)]
<1>1. ReadyRequest(q)
  BY SMT DEF Typed, RequestsTyped, CallsTyped, RequestShapes, ReadyRequest
<1>2. CASE ~TotalFits(q.lines, q.settings.gst)
  BY <1>2, ReturnTypes DEF FinalizeInvoiceAllocate, Typed
<1>3. CASE TotalFits(q.lines, q.settings.gst)
  <2>1. "finalizeWrite" \in Steps
    BY DEF Steps
  <2>2. counter + 1 \in Nat
    BY SMT DEF Typed, InvoicesTyped
  <2>3. q1 \in Request
    BY <1>1, <2>1, <2>2, AsNumberIsNat, Zenon DEF ReadyRequest, Request
  <2>4. q.step = "finalizeAllocate" /\ Continue(r, q1)
    BY <1>3 DEF FinalizeInvoiceAllocate
  <2>5. Ready(q1)
    BY <1>1, <1>3, <2>4, SMT DEF ReadyRequest, Request, Ready, DraftSteps, FinalizeSteps, PdfSteps
  <2>6. QED
    BY <2>3, <2>4, <2>5, ContinueTypes DEF Typed, ReadyRequest
<1>4. QED
  BY <1>2, <1>3

\* downloadInvoicePdf's read of the snapshot leaves a well-typed request.
LEMMA DownloadInvoicePdfReadRequests ==
  ASSUME Typed, NEW r \in Requests, NEW I \in Invoices, DownloadInvoicePdfRead(r, I)
  PROVE  RequestsTyped'
<1> DEFINE snap == invoices[I].snapshot
           q == [Idle EXCEPT !.step = "pdfPut", !.invoice = I,
                             !.lines = invoices[I].snapshot.lines,
                             !.client = invoices[I].snapshot.client,
                             !.settings = invoices[I].snapshot.settings,
                             !.number = invoices[I].snapshot.number]
<1>1. snap \in InvoiceSnapshot
  BY SMT DEF DownloadInvoicePdfRead, Typed, InvoicesTyped, Invoice, InvoiceShape
<1>2. snap.lines \in LineSets /\ snap.client \in Clients /\ snap.settings \in InvoicingSettings
      /\ snap.number \in Nat
  BY <1>1, SMT DEF InvoiceSnapshot
<1>3. "pdfPut" \in Steps
  BY DEF Steps
<1>4. q \in Request
  BY <1>2, <1>3, IdleIsRequest, Zenon DEF Request, ReadyRequest
<1>5. Ready(q)
  BY <1>2, IdsAssumption, SMT DEF Idle, Ready, DraftSteps, FinalizeSteps, PdfSteps
<1>6. QED
  BY <1>4, <1>5, BeginTypes DEF DownloadInvoicePdfRead, Typed, ReadyRequest

\* downloadInvoicePdf's put of the object leaves a well-typed request.
LEMMA DownloadInvoicePdfPutRequests ==
  ASSUME Typed, NEW r \in Requests, DownloadInvoicePdfPut(r)
  PROVE  RequestsTyped'
<1>1. Ready([requests[r] EXCEPT !.step = "pdfSetKey"])
  BY SMT DEF DownloadInvoicePdfPut, Typed, RequestsTyped, CallsTyped, RequestShapes,
             Request, Ready, DraftSteps, FinalizeSteps, PdfSteps
<1>2. QED
  BY <1>1, NextStepTypes DEF DownloadInvoicePdfPut, Typed, Steps

-----------------------------------------------------------------------------
(* Type correctness: the rows that each write leaves.                      *)

\* A write of well-shaped item rows keeps the item table, and what stale
\* reads return of it, well typed.
LEMMA WriteItemsTypes ==
  ASSUME ItemsTyped, NEW new \in [Items -> BillableItem],
         \A i \in Items : ItemShape(new[i]), WriteItems(new)
  PROVE  ItemsTyped'
BY SMT DEF ItemsTyped, WriteItems

\* Attaching or detaching live items keeps the rows well typed.
LEMMA ReassignedTypes ==
  ASSUME ItemsTyped, NEW ids \in SUBSET Items, NEW I \in Invoices \cup {None},
         \A i \in ids : items[i].state = "live",
         WriteItems(Reassigned(ids, I))
  PROVE  ItemsTyped'
<1> DEFINE new == Reassigned(ids, I)
<1>1. new \in [Items -> BillableItem]
  BY SMT DEF ItemsTyped, Reassigned, BillableItem
<1>2. \A i \in Items : ItemShape(new[i])
  BY SMT DEF ItemsTyped, ItemShape, Reassigned, BillableItem
<1>3. QED
  BY <1>1, <1>2, WriteItemsTypes

\* The row before an invoice is created.
LEMMA NoInvoiceTypes == NoInvoice \in Invoice /\ InvoiceShape(NoInvoice)
BY SnapshotAssumption, SMT DEF NoInvoice, Invoice, InvoiceShape

\* The initial tables.
LEMMA InitTyped == Init => Typed
<1> SUFFICES ASSUME Init PROVE Typed
  OBVIOUS
<1>1. ItemsTyped
  <2>1. items \in [Items -> BillableItem]
    BY IdsAssumption, SMT DEF Init, NoItem, BillableItem
  <2>2. \A i \in Items : ItemShape(items[i])
    BY IdsAssumption, SMT DEF Init, NoItem, ItemShape
  <2>3. QED
    BY <2>1, <2>2, SMT DEF Init, ItemsTyped
<1>2. InvoicesTyped
  BY NoInvoiceTypes, SMT DEF Init, InvoicesTyped
<1>3. DetailsTyped
  BY SMT DEF Init, DetailsTyped
<1>4. RequestsTyped
  BY IdleIsRequest, SMT DEF Init, RequestsTyped, CallsTyped, RequestShapes, ReadyRequest
<1>5. QED
  BY <1>1, <1>2, <1>3, <1>4 DEF Typed

\* The put of createBillableItem leaves well-typed rows.
LEMMA CreateBillableItemPutTyped ==
  ASSUME Typed, NEW r \in Requests, CreateBillableItemPut(r)
  PROVE  Typed'
<1> DEFINE q == requests[r]
           row == [state |-> "live", project |-> q.project,
                   content |-> q.content, invoice |-> None]
<1>1. PICK i \in Items : WriteItems([items EXCEPT ![i] = row])
  BY DEF CreateBillableItemPut
<1>2. row \in BillableItem /\ ItemShape(row)
  BY SMT DEF CreateBillableItemPut, Typed, RequestsTyped, CallsTyped, RequestShapes, Ready,
             Request, BillableItem, ItemShape
<1> HIDE DEF row
<1>3. ItemsTyped'
  <2>1. [items EXCEPT ![i] = row] \in [Items -> BillableItem]
    BY <1>2, SMT DEF Typed, ItemsTyped
  <2>2. \A j \in Items : ItemShape([items EXCEPT ![i] = row][j])
    BY <1>2, SMT DEF Typed, ItemsTyped
  <2>3. QED
    BY <1>1, <2>1, <2>2, WriteItemsTypes DEF Typed
<1>4. RequestsTyped'
  BY ReturnTypes DEF CreateBillableItemPut, Typed
<1>5. InvoicesTyped' /\ DetailsTyped'
  BY SMT DEF CreateBillableItemPut, Typed, InvoicesTyped, DetailsTyped
<1>6. QED
  BY <1>3, <1>4, <1>5 DEF Typed

\* A new version of a draft.
LEMMA VersionBumped ==
  ASSUME InvoicesTyped, NEW I \in Invoices, NEW new,
         new = [invoices EXCEPT ![I].version = @ + 1]
  PROVE  new \in [Invoices -> Invoice] /\ \A J \in Invoices : InvoiceShape(new[J])
<1>1. new \in [Invoices -> Invoice]
  BY SMT DEF InvoicesTyped, Invoice
<1>2. \A J \in Invoices : InvoiceShape(new[J])
  BY SMT DEF InvoicesTyped, Invoice, InvoiceShape
<1>3. QED
  BY <1>1, <1>2

\* updateBillableItem's write leaves well-typed rows.
LEMMA UpdateBillableItemWriteTyped ==
  ASSUME Typed, NEW r \in Requests, UpdateBillableItemWrite(r)
  PROVE  Typed'
<1> DEFINE q == requests[r]
           I == q.invoice
<1>1. RequestsTyped'
  BY ReturnTypes DEF UpdateBillableItemWrite, Typed
<1>2. DetailsTyped'
  BY SMT DEF UpdateBillableItemWrite, Typed, DetailsTyped
<1>3. PICK i \in q.ids :
         IF ItemEditable(i, I)
         THEN /\ WriteItems([items EXCEPT ![i].content = q.content])
              /\ invoices' = IF I = None THEN invoices
                             ELSE [invoices EXCEPT ![I].version = @ + 1]
         ELSE UNCHANGED <<items, itemSeen, invoices>>
  BY DEF UpdateBillableItemWrite
<1>4. UNCHANGED <<counter, pdfs>>
  BY DEF UpdateBillableItemWrite
<1>5. i \in Items /\ I \in Invoices \cup {None} /\ q.content \in Amounts
  BY SMT DEF UpdateBillableItemWrite, Typed, RequestsTyped, CallsTyped, RequestShapes, Ready,
             Request
<1>6. CASE ~ItemEditable(i, I)
  BY <1>1, <1>2, <1>3, <1>4, <1>6, SMT DEF Typed, ItemsTyped, InvoicesTyped
<1>7. CASE ItemEditable(i, I)
  <2> DEFINE new == [items EXCEPT ![i].content = q.content]
  <2>1. new \in [Items -> BillableItem]
    BY <1>5, SMT DEF Typed, ItemsTyped, BillableItem
  <2>2. \A j \in Items : ItemShape(new[j])
    BY <1>5, IdsAssumption, SMT DEF Typed, ItemsTyped, BillableItem, ItemShape
  <2>3. ItemsTyped'
    BY <1>3, <1>7, <2>1, <2>2, WriteItemsTypes DEF Typed
  <2>4. InvoicesTyped'
    BY <1>3, <1>4, <1>5, <1>7, VersionBumped, SMT DEF Typed, InvoicesTyped
  <2>5. QED
    BY <1>1, <1>2, <2>3, <2>4 DEF Typed
<1>8. QED
  BY <1>6, <1>7

\* deleteBillableItem's conditional delete leaves well-typed rows.
LEMMA DeleteBillableItemWriteTyped ==
  ASSUME Typed, NEW r \in Requests, DeleteBillableItemWrite(r)
  PROVE  Typed'
<1> DEFINE gone == [NoItem EXCEPT !.state = "deleted"]
<1>1. RequestsTyped' /\ DetailsTyped' /\ InvoicesTyped'
  BY ReturnTypes, SMT DEF DeleteBillableItemWrite, Typed, DetailsTyped, InvoicesTyped
<1>2. gone \in BillableItem /\ ItemShape(gone)
  BY SMT DEF NoItem, BillableItem, ItemShape
<1> HIDE DEF gone
<1>3. PICK i \in requests[r].ids :
         \/ WriteItems([items EXCEPT ![i] = gone])
         \/ UNCHANGED <<items, itemSeen>>
  BY DEF DeleteBillableItemWrite, gone
<1>4. i \in Items
  BY SMT DEF Typed, RequestsTyped, CallsTyped, Request
<1>5. CASE UNCHANGED <<items, itemSeen>>
  BY <1>1, <1>5 DEF Typed, ItemsTyped
<1>6. CASE WriteItems([items EXCEPT ![i] = gone])
  <2>1. [items EXCEPT ![i] = gone] \in [Items -> BillableItem]
    BY <1>2, <1>4, SMT DEF Typed, ItemsTyped
  <2>2. \A j \in Items : ItemShape([items EXCEPT ![i] = gone][j])
    BY <1>2, SMT DEF Typed, ItemsTyped
  <2>3. QED
    BY <1>1, <1>6, <2>1, <2>2, WriteItemsTypes DEF Typed
<1>7. QED
  BY <1>3, <1>5, <1>6

\* One well-shaped invoice row replaced.
LEMMA InvoiceReplaced ==
  ASSUME InvoicesTyped, NEW I \in Invoices, NEW row \in Invoice, InvoiceShape(row),
         invoices' = [invoices EXCEPT ![I] = row], UNCHANGED <<counter, pdfs>>
  PROVE  InvoicesTyped'
BY SMT DEF InvoicesTyped

\* createInvoice's transaction leaves well-typed rows.
LEMMA CreateInvoiceWriteTyped ==
  ASSUME Typed, NEW r \in Requests, CreateInvoiceWrite(r)
  PROVE  Typed'
<1> DEFINE ids == requests[r].ids
           p == requests[r].project
           row == [NoInvoice EXCEPT !.status = "draft", !.project = p, !.items = ids,
                                    !.version = 1]
<1>1. RequestsTyped' /\ DetailsTyped'
  BY ReturnTypes, SMT DEF CreateInvoiceWrite, Typed, DetailsTyped
<1>2. ids \in SUBSET Items /\ p \in Projects
  BY SMT DEF CreateInvoiceWrite, Typed, RequestsTyped, CallsTyped, RequestShapes, Ready, Request
<1>3. CASE ~Attachable(ids, p)
  BY <1>1, <1>3, SMT DEF CreateInvoiceWrite, Typed, ItemsTyped, InvoicesTyped
<1>4. CASE Attachable(ids, p)
  <2>1. PICK I \in Invoices : /\ invoices' = [invoices EXCEPT ![I] = row]
                              /\ WriteItems(Reassigned(ids, I))
    BY <1>4 DEF CreateInvoiceWrite
  <2>2. "draft" \in {"none", "draft", "finalized", "deleted"}
    OBVIOUS
  <2>3. row \in Invoice
    BY <1>2, <2>2, NoInvoiceTypes, Zenon DEF Invoice
  <2>4. InvoiceShape(row)
    BY <1>2, NoInvoiceTypes, IdsAssumption, SMT DEF NoInvoice, InvoiceShape
  <2> HIDE DEF row
  <2>5. InvoicesTyped'
    BY <2>1, <2>3, <2>4, InvoiceReplaced DEF CreateInvoiceWrite, Typed
  <2>6. ItemsTyped'
    BY <1>2, <1>4, <2>1, ReassignedTypes DEF Attachable, Typed
  <2>7. QED
    BY <1>1, <2>5, <2>6 DEF Typed
<1>5. QED
  BY <1>3, <1>4

\* A draft's membership changed and its version bumped.
LEMMA DraftRevised ==
  ASSUME InvoicesTyped, NEW I \in Invoices, invoices[I].status = "draft",
         NEW new \in SUBSET Items,
         invoices' = [invoices EXCEPT ![I].items = new, ![I].version = @ + 1],
         UNCHANGED <<counter, pdfs>>
  PROVE  InvoicesTyped'
<1> DEFINE row == [invoices[I] EXCEPT !.items = new, !.version = @ + 1]
<1>1. invoices[I] \in Invoice /\ InvoiceShape(invoices[I]) /\ invoices[I].version + 1 \in Nat
  BY SMT DEF InvoicesTyped, Invoice
<1>2. row \in Invoice
  BY <1>1, Zenon DEF Invoice
<1>3. InvoiceShape(row)
  BY <1>1, SMT DEF InvoiceShape, Invoice
<1>4. invoices' = [invoices EXCEPT ![I] = row]
  BY SMT DEF InvoicesTyped, Invoice
<1>5. QED
  BY <1>2, <1>3, <1>4, InvoiceReplaced

\* addInvoiceItems's transaction leaves well-typed rows.
LEMMA AddInvoiceItemsWriteTyped ==
  ASSUME Typed, NEW r \in Requests, AddInvoiceItemsWrite(r)
  PROVE  Typed'
<1> DEFINE ids == requests[r].ids
           I == requests[r].invoice
<1>1. RequestsTyped' /\ DetailsTyped'
  BY ReturnTypes, SMT DEF AddInvoiceItemsWrite, Typed, DetailsTyped
<1>2. ids \in SUBSET Items /\ I \in Invoices
  BY SMT DEF AddInvoiceItemsWrite, Typed, RequestsTyped, CallsTyped, RequestShapes, Ready,
             Request, DraftSteps
<1>3. CASE UNCHANGED <<items, itemSeen, invoices>>
  BY <1>1, <1>3, SMT DEF AddInvoiceItemsWrite, Typed, ItemsTyped, InvoicesTyped
<1>4. CASE DraftAt(I, requests[r].version) /\ Attachable(ids, requests[r].project)
  <2>1. /\ invoices' = [invoices EXCEPT ![I].items = @ \cup ids, ![I].version = @ + 1]
        /\ WriteItems(Reassigned(ids, I))
    BY <1>4 DEF AddInvoiceItemsWrite
  <2>2. invoices[I].items \cup ids \in SUBSET Items
    BY <1>2, SMT DEF Typed, InvoicesTyped, Invoice
  <2>3. InvoicesTyped'
    BY <1>2, <1>4, <2>1, <2>2, DraftRevised, Zenon DEF AddInvoiceItemsWrite, Typed, DraftAt
  <2>4. ItemsTyped'
    BY <1>2, <1>4, <2>1, ReassignedTypes DEF Attachable, Typed
  <2>5. QED
    BY <1>1, <2>3, <2>4 DEF Typed
<1>5. QED
  BY <1>3, <1>4 DEF AddInvoiceItemsWrite

\* removeInvoiceItems's transaction leaves well-typed rows.
LEMMA RemoveInvoiceItemsWriteTyped ==
  ASSUME Typed, NEW r \in Requests, RemoveInvoiceItemsWrite(r)
  PROVE  Typed'
<1> DEFINE ids == requests[r].ids
           I == requests[r].invoice
<1>1. RequestsTyped' /\ DetailsTyped'
  BY ReturnTypes, SMT DEF RemoveInvoiceItemsWrite, Typed, DetailsTyped
<1>2. ids \in SUBSET Items /\ I \in Invoices
  BY SMT DEF RemoveInvoiceItemsWrite, Typed, RequestsTyped, CallsTyped, RequestShapes, Ready,
             Request, DraftSteps
<1>3. CASE UNCHANGED <<items, itemSeen, invoices>>
  BY <1>1, <1>3, SMT DEF RemoveInvoiceItemsWrite, Typed, ItemsTyped, InvoicesTyped
<1>4. CASE DraftAt(I, requests[r].version) /\ OnInvoice(ids, I)
  <2>1. /\ invoices' = [invoices EXCEPT ![I].items = @ \ ids, ![I].version = @ + 1]
        /\ WriteItems(Reassigned(ids, None))
    BY <1>4 DEF RemoveInvoiceItemsWrite
  <2>2. invoices[I].items \ ids \in SUBSET Items
    BY <1>2, SMT DEF Typed, InvoicesTyped, Invoice
  <2>3. InvoicesTyped'
    BY <1>2, <1>4, <2>1, <2>2, DraftRevised, Zenon DEF RemoveInvoiceItemsWrite, Typed, DraftAt
  <2>4. ItemsTyped'
    BY <1>2, <1>4, <2>1, ReassignedTypes DEF OnInvoice, Typed
  <2>5. QED
    BY <1>1, <2>3, <2>4 DEF Typed
<1>5. QED
  BY <1>3, <1>4 DEF RemoveInvoiceItemsWrite

\* deleteInvoice's transaction leaves well-typed rows.
LEMMA DeleteInvoiceWriteTyped ==
  ASSUME Typed, NEW r \in Requests, DeleteInvoiceWrite(r)
  PROVE  Typed'
<1> DEFINE held == requests[r].held
           I == requests[r].invoice
           row == [NoInvoice EXCEPT !.status = "deleted"]
<1>1. RequestsTyped' /\ DetailsTyped'
  BY ReturnTypes, SMT DEF DeleteInvoiceWrite, Typed, DetailsTyped
<1>2. held \in SUBSET Items /\ I \in Invoices
  BY SMT DEF DeleteInvoiceWrite, Typed, RequestsTyped, CallsTyped, RequestShapes, Ready,
             Request, DraftSteps
<1>3. CASE UNCHANGED <<items, itemSeen, invoices>>
  BY <1>1, <1>3, SMT DEF DeleteInvoiceWrite, Typed, ItemsTyped, InvoicesTyped
<1>4. CASE DraftAt(I, requests[r].version) /\ OnInvoice(held, I)
  <2>1. /\ invoices' = [invoices EXCEPT ![I] = row]
        /\ WriteItems(Reassigned(held, None))
    BY <1>4 DEF DeleteInvoiceWrite
  <2>2. row \in Invoice /\ InvoiceShape(row)
    <3>1. row \in Invoice
      BY NoInvoiceTypes, SMT DEF Invoice
    <3>2. InvoiceShape(row)
      BY NoInvoiceTypes, SMT DEF NoInvoice, InvoiceShape
    <3>3. QED
      BY <3>1, <3>2
  <2> HIDE DEF row
  <2>3. InvoicesTyped'
    BY <1>2, <2>1, <2>2, InvoiceReplaced DEF DeleteInvoiceWrite, Typed
  <2>4. ItemsTyped'
    BY <1>2, <1>4, <2>1, ReassignedTypes DEF OnInvoice, Typed
  <2>5. QED
    BY <1>1, <2>3, <2>4 DEF Typed
<1>5. QED
  BY <1>3, <1>4 DEF DeleteInvoiceWrite

\* The snapshot a finalize in flight would freeze is one.
LEMMA SnapshotTypes ==
  ASSUME NEW q, ReadyRequest(q), q.client # None
  PROVE  BuildSnapshot(q) \in InvoiceSnapshot
BY SMT DEF ReadyRequest, Request, BuildSnapshot, InvoiceSnapshot

\* finalizeInvoice's conditional write leaves well-typed rows.
LEMMA FinalizeInvoiceWriteTyped ==
  ASSUME Typed, NEW r \in Requests, FinalizeInvoiceWrite(r)
  PROVE  Typed'
<1> DEFINE q == requests[r]
           I == q.invoice
           snap == BuildSnapshot(q)
           row == [invoices[I] EXCEPT !.status = "finalized", !.number = q.number,
                                      !.snapshot = snap, !.version = @ + 1]
<1>1. RequestsTyped' /\ DetailsTyped' /\ ItemsTyped'
  BY ReturnTypes, SMTT(60) DEF FinalizeInvoiceWrite, seen, Typed, DetailsTyped, ItemsTyped
<1>2. CASE ~DraftAt(I, q.version)
  BY <1>1, <1>2, SMT DEF FinalizeInvoiceWrite, Typed, InvoicesTyped
<1>3. CASE DraftAt(I, q.version)
  <2>1. ReadyRequest(q) /\ q.step = "finalizeWrite"
    BY SMT DEF FinalizeInvoiceWrite, Typed, RequestsTyped, CallsTyped, RequestShapes, ReadyRequest
  <2>2. I \in Invoices /\ q.client # None /\ q.number \in Nat
    BY <2>1, SMT DEF ReadyRequest, Ready, Request, DraftSteps, FinalizeSteps
  <2>3. snap \in InvoiceSnapshot
    BY <2>1, <2>2, SnapshotTypes
  <2> HIDE DEF snap
  <2>4. invoices[I] \in Invoice /\ InvoiceShape(invoices[I]) /\ invoices[I].version + 1 \in Nat
    BY <2>2, SMT DEF Typed, InvoicesTyped, Invoice
  <2>5. "finalized" \in {"none", "draft", "finalized", "deleted"}
    OBVIOUS
  <2>6. row \in Invoice
    BY <2>2, <2>3, <2>4, <2>5, Zenon DEF Invoice
  <2>7. InvoiceShape(row)
    BY <1>3, <2>3, <2>4, SnapshotAssumption, SMT DEF Invoice, InvoiceShape, DraftAt
  <2>8. invoices' = [invoices EXCEPT ![I] = row] /\ UNCHANGED <<counter, pdfs>>
    BY <1>3, <2>2, SMTT(60) DEF FinalizeInvoiceWrite, Typed, InvoicesTyped, Invoice, snap
  <2>9. InvoicesTyped'
    BY <2>2, <2>6, <2>7, <2>8, InvoiceReplaced DEF Typed
  <2>10. QED
    BY <1>1, <2>9 DEF Typed
<1>4. QED
  BY <1>2, <1>3

\* setInvoicePaid leaves well-typed rows.
LEMMA SetInvoicePaidTyped ==
  ASSUME Typed, NEW I \in Invoices, NEW paid \in BOOLEAN, SetInvoicePaid(I, paid)
  PROVE  Typed'
<1> DEFINE row == [invoices[I] EXCEPT !.paid = paid]
<1>1. RequestsTyped' /\ ItemsTyped' /\ DetailsTyped'
  BY CallTypes, SMT DEF SetInvoicePaid, seen, Typed, ItemsTyped, DetailsTyped
<1>2. invoices[I] \in Invoice /\ InvoiceShape(invoices[I]) /\ invoices[I].status = "finalized"
  BY SMT DEF Typed, InvoicesTyped, SetInvoicePaid
<1>3. row \in Invoice
  BY <1>2, Zenon DEF Invoice
<1>4. row.status = "finalized" /\ row.snapshot = invoices[I].snapshot
         /\ row.project = invoices[I].project /\ row.items = invoices[I].items
  BY <1>2, SMT DEF Invoice
<1>5. InvoiceShape(row)
  BY <1>2, <1>4, Zenon DEF InvoiceShape
<1>6. invoices' = [invoices EXCEPT ![I] = row] /\ UNCHANGED <<counter, pdfs>>
  BY SMT DEF SetInvoicePaid, Typed, InvoicesTyped, Invoice
<1>7. InvoicesTyped'
  BY <1>3, <1>5, <1>6, InvoiceReplaced DEF Typed
<1>8. QED
  BY <1>1, <1>7 DEF Typed

\* downloadInvoicePdf's put of the object leaves well-typed rows.
LEMMA DownloadInvoicePdfPutTyped ==
  ASSUME Typed, NEW r \in Requests, DownloadInvoicePdfPut(r)
  PROVE  Typed'
<1> DEFINE q == requests[r]
<1>1. RequestsTyped' /\ ItemsTyped' /\ DetailsTyped'
  <2>1. RequestsTyped'
    BY DownloadInvoicePdfPutRequests
  <2>2. UNCHANGED <<items, itemSeen, projects, projectSeen, settings, settingsSeen>>
    BY DEF DownloadInvoicePdfPut, seen
  <2>3. QED
    BY <2>1, <2>2, SMT DEF Typed, ItemsTyped, DetailsTyped
<1>2. ReadyRequest(q) /\ q.step = "pdfPut"
  BY SMT DEF DownloadInvoicePdfPut, Typed, RequestsTyped, CallsTyped, RequestShapes, ReadyRequest
<1>3. BuildSnapshot(q) \in InvoiceSnapshot /\ q.invoice \in Invoices
  BY <1>2, SnapshotTypes, SMT DEF ReadyRequest, Request, Ready, PdfSteps
<1>4. InvoicesTyped'
  <2>1. /\ pdfs' = [pdfs EXCEPT ![q.invoice] = BuildSnapshot(q)]
        /\ invoices' = invoices /\ counter' = counter
    BY DEF DownloadInvoicePdfPut
  <2>2. pdfs' \in [Invoices -> InvoiceSnapshot \cup {None}]
    BY <1>3, <2>1, Zenon DEF Typed, InvoicesTyped
  <2>3. QED
    BY <2>1, <2>2 DEF Typed, InvoicesTyped
<1>5. QED
  BY <1>1, <1>4 DEF Typed

\* downloadInvoicePdf's set of the key leaves well-typed rows.
LEMMA DownloadInvoicePdfSetKeyTyped ==
  ASSUME Typed, NEW r \in Requests, DownloadInvoicePdfSetKey(r)
  PROVE  Typed'
<1> DEFINE I == requests[r].invoice
           row == [invoices[I] EXCEPT !.pdf = TRUE]
<1>1. RequestsTyped' /\ ItemsTyped' /\ DetailsTyped'
  <2>1. RequestsTyped'
    BY ReturnTypes DEF DownloadInvoicePdfSetKey, Typed
  <2>2. UNCHANGED <<items, itemSeen, projects, projectSeen, settings, settingsSeen>>
    BY DEF DownloadInvoicePdfSetKey, seen
  <2>3. QED
    BY <2>1, <2>2, SMT DEF Typed, ItemsTyped, DetailsTyped
<1>2. CASE UNCHANGED invoices
  <2>1. UNCHANGED <<counter, pdfs>>
    BY DEF DownloadInvoicePdfSetKey
  <2>2. QED
    BY <1>1, <1>2, <2>1 DEF Typed, InvoicesTyped
<1>3. CASE invoices[I].status = "finalized"
  <2>1. I \in Invoices
    BY SMT DEF DownloadInvoicePdfSetKey, Typed, RequestsTyped, CallsTyped, RequestShapes, Ready,
               Request, PdfSteps
  <2>2. invoices[I] \in Invoice /\ InvoiceShape(invoices[I])
    BY <2>1, SMT DEF Typed, InvoicesTyped
  <2>3. row \in Invoice
    BY <2>2, Zenon DEF Invoice
  <2>4. row.status = "finalized" /\ row.snapshot = invoices[I].snapshot
           /\ row.project = invoices[I].project /\ row.items = invoices[I].items
    BY <1>3, <2>2, SMT DEF Invoice
  <2>5. InvoiceShape(row)
    BY <1>3, <2>2, <2>4, Zenon DEF InvoiceShape
  <2>6. invoices' = [invoices EXCEPT ![I] = row] /\ UNCHANGED <<counter, pdfs>>
    BY <1>3, <2>1, SMT DEF DownloadInvoicePdfSetKey, Typed, InvoicesTyped, Invoice
  <2>7. InvoicesTyped'
    BY <2>1, <2>3, <2>5, <2>6, InvoiceReplaced DEF Typed
  <2>8. QED
    BY <1>1, <2>7 DEF Typed
<1>4. QED
  BY <1>2, <1>3 DEF DownloadInvoicePdfSetKey

\* The steps that only write to projects, settings or the counter.
LEMMA DetailWritesTyped ==
  ASSUME Typed,
         \/ \E p \in Projects, c \in Clients : CreateProject(p, c)
         \/ \E p \in Projects, c \in Clients, a \in BOOLEAN : UpdateProject(p, c, a)
         \/ \E s \in InvoicingSettings : UpdateInvoicingSettings(s)
         \/ \E next \in 1..MaxNext : SetNextInvoiceNumber(next)
  PROVE  Typed'
<1>1. ASSUME NEW p \in Projects, NEW c \in Clients, CreateProject(p, c) PROVE Typed'
  <2>1. RequestsTyped' /\ ItemsTyped' /\ InvoicesTyped'
    BY <1>1, CallTypes, SMT DEF CreateProject, Typed, ItemsTyped, InvoicesTyped
  <2>2. projects' \in [Projects -> Project]
    BY <1>1, SMT DEF CreateProject, Typed, DetailsTyped, Project
  <2>3. QED
    BY <1>1, <2>1, <2>2, SMT DEF CreateProject, Typed, DetailsTyped
<1>2. ASSUME NEW p \in Projects, NEW c \in Clients, NEW a \in BOOLEAN, UpdateProject(p, c, a)
      PROVE  Typed'
  <2>1. RequestsTyped' /\ ItemsTyped' /\ InvoicesTyped'
    BY <1>2, CallTypes, SMT DEF UpdateProject, Typed, ItemsTyped, InvoicesTyped
  <2>2. [client |-> c, archived |-> a] \in Project
    BY SMT DEF Project
  <2>3. projects' \in [Projects -> Project]
    BY <1>2, <2>2, SMT DEF UpdateProject, Typed, DetailsTyped
  <2>4. QED
    BY <1>2, <2>1, <2>3, SMT DEF UpdateProject, Typed, DetailsTyped
<1>3. ASSUME NEW s \in InvoicingSettings, UpdateInvoicingSettings(s) PROVE Typed'
  <2>1. RequestsTyped' /\ ItemsTyped' /\ InvoicesTyped'
    BY <1>3, CallTypes, SMT DEF UpdateInvoicingSettings, Typed, ItemsTyped, InvoicesTyped
  <2>2. QED
    BY <1>3, <2>1, SMT DEF UpdateInvoicingSettings, Typed, DetailsTyped
<1>4. ASSUME NEW next \in 1..MaxNext, SetNextInvoiceNumber(next) PROVE Typed'
  <2>1. RequestsTyped' /\ ItemsTyped' /\ DetailsTyped'
    BY <1>4, CallTypes, SMT DEF SetNextInvoiceNumber, seen, Typed, ItemsTyped, DetailsTyped
  <2>2. counter' \in Nat
    BY <1>4, SMT DEF SetNextInvoiceNumber
  <2>3. QED
    BY <1>4, <2>1, <2>2, SMT DEF SetNextInvoiceNumber, Typed, InvoicesTyped
<1>5. QED
  BY <1>1, <1>2, <1>3, <1>4

\* A step that reads, or ends, leaves every row.
LEMMA TablesUnchangedTyped ==
  ASSUME Typed, UNCHANGED <<tables, seen>>, RequestsTyped'
  PROVE  Typed'
BY SMT DEF Typed, tables, seen, ItemsTyped, InvoicesTyped, DetailsTyped

-----------------------------------------------------------------------------
(* Type correctness: the theorem.                                          *)

\* Every resolver's first read (the first storage call of a mutation).
LEMMA CallsKeepTyped ==
  ASSUME Typed, NEW r \in Requests, ItemCall(r) \/ InvoiceCall(r)
  PROVE  Typed'
<1>1. ASSUME NEW p \in Projects, NEW c \in Amounts, CreateBillableItemCheck(r, p, c) PROVE Typed'
  BY <1>1, CreateBillableItemCheckRequests, TablesUnchangedTyped DEF CreateBillableItemCheck
<1>2. ASSUME NEW i \in Items, NEW c \in Amounts, UpdateBillableItemRead(r, i, c) PROVE Typed'
  BY <1>2, UpdateBillableItemReadRequests, TablesUnchangedTyped DEF UpdateBillableItemRead
<1>3. ASSUME NEW i \in Items, DeleteBillableItemRead(r, i) PROVE Typed'
  BY <1>3, DeleteBillableItemReadRequests, TablesUnchangedTyped DEF DeleteBillableItemRead
<1>4. ASSUME NEW p \in Projects, NEW ids \in SUBSET Items, CreateInvoiceCheck(r, p, ids)
      PROVE  Typed'
  BY <1>4, CreateInvoiceCheckRequests, TablesUnchangedTyped, ZenonT(60) DEF CreateInvoiceCheck
<1>5. ASSUME NEW I \in Invoices, NEW ids \in SUBSET Items, AddInvoiceItemsRead(r, I, ids)
      PROVE  Typed'
  BY <1>5, ReadDraftRequests, TablesUnchangedTyped, ZenonT(60) DEF AddInvoiceItemsRead, ReadDraft
<1>6. ASSUME NEW I \in Invoices, NEW ids \in SUBSET Items, RemoveInvoiceItemsRead(r, I, ids)
      PROVE  Typed'
  BY <1>6, ReadDraftRequests, TablesUnchangedTyped, ZenonT(60) DEF RemoveInvoiceItemsRead, ReadDraft
<1>7. ASSUME NEW I \in Invoices, DeleteInvoiceRead(r, I) PROVE Typed'
  <2>1. {} \in SUBSET Items
    OBVIOUS
  <2>2. QED
    BY <1>7, <2>1, ReadDraftRequests, TablesUnchangedTyped, ZenonT(60) DEF DeleteInvoiceRead, ReadDraft
<1>8. ASSUME NEW I \in Invoices, FinalizeInvoiceRead(r, I) PROVE Typed'
  <2>1. {} \in SUBSET Items
    OBVIOUS
  <2>2. QED
    BY <1>8, <2>1, ReadDraftRequests, TablesUnchangedTyped DEF FinalizeInvoiceRead, ReadDraft
<1>9. ASSUME NEW I \in Invoices, DownloadInvoicePdfRead(r, I) PROVE Typed'
  BY <1>9, DownloadInvoicePdfReadRequests, TablesUnchangedTyped DEF DownloadInvoicePdfRead
<1>10. QED
  BY <1>1, <1>2, <1>3, <1>4, <1>5, <1>6, <1>7, <1>8, <1>9 DEF ItemCall, InvoiceCall

\* Every later storage call of a resolver.
LEMMA StepsKeepTyped ==
  ASSUME Typed, NEW r \in Requests,
         ItemStep(r) \/ DraftStep(r) \/ FinalizeStep(r) \/ PdfStep(r) \/ Stop(r)
  PROVE  Typed'
<1>1. CASE ItemStep(r)
  <2>1. CASE UpdateBillableItemReadInvoice(r)
    BY <2>1, UpdateBillableItemReadInvoiceRequests, TablesUnchangedTyped
       DEF UpdateBillableItemReadInvoice
  <2>2. QED
    BY <1>1, <2>1, CreateBillableItemPutTyped, UpdateBillableItemWriteTyped,
       DeleteBillableItemWriteTyped DEF ItemStep
<1>2. CASE DraftStep(r)
  <2>1. CASE AddInvoiceItemsCheck(r)
    BY <2>1, AddInvoiceItemsCheckRequests, TablesUnchangedTyped DEF AddInvoiceItemsCheck
  <2>2. QED
    BY <1>2, <2>1, CreateInvoiceWriteTyped, AddInvoiceItemsWriteTyped,
       RemoveInvoiceItemsWriteTyped, DeleteInvoiceWriteTyped DEF DraftStep
<1>3. CASE FinalizeStep(r)
  <2>1. ASSUME NEW i \in Items, FinalizeInvoiceReadItem(r, i) PROVE Typed'
    BY <2>1, FinalizeInvoiceReadItemRequests, TablesUnchangedTyped DEF FinalizeInvoiceReadItem
  <2>2. CASE FinalizeInvoiceReadDetails(r)
    BY <2>2, FinalizeInvoiceReadDetailsRequests, TablesUnchangedTyped
       DEF FinalizeInvoiceReadDetails
  <2>3. CASE FinalizeInvoiceAllocate(r)
    <3>1. RequestsTyped'
      BY <2>3, FinalizeInvoiceAllocateRequests
    <3>2. counter' \in Nat
      BY <2>3, SMT DEF FinalizeInvoiceAllocate, Typed, InvoicesTyped
    <3>3. UNCHANGED <<items, invoices, projects, settings, pdfs, seen>>
      BY <2>3 DEF FinalizeInvoiceAllocate
    <3>4. QED
      BY <3>1, <3>2, <3>3, SMT DEF seen, Typed, ItemsTyped, InvoicesTyped, DetailsTyped
  <2>4. CASE FinalizeInvoiceAllocateLost(r)
    <3>1. RequestsTyped'
      BY <2>4, CallTypes DEF FinalizeInvoiceAllocateLost, Typed
    <3>2. counter' \in Nat
      BY <2>4, SMT DEF FinalizeInvoiceAllocateLost, Typed, InvoicesTyped
    <3>3. UNCHANGED <<items, invoices, projects, settings, pdfs, seen>>
      BY <2>4 DEF FinalizeInvoiceAllocateLost
    <3>4. QED
      BY <3>1, <3>2, <3>3, SMT DEF seen, Typed, ItemsTyped, InvoicesTyped, DetailsTyped
  <2>5. QED
    BY <1>3, <2>1, <2>2, <2>3, <2>4, FinalizeInvoiceWriteTyped DEF FinalizeStep
<1>4. CASE PdfStep(r)
  BY <1>4, DownloadInvoicePdfPutTyped, DownloadInvoicePdfSetKeyTyped DEF PdfStep
<1>5. CASE Stop(r)
  BY <1>5, ReturnTypes, TablesUnchangedTyped DEF Stop, Typed
<1>6. QED
  BY <1>1, <1>2, <1>3, <1>4, <1>5

\* No step, of any resolver, leaves the types.
LEMMA NextTyped == Typed /\ [Next]_vars => Typed'
<1> SUFFICES ASSUME Typed, [Next]_vars PROVE Typed'
  OBVIOUS
<1>1. CASE OneWrite
  BY <1>1, DetailWritesTyped, SetInvoicePaidTyped DEF OneWrite
<1>2. CASE \E r \in Requests : ItemCall(r) \/ InvoiceCall(r)
  BY <1>2, CallsKeepTyped
<1>3. CASE \E r \in Requests :
              ItemStep(r) \/ DraftStep(r) \/ FinalizeStep(r) \/ PdfStep(r) \/ Stop(r)
  BY <1>3, StepsKeepTyped
<1>4. CASE UNCHANGED vars
  <2>1. RequestsTyped'
    BY <1>4 DEF vars, Typed, RequestsTyped, CallsTyped, RequestShapes
  <2>2. UNCHANGED <<tables, seen>>
    BY <1>4 DEF vars, tables, seen
  <2>3. QED
    BY <2>1, <2>2, TablesUnchangedTyped
<1>5. QED
  BY <1>1, <1>2, <1>3, <1>4 DEF Next

\* Every reachable state is well typed, and every request in flight has what
\* its next storage call uses.
LEMMA AlwaysTyped == Spec => []Typed
<1>1. Init => Typed
  BY InitTyped
<1>2. Typed /\ [Next]_vars => Typed'
  BY NextTyped
<1>3. QED
  BY <1>1, <1>2, PTL DEF Spec

\* The item, invoice and counter tables hold rows of their types, and no row
\* ever has an attribute that its state excludes (a draft that is paid, an
\* unbilled item's deleted row on an invoice, ...), for any number of racing
\* resolvers of mutations.rs.
THEOREM TypeCorrect == Spec => []TypeOK
<1>1. Typed => TypeOK
  BY DEF Typed, TypeOK, RequestsTyped
<1>2. QED
  BY <1>1, AlwaysTyped, PTL

-----------------------------------------------------------------------------
(* What a write may do to the rows that another resolver has read.         *)

\* Only FinalizeInvoiceWrite finalizes, and nothing undoes or changes it.
LedgerKept == FinalizedKept /\ \A I \in Invoices : Finalized(I)' => Finalized(I)

\* The version of a draft never goes back, and no row reappears.
VersionsGrow ==
    \A J \in Invoices : invoices[J].status # "none" =>
        /\ invoices'[J].status # "none"
        /\ invoices'[J].status = "draft" =>
              invoices[J].status = "draft" /\ invoices[J].version <= invoices'[J].version

\* What is on an invoice changes only together with its version, and never
\* once it is finalized.
ContentsKept ==
    \A J \in Invoices :
        \/ Finalized(J)
        \/ /\ invoices[J].status = "draft" /\ invoices'[J].status = "draft"
           /\ invoices'[J].version = invoices[J].version
        => /\ invoices'[J].items = invoices[J].items
           /\ \A i \in invoices[J].items : items'[i].content = items[i].content

\* What every write keeps for the resolvers racing with it.
Orderly == VersionsGrow /\ ContentsKept /\ MembershipAgrees'

\* A request refers to rows that exist.
LEMMA RequestRefers ==
  ASSUME Typed, NEW r \in Requests
  PROVE  /\ requests[r] \in Request /\ Ready(requests[r])
         /\ requests[r].ids \in SUBSET Items /\ requests[r].held \in SUBSET Items
         /\ requests[r].version \in Nat
         /\ requests[r].step \in DraftSteps \cup PdfSteps => requests[r].invoice \in Invoices
         /\ requests[r].invoice \in Invoices \cup {None}
BY SMT DEF Typed, RequestsTyped, CallsTyped, RequestShapes, Request, Ready

\* None is no invoice.
LEMMA NoneIsNoInvoice == None \notin Invoices
BY IdsAssumption

\* The put of createBillableItem changes the tables in an orderly way:
\* versions grow, and the content under a version stays.
LEMMA CreateBillableItemPutOrderly ==
  ASSUME Typed, MembershipAgrees, NEW r \in Requests, CreateBillableItemPut(r)
  PROVE  Orderly /\ LedgerKept
<1> DEFINE row == [state |-> "live", project |-> requests[r].project,
                   content |-> requests[r].content, invoice |-> None]
<1>1. PICK i \in Items : items[i] = NoItem /\ WriteItems([items EXCEPT ![i] = row])
  BY DEF CreateBillableItemPut
<1>2. row.invoice = None /\ items[i].invoice = None
  BY <1>1 DEF NoItem
<1>3. items' = [items EXCEPT ![i] = row] /\ invoices' = invoices
  BY <1>1 DEF WriteItems, CreateBillableItemPut
<1> HIDE DEF row
<1>4. \A J \in Invoices : i \notin invoices[J].items
  BY <1>2, NoneIsNoInvoice, SMT DEF MembershipAgrees
<1>5. VersionsGrow /\ LedgerKept
  BY <1>3, SMT DEF VersionsGrow, LedgerKept, FinalizedKept, Finalized, Typed, InvoicesTyped, Invoice
<1>6. ContentsKept
  BY <1>3, <1>4, SMT DEF ContentsKept, Typed, ItemsTyped, InvoicesTyped, Invoice
<1>7. MembershipAgrees'
  BY <1>2, <1>3, <1>4, NoneIsNoInvoice, SMT DEF MembershipAgrees, Typed, ItemsTyped
<1>8. QED
  BY <1>5, <1>6, <1>7 DEF Orderly

\* updateBillableItem's write changes the tables in an orderly way:
\* versions grow, and the content under a version stays.
LEMMA UpdateBillableItemWriteOrderly ==
  ASSUME Typed, MembershipAgrees, NEW r \in Requests, UpdateBillableItemWrite(r)
  PROVE  Orderly /\ LedgerKept
<1> DEFINE q == requests[r]
           I == q.invoice
<1>1. PICK i \in q.ids :
         IF ItemEditable(i, I)
         THEN /\ WriteItems([items EXCEPT ![i].content = q.content])
              /\ invoices' = IF I = None THEN invoices
                             ELSE [invoices EXCEPT ![I].version = @ + 1]
         ELSE UNCHANGED <<items, itemSeen, invoices>>
  BY DEF UpdateBillableItemWrite
<1>2. i \in Items /\ I \in Invoices \cup {None}
  BY RequestRefers, SMT
<1>3. CASE ~ItemEditable(i, I)
  <2>1. items' = items /\ invoices' = invoices
    BY <1>1, <1>3
  <2>2. QED
    BY <2>1, SMT DEF Orderly, VersionsGrow, ContentsKept, MembershipAgrees, LedgerKept,
                     FinalizedKept, Finalized, Typed, InvoicesTyped, Invoice
<1>4. CASE ItemEditable(i, I)
  <2>1. /\ items' = [items EXCEPT ![i].content = q.content]
        /\ items[i].invoice = I
        /\ I # None => invoices[I].status = "draft"
    BY <1>1, <1>4 DEF WriteItems, ItemEditable
  <2>2. \A J \in Invoices : i \in invoices[J].items => J = I
    BY <1>2, <2>1, SMT DEF MembershipAgrees
  <2>3. \A j \in Items : /\ items'[j].invoice = items[j].invoice
                         /\ j # i => items'[j].content = items[j].content
    BY <2>1, SMT DEF Typed, ItemsTyped, BillableItem
  <2>4. \A J \in Invoices : /\ invoices'[J].items = invoices[J].items
                            /\ invoices'[J].status = invoices[J].status
                            /\ invoices'[J].number = invoices[J].number
                            /\ invoices'[J].snapshot = invoices[J].snapshot
                            /\ invoices'[J].version
                                  = IF J = I THEN invoices[J].version + 1 ELSE invoices[J].version
    BY <1>1, <1>2, <1>4, NoneIsNoInvoice, SMT DEF Typed, InvoicesTyped, Invoice
  <2>5. \A J \in Invoices : invoices[J].version \in Nat /\ invoices[J].items \subseteq Items
    BY SMT DEF Typed, InvoicesTyped, Invoice
  <2>6. VersionsGrow /\ LedgerKept
    BY <2>4, <2>5, SMT DEF VersionsGrow, LedgerKept, FinalizedKept, Finalized
  <2>7. ContentsKept
    BY <2>1, <2>2, <2>3, <2>4, <2>5, NoneIsNoInvoice, SMT DEF ContentsKept, Finalized
  <2>8. MembershipAgrees'
    BY <2>3, <2>4, SMT DEF MembershipAgrees
  <2>9. QED
    BY <2>6, <2>7, <2>8 DEF Orderly
<1>5. QED
  BY <1>3, <1>4

\* deleteBillableItem's conditional delete changes the tables in an orderly way:
\* versions grow, and the content under a version stays.
LEMMA DeleteBillableItemWriteOrderly ==
  ASSUME Typed, MembershipAgrees, NEW r \in Requests, DeleteBillableItemWrite(r)
  PROVE  Orderly /\ LedgerKept
<1> DEFINE gone == [NoItem EXCEPT !.state = "deleted"]
<1>1. PICK i \in requests[r].ids :
         IF items[i].state = "live" /\ items[i].invoice = None
         THEN WriteItems([items EXCEPT ![i] = gone])
         ELSE UNCHANGED <<items, itemSeen>>
  BY DEF DeleteBillableItemWrite
<1>2. invoices' = invoices /\ i \in Items
  BY RequestRefers, SMT DEF DeleteBillableItemWrite
<1>3. gone.invoice = None
  BY DEF NoItem
<1> HIDE DEF gone
<1>4. VersionsGrow /\ LedgerKept
  BY <1>2, SMT DEF VersionsGrow, LedgerKept, FinalizedKept, Finalized, Typed, InvoicesTyped, Invoice
<1>5. CASE items' = items
  BY <1>2, <1>4, <1>5, SMT DEF Orderly, ContentsKept, MembershipAgrees
<1>6. CASE items[i].invoice = None /\ items' = [items EXCEPT ![i] = gone]
  <2>1. \A J \in Invoices : i \notin invoices[J].items
    BY <1>2, <1>6, NoneIsNoInvoice, SMT DEF MembershipAgrees
  <2>2. ContentsKept
    BY <1>2, <1>6, <2>1, SMT DEF ContentsKept, Typed, ItemsTyped, InvoicesTyped, Invoice
  <2>3. MembershipAgrees'
    BY <1>2, <1>3, <1>6, <2>1, NoneIsNoInvoice, SMT DEF MembershipAgrees, Typed, ItemsTyped
  <2>4. QED
    BY <1>4, <2>2, <2>3 DEF Orderly
<1>7. QED
  BY <1>1, <1>5, <1>6 DEF WriteItems

\* What attaching or detaching does to the rows.
LEMMA ReassignedRows ==
  ASSUME Typed, NEW ids \in SUBSET Items, NEW I, items' = Reassigned(ids, I)
  PROVE  \A i \in Items : /\ items'[i].content = items[i].content
                          /\ items'[i].invoice = IF i \in ids THEN I ELSE items[i].invoice
BY SMT DEF Typed, ItemsTyped, BillableItem, Reassigned

\* A draft created, changed or deleted together with the items on it.
LEMMA MembershipMoved ==
  ASSUME Typed, InvoicesTyped', MembershipAgrees, NEW I \in Invoices, ~Finalized(I),
         \A J \in Invoices : J # I => invoices'[J] = invoices[J],
         invoices'[I].status \in {"draft", "deleted"},
         invoices'[I].status = "draft" =>
            \/ invoices[I].status = "none"
            \/ invoices[I].status = "draft" /\ invoices'[I].version > invoices[I].version,
         \A i \in Items : items'[i].content = items[i].content,
         \A i \in Items : \/ items'[i].invoice = items[i].invoice
                          \/ items'[i].invoice \in {I, None} /\ items[i].invoice \in {I, None},
         \A i \in Items : items'[i].invoice = I <=> i \in invoices'[I].items
  PROVE  Orderly /\ LedgerKept
<1>1. \A J \in Invoices : /\ invoices[J].version \in Nat /\ invoices[J].items \subseteq Items
                          /\ invoices'[J].version \in Nat
  BY SMT DEF Typed, InvoicesTyped, Invoice
<1>2. VersionsGrow
  BY <1>1, SMT DEF VersionsGrow
<1>3. LedgerKept
  BY SMT DEF LedgerKept, FinalizedKept, Finalized
<1>4. ContentsKept
  BY <1>1, SMT DEF ContentsKept, Finalized
<1>5. MembershipAgrees'
  BY NoneIsNoInvoice, SMT DEF MembershipAgrees
<1>6. QED
  BY <1>2, <1>3, <1>4, <1>5 DEF Orderly

\* Writes that change no row at all.
LEMMA NothingWritten ==
  ASSUME Typed, MembershipAgrees, UNCHANGED <<items, invoices>>
  PROVE  Orderly /\ LedgerKept
BY SMT DEF Orderly, VersionsGrow, ContentsKept, MembershipAgrees, LedgerKept, FinalizedKept,
           Finalized, Typed, InvoicesTyped, Invoice

\* createInvoice's transaction changes the tables in an orderly way:
\* versions grow, and the content under a version stays.
LEMMA CreateInvoiceWriteOrderly ==
  ASSUME Typed, MembershipAgrees, NEW r \in Requests, CreateInvoiceWrite(r)
  PROVE  Orderly /\ LedgerKept
<1> DEFINE ids == requests[r].ids
           p == requests[r].project
           row == [NoInvoice EXCEPT !.status = "draft", !.project = p, !.items = ids,
                                    !.version = 1]
<1>1. CASE ~Attachable(ids, p)
  BY <1>1, NothingWritten DEF CreateInvoiceWrite
<1>2. CASE Attachable(ids, p)
  <2>1. PICK I \in Invoices : /\ invoices[I] = NoInvoice
                              /\ invoices' = [invoices EXCEPT ![I] = row]
                              /\ WriteItems(Reassigned(ids, I))
    BY <1>2 DEF CreateInvoiceWrite
  <2>2. row.status = "draft" /\ row.items = ids
    BY SMT DEF NoInvoice
  <2>3. invoices[I].status = "none" /\ invoices[I].items = {}
    BY <2>1 DEF NoInvoice
  <2> HIDE DEF row
  <2>4. InvoicesTyped'
    BY CreateInvoiceWriteTyped DEF Typed
  <2>5. \A J \in Invoices : invoices'[J] = IF J = I THEN row ELSE invoices[J]
    BY <2>1, SMT DEF Typed, InvoicesTyped
  <2>6. ids \in SUBSET Items
    BY RequestRefers
  <2>7. \A i \in Items : /\ items'[i].content = items[i].content
                         /\ items'[i].invoice = IF i \in ids THEN I ELSE items[i].invoice
    BY <2>1, <2>6, ReassignedRows DEF WriteItems
  <2>8. \A i \in Items : i \in ids => items[i].invoice = None
    BY <1>2 DEF Attachable
  <2>9. \A i \in Items : items[i].invoice # I
    BY <2>3, SMT DEF MembershipAgrees
  <2>10. QED
    BY <2>2, <2>3, <2>4, <2>5, <2>7, <2>8, <2>9, MembershipMoved, SMT DEF Finalized
<1>3. QED
  BY <1>1, <1>2

\* A draft revised together with the items on it.
LEMMA DraftRevisedOrderly ==
  ASSUME Typed, InvoicesTyped', MembershipAgrees, NEW I \in Invoices,
         invoices[I].status = "draft", NEW new,
         invoices' = [invoices EXCEPT ![I].items = new, ![I].version = @ + 1],
         \A i \in Items : items'[i].content = items[i].content,
         \A i \in Items : \/ items'[i].invoice = items[i].invoice
                          \/ items'[i].invoice \in {I, None} /\ items[i].invoice \in {I, None},
         \A i \in Items : items'[i].invoice = I <=> i \in new
  PROVE  Orderly /\ LedgerKept
<1>1. /\ invoices'[I].items = new
      /\ invoices'[I].version = invoices[I].version + 1
      /\ invoices'[I].status = invoices[I].status
      /\ \A J \in Invoices : J # I => invoices'[J] = invoices[J]
      /\ invoices[I].version \in Nat
  BY SMT DEF Typed, InvoicesTyped, Invoice
<1>2. ~Finalized(I) /\ invoices'[I].version > invoices[I].version
  BY <1>1, SMT DEF Finalized
<1>3. invoices'[I].status \in {"draft", "deleted"}
  BY <1>1
<1>4. \A i \in Items : items'[i].invoice = I <=> i \in invoices'[I].items
  BY <1>1
<1>5. QED
  BY <1>1, <1>2, <1>3, <1>4, MembershipMoved, Zenon

\* addInvoiceItems's transaction changes the tables in an orderly way:
\* versions grow, and the content under a version stays.
LEMMA AddInvoiceItemsWriteOrderly ==
  ASSUME Typed, MembershipAgrees, NEW r \in Requests, AddInvoiceItemsWrite(r)
  PROVE  Orderly /\ LedgerKept
<1> DEFINE ids == requests[r].ids
           I == requests[r].invoice
<1>1. CASE UNCHANGED <<items, itemSeen, invoices>>
  BY <1>1, NothingWritten
<1>2. CASE DraftAt(I, requests[r].version) /\ Attachable(ids, requests[r].project)
  <2>1. /\ invoices' = [invoices EXCEPT ![I].items = @ \cup ids, ![I].version = @ + 1]
        /\ items' = Reassigned(ids, I)
    BY <1>2 DEF AddInvoiceItemsWrite, WriteItems
  <2>2. I \in Invoices /\ ids \in SUBSET Items
    BY RequestRefers DEF AddInvoiceItemsWrite, DraftSteps
  <2>3. invoices[I].status = "draft" /\ \A i \in ids : items[i].invoice = None
    BY <1>2 DEF DraftAt, Attachable
  <2>4. \A i \in Items : /\ items'[i].content = items[i].content
                         /\ items'[i].invoice = IF i \in ids THEN I ELSE items[i].invoice
    BY <2>1, <2>2, ReassignedRows
  <2>5. \A i \in Items : items'[i].invoice = I <=> i \in invoices[I].items \cup ids
    BY <2>2, <2>4, SMT DEF MembershipAgrees
  <2>6. \A i \in Items : \/ items'[i].invoice = items[i].invoice
                         \/ items'[i].invoice \in {I, None} /\ items[i].invoice \in {I, None}
    BY <2>3, <2>4
  <2>7. InvoicesTyped'
    BY AddInvoiceItemsWriteTyped DEF Typed
  <2> DEFINE new == invoices[I].items \cup ids
  <2>8. /\ invoices' = [invoices EXCEPT ![I].items = new, ![I].version = @ + 1]
        /\ \A i \in Items : items'[i].invoice = I <=> i \in new
    BY <2>1, <2>5
  <2> HIDE DEF new
  <2>9. \A i \in Items : items'[i].content = items[i].content
    BY <2>4
  <2>10. QED
    BY <2>2, <2>3, <2>6, <2>7, <2>8, <2>9, DraftRevisedOrderly, Zenon
<1>3. QED
  BY <1>1, <1>2 DEF AddInvoiceItemsWrite

\* removeInvoiceItems's transaction changes the tables in an orderly way:
\* versions grow, and the content under a version stays.
LEMMA RemoveInvoiceItemsWriteOrderly ==
  ASSUME Typed, MembershipAgrees, NEW r \in Requests, RemoveInvoiceItemsWrite(r)
  PROVE  Orderly /\ LedgerKept
<1> DEFINE ids == requests[r].ids
           I == requests[r].invoice
<1>1. CASE UNCHANGED <<items, itemSeen, invoices>>
  BY <1>1, NothingWritten
<1>2. CASE DraftAt(I, requests[r].version) /\ OnInvoice(ids, I)
  <2>1. /\ invoices' = [invoices EXCEPT ![I].items = @ \ ids, ![I].version = @ + 1]
        /\ items' = Reassigned(ids, None)
    BY <1>2 DEF RemoveInvoiceItemsWrite, WriteItems
  <2>2. I \in Invoices /\ ids \in SUBSET Items
    BY RequestRefers DEF RemoveInvoiceItemsWrite, DraftSteps
  <2>3. invoices[I].status = "draft" /\ \A i \in ids : items[i].invoice = I
    BY <1>2 DEF DraftAt, OnInvoice
  <2>4. \A i \in Items : /\ items'[i].content = items[i].content
                         /\ items'[i].invoice = IF i \in ids THEN None ELSE items[i].invoice
    BY <2>1, <2>2, ReassignedRows
  <2>5. \A i \in Items : items'[i].invoice = I <=> i \in invoices[I].items \ ids
    BY <2>2, <2>4, NoneIsNoInvoice, SMT DEF MembershipAgrees
  <2>6. \A i \in Items : \/ items'[i].invoice = items[i].invoice
                         \/ items'[i].invoice \in {I, None} /\ items[i].invoice \in {I, None}
    BY <2>3, <2>4
  <2>7. InvoicesTyped'
    BY RemoveInvoiceItemsWriteTyped DEF Typed
  <2> DEFINE new == invoices[I].items \ ids
  <2>8. /\ invoices' = [invoices EXCEPT ![I].items = new, ![I].version = @ + 1]
        /\ \A i \in Items : items'[i].invoice = I <=> i \in new
    BY <2>1, <2>5
  <2> HIDE DEF new
  <2>9. \A i \in Items : items'[i].content = items[i].content
    BY <2>4
  <2>10. QED
    BY <2>2, <2>3, <2>6, <2>7, <2>8, <2>9, DraftRevisedOrderly, Zenon
<1>3. QED
  BY <1>1, <1>2 DEF RemoveInvoiceItemsWrite

\* deleteInvoice's transaction changes the tables in an orderly way:
\* versions grow, and the content under a version stays.
LEMMA DeleteInvoiceWriteOrderly ==
  ASSUME Typed, MembershipAgrees, ReadsHold, NEW r \in Requests, DeleteInvoiceWrite(r)
  PROVE  Orderly /\ LedgerKept
<1> DEFINE q == requests[r]
           I == q.invoice
           gone == [NoInvoice EXCEPT !.status = "deleted"]
<1>1. CASE UNCHANGED <<items, itemSeen, invoices>>
  BY <1>1, NothingWritten
<1>2. CASE DraftAt(I, q.version) /\ OnInvoice(q.held, I)
  <2>1. /\ invoices' = [invoices EXCEPT ![I] = gone]
        /\ items' = Reassigned(q.held, None)
    BY <1>2 DEF DeleteInvoiceWrite, WriteItems
  <2>2. I \in Invoices /\ q.held \in SUBSET Items
    BY RequestRefers DEF DeleteInvoiceWrite, DraftSteps
  <2>3. invoices[I].status = "draft" /\ q.held = invoices[I].items
    BY <1>2 DEF DeleteInvoiceWrite, DraftAt, ReadsHold, ReadHolds, DraftSteps
  <2>4. gone.status = "deleted" /\ gone.items = {}
    BY DEF NoInvoice
  <2> HIDE DEF gone
  <2>5. /\ \A J \in Invoices : J # I => invoices'[J] = invoices[J]
        /\ invoices'[I] = gone
    BY <2>1, <2>2, SMT DEF Typed, InvoicesTyped
  <2>6. \A i \in Items : /\ items'[i].content = items[i].content
                         /\ items'[i].invoice = IF i \in q.held THEN None ELSE items[i].invoice
    BY <2>1, <2>2, ReassignedRows
  <2>7. \A i \in Items : items[i].invoice = I <=> i \in q.held
    BY <2>2, <2>3 DEF MembershipAgrees
  <2>8. \A i \in Items : \/ items'[i].invoice = items[i].invoice
                         \/ items'[i].invoice \in {I, None} /\ items[i].invoice \in {I, None}
    BY <2>6, <2>7
  <2>9. \A i \in Items : items'[i].invoice = I <=> i \in invoices'[I].items
    BY <2>2, <2>4, <2>5, <2>6, <2>7, NoneIsNoInvoice
  <2>10. InvoicesTyped' /\ ~Finalized(I)
    BY <2>3, DeleteInvoiceWriteTyped DEF Typed, Finalized
  <2>11. invoices'[I].status = "deleted" /\ \A i \in Items : items'[i].content = items[i].content
    BY <2>4, <2>5, <2>6
  <2>12. QED
    BY <2>2, <2>5, <2>8, <2>9, <2>10, <2>11, MembershipMoved, Zenon
<1>3. QED
  BY <1>1, <1>2 DEF DeleteInvoiceWrite

\* Writes to an invoice row that leave its items, and either leave its status
\* and version or take it out of draft.
LEMMA StatusWritten ==
  ASSUME Typed, InvoicesTyped', MembershipAgrees, NEW I \in Invoices,
         invoices[I].status \in {"draft", "finalized"}, invoices'[I].status = "finalized",
         invoices'[I].items = invoices[I].items,
         \A J \in Invoices : J # I => invoices'[J] = invoices[J],
         UNCHANGED items
  PROVE  Orderly
<1>1. \A J \in Invoices : invoices[J].version \in Nat /\ invoices[J].items \subseteq Items
  BY SMT DEF Typed, InvoicesTyped, Invoice
<1>2. VersionsGrow
  BY <1>1, SMT DEF VersionsGrow
<1>3. ContentsKept
  BY <1>1, SMT DEF ContentsKept, Finalized
<1>4. MembershipAgrees'
  BY SMT DEF MembershipAgrees
<1>5. QED
  BY <1>2, <1>3, <1>4 DEF Orderly

\* What the finalizing write leaves on the row.
LEMMA FinalizedRow ==
  ASSUME Typed, NEW r \in Requests, FinalizeInvoiceWrite(r),
         DraftAt(requests[r].invoice, requests[r].version)
  PROVE  LET q == requests[r] IN
         /\ q.invoice \in Invoices
         /\ invoices[q.invoice].status = "draft"
         /\ invoices'[q.invoice].status = "finalized"
         /\ invoices'[q.invoice].number = q.number
         /\ invoices'[q.invoice].snapshot = BuildSnapshot(q)
         /\ invoices'[q.invoice].items = invoices[q.invoice].items
         /\ \A J \in Invoices : J # q.invoice => invoices'[J] = invoices[J]
<1> DEFINE q == requests[r]
           I == q.invoice
           snap == BuildSnapshot(q)
<1>1. I \in Invoices
  BY RequestRefers DEF FinalizeInvoiceWrite, DraftSteps, FinalizeSteps
<1>2. invoices[I].status = "draft"
  BY DEF DraftAt
<1>3. invoices' = [invoices EXCEPT ![I].status = "finalized", ![I].number = q.number,
                                   ![I].snapshot = snap, ![I].version = @ + 1]
  BY DEF FinalizeInvoiceWrite
<1> HIDE DEF snap
<1>4. /\ invoices'[I].status = "finalized" /\ invoices'[I].number = q.number
      /\ invoices'[I].snapshot = snap /\ invoices'[I].items = invoices[I].items
      /\ \A J \in Invoices : J # I => invoices'[J] = invoices[J]
  BY <1>1, <1>3, SMTT(60) DEF Typed, InvoicesTyped, Invoice
<1>5. QED
  BY <1>1, <1>2, <1>4 DEF snap

\* finalizeInvoice's conditional write changes the tables in an orderly way:
\* versions grow, and the content under a version stays.
LEMMA FinalizeInvoiceWriteOrderly ==
  ASSUME Typed, MembershipAgrees, NEW r \in Requests, FinalizeInvoiceWrite(r)
  PROVE  Orderly /\ FinalizedKept
<1> DEFINE q == requests[r]
           I == q.invoice
<1>1. CASE ~DraftAt(I, q.version)
  BY <1>1, NothingWritten DEF FinalizeInvoiceWrite, LedgerKept
<1>2. CASE DraftAt(I, q.version)
  <2>1. Orderly
    <3>1. InvoicesTyped'
      BY FinalizeInvoiceWriteTyped DEF Typed
    <3>2. items' = items
      BY DEF FinalizeInvoiceWrite
    <3>3. QED
      BY <1>2, <3>1, <3>2, FinalizedRow, StatusWritten, Zenon
  <2>2. FinalizedKept
    BY <1>2, FinalizedRow, SMT DEF FinalizedKept, Finalized
  <2>3. QED
    BY <2>1, <2>2
<1>3. QED
  BY <1>1, <1>2

\* setInvoicePaid changes the tables in an orderly way:
\* versions grow, and the content under a version stays.
LEMMA SetInvoicePaidOrderly ==
  ASSUME Typed, MembershipAgrees, NEW I \in Invoices, NEW paid \in BOOLEAN,
         SetInvoicePaid(I, paid)
  PROVE  Orderly /\ LedgerKept
<1>1. /\ invoices[I].status = "finalized"
      /\ invoices' = [invoices EXCEPT ![I].paid = paid]
      /\ UNCHANGED items
  BY DEF SetInvoicePaid
<1>2. /\ invoices'[I].status = "finalized"
      /\ invoices'[I].items = invoices[I].items
      /\ invoices'[I].number = invoices[I].number
      /\ invoices'[I].snapshot = invoices[I].snapshot
      /\ \A J \in Invoices : J # I => invoices'[J] = invoices[J]
  BY <1>1, SMT DEF Typed, InvoicesTyped, Invoice
<1>3. InvoicesTyped'
  BY SetInvoicePaidTyped DEF Typed
<1>4. Orderly
  BY <1>1, <1>2, <1>3, StatusWritten
<1>5. LedgerKept
  BY <1>1, <1>2, SMT DEF LedgerKept, FinalizedKept, Finalized
<1>6. QED
  BY <1>4, <1>5

\* downloadInvoicePdf's set of the key changes the tables in an orderly way:
\* versions grow, and the content under a version stays.
LEMMA DownloadInvoicePdfSetKeyOrderly ==
  ASSUME Typed, MembershipAgrees, NEW r \in Requests, DownloadInvoicePdfSetKey(r)
  PROVE  Orderly /\ LedgerKept
<1> DEFINE I == requests[r].invoice
<1>1. UNCHANGED items
  BY DEF DownloadInvoicePdfSetKey
<1>2. CASE UNCHANGED invoices
  BY <1>1, <1>2, NothingWritten
<1>3. CASE /\ invoices[I].status = "finalized"
           /\ invoices' = [invoices EXCEPT ![I].pdf = TRUE]
  <2>1. I \in Invoices
    BY RequestRefers DEF DownloadInvoicePdfSetKey, PdfSteps
  <2>2. /\ invoices'[I].status = "finalized"
        /\ invoices'[I].items = invoices[I].items
        /\ invoices'[I].number = invoices[I].number
        /\ invoices'[I].snapshot = invoices[I].snapshot
        /\ \A J \in Invoices : J # I => invoices'[J] = invoices[J]
    BY <1>3, <2>1, SMT DEF Typed, InvoicesTyped, Invoice
  <2>3. InvoicesTyped'
    BY DownloadInvoicePdfSetKeyTyped DEF Typed
  <2>4. Orderly
    BY <1>1, <1>3, <2>1, <2>2, <2>3, StatusWritten
  <2>5. LedgerKept
    BY <1>3, <2>2, SMT DEF LedgerKept, FinalizedKept, Finalized
  <2>6. QED
    BY <2>4, <2>5
<1>4. QED
  BY <1>2, <1>3 DEF DownloadInvoicePdfSetKey

-----------------------------------------------------------------------------
(* Items, invoices and snapshots agree.                                    *)

Consistent == Typed /\ MembershipAgrees /\ ReadsHold /\ SnapshotMatchesItems

\* No resolver comes to hold a number that it did not hold.
NoneAllocated ==
    \A r \in Requests : requests'[r].step = "finalizeWrite" =>
        requests[r].step = "finalizeWrite" /\ requests'[r].number = requests[r].number

\* What a step has to show, next to the types.
Kept ==
    /\ MembershipAgrees' /\ ReadsHold' /\ SnapshotMatchesItems' /\ FinalizedKept
    /\ LedgerKept \/ \E r \in Requests : FinalizeInvoiceWrite(r)
    /\ NoneAllocated \/ \E r \in Requests : FinalizeInvoiceAllocate(r)

\* A resolver that holds what it held: what it read is still so, or its
\* version is out of date.
LEMMA ReadKept ==
  ASSUME Consistent, Typed', Orderly, NEW r \in Requests, requests'[r] = requests[r]
  PROVE  ReadHolds(requests[r])'
<1> DEFINE q == requests[r]
           I == q.invoice
<1>1. SUFFICES ASSUME q.step \in DraftSteps
               PROVE  /\ invoices'[I].status # "none"
                      /\ invoices'[I].status = "draft" => q.version <= invoices'[I].version
                      /\ invoices'[I].status = "draft" /\ invoices'[I].version = q.version =>
                            /\ q.held = invoices'[I].items
                            /\ q.step \in FinalizeSteps =>
                                  \A i \in DOMAIN q.lines : items'[i].content = q.lines[i]
  BY SMT DEF ReadHolds, DraftAt
<1>2. I \in Invoices /\ q.version \in Nat
  BY <1>1, RequestRefers DEF Consistent
<1>3. invoices[I].version \in Nat /\ invoices'[I].version \in Nat
  BY <1>2, SMT DEF Consistent, Typed, InvoicesTyped, Invoice
<1>4. /\ invoices[I].status # "none"
      /\ invoices[I].status = "draft" => q.version <= invoices[I].version
      /\ invoices[I].status = "draft" /\ invoices[I].version = q.version =>
            /\ q.held = invoices[I].items
            /\ q.step \in FinalizeSteps => \A i \in DOMAIN q.lines : items[i].content = q.lines[i]
  BY <1>1 DEF Consistent, ReadsHold, ReadHolds, DraftAt
<1>5. /\ invoices'[I].status # "none"
      /\ invoices'[I].status = "draft" =>
            invoices[I].status = "draft" /\ invoices[I].version <= invoices'[I].version
  BY <1>2, <1>4 DEF Orderly, VersionsGrow
<1>6. ASSUME invoices'[I].status = "draft", invoices'[I].version = q.version
      PROVE  /\ q.held = invoices'[I].items
             /\ q.step \in FinalizeSteps => \A i \in DOMAIN q.lines : items'[i].content = q.lines[i]
  <2>1. invoices[I].status = "draft" /\ invoices[I].version = q.version
    BY <1>2, <1>3, <1>4, <1>5, <1>6, SMT
  <2>2. /\ invoices'[I].items = invoices[I].items
        /\ \A i \in invoices[I].items : items'[i].content = items[i].content
    BY <1>2, <1>6, <2>1 DEF Orderly, ContentsKept
  <2>3. q.step \in FinalizeSteps => DOMAIN q.lines \subseteq q.held
    BY RequestRefers DEF Consistent, Ready
  <2>4. QED
    BY <1>4, <2>1, <2>2, <2>3
<1>7. QED
  BY <1>2, <1>3, <1>4, <1>5, <1>6, SMT

\* A resolver that has returned holds nothing.
LEMMA NothingRead ==
  ASSUME NEW r \in Requests, requests'[r].step \notin DraftSteps
  PROVE  ReadHolds(requests[r])'
BY DEF ReadHolds

\* What finalized invoices froze stays as it is on the rows.
LEMMA SnapshotsKept ==
  ASSUME Consistent, Orderly, LedgerKept
  PROVE  SnapshotMatchesItems'
<1> SUFFICES ASSUME NEW I \in Invoices, Finalized(I)'
             PROVE  /\ DOMAIN invoices'[I].snapshot.lines = invoices'[I].items
                    /\ \A i \in invoices'[I].items :
                          invoices'[I].snapshot.lines[i] = items'[i].content
  BY DEF SnapshotMatchesItems
<1>1. Finalized(I)
  BY DEF LedgerKept
<1>2. /\ DOMAIN invoices[I].snapshot.lines = invoices[I].items
      /\ \A i \in invoices[I].items : invoices[I].snapshot.lines[i] = items[i].content
  BY <1>1 DEF Consistent, SnapshotMatchesItems
<1>3. /\ invoices'[I].items = invoices[I].items
      /\ \A i \in invoices[I].items : items'[i].content = items[i].content
  BY <1>1 DEF Orderly, ContentsKept
<1>4. invoices'[I].snapshot = invoices[I].snapshot
  BY <1>1 DEF LedgerKept, FinalizedKept
<1>5. QED
  BY <1>2, <1>3, <1>4

\* The reads of every other resolver, and of the one that has just returned.
LEMMA ReadsKept ==
  ASSUME Consistent, Typed', Orderly, NEW r \in Requests, NEW q,
         Continue(r, q), ReadHolds(requests[r])'
  PROVE  ReadsHold'
<1> SUFFICES ASSUME NEW t \in Requests PROVE ReadHolds(requests[t])'
  BY DEF ReadsHold
<1>1. CASE t = r
  BY <1>1
<1>2. CASE t # r
  <2>1. requests'[t] = requests[t]
    BY <1>2, SMT DEF Continue, Consistent, Typed, RequestsTyped, CallsTyped
  <2>2. QED
    BY <2>1, ReadKept
<1>3. QED
  BY <1>1, <1>2

\* A write with which its resolver returns.
LEMMA WriteKeeps ==
  ASSUME Consistent, Typed', Orderly, LedgerKept, NEW r \in Requests, Return(r)
  PROVE  Kept
<1>1. requests'[r] = Idle
  BY SMT DEF Return, Continue, Consistent, Typed, RequestsTyped, CallsTyped
<1>2. requests'[r].step \notin DraftSteps
  BY <1>1 DEF Idle, DraftSteps, FinalizeSteps
<1>3. ReadsHold'
  BY <1>2, NothingRead, ReadsKept DEF Return
<1>4. NoneAllocated
  BY SMT DEF Return, Continue, Idle, NoneAllocated, Consistent, Typed, RequestsTyped, CallsTyped
<1>5. QED
  BY <1>3, <1>4, SnapshotsKept DEF Kept, Orderly, LedgerKept

\* A step that leaves items and invoices, after which r holds what holds.
LEMMA ReadKeeps ==
  ASSUME Consistent, Typed', UNCHANGED <<items, invoices>>, NEW r \in Requests, NEW q,
         requests' = [requests EXCEPT ![r] = q],
         ReadHolds(requests[r])',
         q.step # "finalizeWrite" \/ FinalizeInvoiceAllocate(r)
  PROVE  Kept
<1>1. Orderly /\ LedgerKept
  BY NothingWritten DEF Consistent
<1>2. ASSUME NEW t \in Requests PROVE ReadHolds(requests[t])'
  <2>1. CASE t = r
    BY <2>1
  <2>2. CASE t # r
    <3>1. requests'[t] = requests[t]
      BY <2>2, SMT DEF Consistent, Typed, RequestsTyped, CallsTyped
    <3>2. QED
      BY <1>1, <3>1, ReadKept
  <2>3. QED
    BY <2>1, <2>2
<1>3. ReadsHold'
  BY <1>2 DEF ReadsHold
<1>4. NoneAllocated \/ FinalizeInvoiceAllocate(r)
  BY SMT DEF NoneAllocated, Consistent, Typed, RequestsTyped, CallsTyped
<1>5. QED
  BY <1>1, <1>3, <1>4, SnapshotsKept DEF Kept, Orderly, LedgerKept

\* A step that leaves the requests, the items and the invoices' contents.
LEMMA RequestsUnchangedKeeps ==
  ASSUME Consistent, Typed', Orderly, LedgerKept, UNCHANGED requests
  PROVE  Kept
<1>1. ASSUME NEW r \in Requests PROVE ReadHolds(requests[r])'
  BY ReadKept
<1>2. ReadsHold'
  BY <1>1 DEF ReadsHold
<1>3. NoneAllocated
  BY DEF NoneAllocated
<1>4. QED
  BY <1>2, <1>3, SnapshotsKept DEF Kept, Orderly, LedgerKept

\* A read after which the resolver is not about to change a draft.
LEMMA OtherReadKeeps ==
  ASSUME Consistent, Typed', UNCHANGED <<items, invoices>>, NEW r \in Requests, NEW q,
         requests' = [requests EXCEPT ![r] = q], q.step \notin DraftSteps
  PROVE  Kept
<1>1. requests'[r] = q
  BY SMT DEF Consistent, Typed, RequestsTyped, CallsTyped
<1>2. q.step # "finalizeWrite"
  BY DEF DraftSteps, FinalizeSteps
<1>3. QED
  BY <1>1, <1>2, NothingRead, ReadKeeps, Zenon

\* The read of a draft that every mutation of one starts with leaves a request whose
\* reads hold while the draft keeps its version.
LEMMA ReadDraftKeeps ==
  ASSUME Consistent, Typed', NEW r \in Requests, NEW I \in Invoices, NEW ids \in SUBSET Items,
         NEW op, NEW step, step # "finalizeWrite", ReadDraft(r, op, I, ids, step)
  PROVE  Kept
<1> DEFINE q == DraftRead(I, ids, step)
<1>1. /\ requests' = [requests EXCEPT ![r] = q]
      /\ UNCHANGED <<items, invoices>>
      /\ invoices[I].status = "draft"
  BY DEF ReadDraft, Begin, DraftRead, tables
<1>2. requests'[r] = q
  BY <1>1, SMT DEF Consistent, Typed, RequestsTyped, CallsTyped
<1>3. /\ q.invoice = I /\ q.version = invoices[I].version /\ q.held = invoices[I].items
      /\ q.lines = NoLines /\ q.step = step
  BY SMT DEF Idle, DraftRead
<1>4. DOMAIN q.lines = {}
  BY <1>3, SMT DEF NoLines
<1> HIDE DEF q
<1>5. invoices[I].version \in Nat
  BY SMT DEF Consistent, Typed, InvoicesTyped, Invoice
<1>6. ReadHolds(requests[r])'
  BY <1>1, <1>2, <1>3, <1>4, <1>5, SMT DEF ReadHolds, DraftAt
<1>7. QED
  BY <1>1, <1>3, <1>6, ReadKeeps

\* addInvoiceItems's check of items and total leaves a request whose
\* reads hold while the draft keeps its version.
LEMMA AddInvoiceItemsCheckKeeps ==
  ASSUME Consistent, Typed', NEW r \in Requests, AddInvoiceItemsCheck(r)
  PROVE  Kept
<1> DEFINE q == requests[r]
           q1 == [q EXCEPT !.step = "addItemsWrite"]
<1>1. /\ requests' = [requests EXCEPT ![r] = q1]
      /\ UNCHANGED <<items, invoices>>
      /\ q.step = "addItemsCheck"
  BY DEF AddInvoiceItemsCheck, Continue, tables
<1>2. q \in Request /\ requests'[r] = q1
  BY <1>1, SMT DEF Consistent, Typed, RequestsTyped, CallsTyped
<1>3. /\ q1.step = "addItemsWrite" /\ q1.invoice = q.invoice
      /\ q1.version = q.version /\ q1.held = q.held
  BY <1>2, SMT DEF Request
<1> HIDE DEF q1
<1>4. ReadHolds(q)
  BY DEF Consistent, ReadsHold
<1>5. ReadHolds(requests[r])'
  BY <1>1, <1>2, <1>3, <1>4, SMT DEF ReadHolds, DraftAt, DraftSteps, FinalizeSteps
<1>6. QED
  BY <1>1, <1>3, <1>5, ReadKeeps

\* finalizeInvoice's read of one item leaves a request whose
\* reads hold while the draft keeps its version.
LEMMA FinalizeInvoiceReadItemKeeps ==
  ASSUME Consistent, Typed', NEW r \in Requests, NEW i \in Items, FinalizeInvoiceReadItem(r, i)
  PROVE  Kept
<1> DEFINE q == requests[r]
           lines == [j \in DOMAIN q.lines \cup {i} |-> IF j = i THEN items[i].content
                                                               ELSE q.lines[j]]
           q1 == [q EXCEPT !.lines = lines]
<1>1. /\ requests' = [requests EXCEPT ![r] = q1]
      /\ UNCHANGED <<items, invoices>>
      /\ q.step = "finalizeReadItems"
  BY DEF FinalizeInvoiceReadItem, Continue, tables
<1>2. /\ DOMAIN lines = DOMAIN q.lines \cup {i}
      /\ lines[i] = items[i].content
      /\ \A j \in DOMAIN q.lines : lines[j] = IF j = i THEN items[i].content ELSE q.lines[j]
  OBVIOUS
<1> HIDE DEF lines
<1>3. q \in Request /\ requests'[r] = q1
  BY <1>1, SMT DEF Consistent, Typed, RequestsTyped, CallsTyped
<1>4. /\ q1.step = q.step /\ q1.invoice = q.invoice /\ q1.lines = lines
      /\ q1.version = q.version /\ q1.held = q.held
  BY <1>3, SMT DEF Request
<1> HIDE DEF q1
<1>5. ReadHolds(q)
  BY DEF Consistent, ReadsHold
<1>6. ReadHolds(requests[r])'
  BY <1>1, <1>2, <1>3, <1>4, <1>5, SMT DEF ReadHolds, DraftAt, DraftSteps, FinalizeSteps
<1>7. QED
  BY <1>1, <1>4, <1>6, ReadKeeps

\* finalizeInvoice's read of project and instance leaves a request whose
\* reads hold while the draft keeps its version.
LEMMA FinalizeInvoiceReadDetailsKeeps ==
  ASSUME Consistent, Typed', NEW r \in Requests, FinalizeInvoiceReadDetails(r)
  PROVE  Kept
<1> DEFINE q == requests[r]
           q1(row, s) == [q EXCEPT !.step = "finalizeAllocate",
                                   !.client = row.client, !.settings = s]
<1>1. PICK row \in projectSeen[q.project], s \in settingsSeen :
         requests' = [requests EXCEPT ![r] = q1(row, s)]
  BY DEF FinalizeInvoiceReadDetails, Continue
<1>2. UNCHANGED <<items, invoices>> /\ q.step = "finalizeReadItems"
  BY DEF FinalizeInvoiceReadDetails, tables
<1>3. q \in Request /\ requests'[r] = q1(row, s)
  BY <1>1, SMT DEF Consistent, Typed, RequestsTyped, CallsTyped
<1>4. /\ q1(row, s).step = "finalizeAllocate" /\ q1(row, s).invoice = q.invoice
      /\ q1(row, s).lines = q.lines /\ q1(row, s).version = q.version
      /\ q1(row, s).held = q.held
  BY <1>3, SMT DEF Request
<1> HIDE DEF q1
<1>5. ReadHolds(q)
  BY DEF Consistent, ReadsHold
<1>6. ReadHolds(requests[r])'
  BY <1>2, <1>3, <1>4, <1>5, SMT DEF ReadHolds, DraftAt, DraftSteps, FinalizeSteps
<1>7. QED
  BY <1>1, <1>2, <1>4, <1>6, ReadKeeps

\* finalizeInvoice's taking of a number leaves a request whose
\* reads hold while the draft keeps its version.
LEMMA FinalizeInvoiceAllocateKeeps ==
  ASSUME Consistent, Typed', NEW r \in Requests, FinalizeInvoiceAllocate(r)
  PROVE  Kept
<1> DEFINE q == requests[r]
           q1 == [q EXCEPT !.step = "finalizeWrite", !.number = AsNumber(counter + 1)]
<1>1. UNCHANGED <<items, invoices>> /\ q.step = "finalizeAllocate"
  BY DEF FinalizeInvoiceAllocate
<1>2. CASE Return(r)
  <2>1. Idle.step \notin DraftSteps
    BY DEF Idle, DraftSteps, FinalizeSteps
  <2>2. QED
    BY <1>1, <1>2, <2>1, OtherReadKeeps, Zenon DEF Return, Continue
<1>3. CASE Continue(r, q1)
  <2>1. requests' = [requests EXCEPT ![r] = q1]
    BY <1>3 DEF Continue
  <2>2. q \in Request /\ requests'[r] = q1
    BY <2>1, SMT DEF Consistent, Typed, RequestsTyped, CallsTyped
  <2>3. /\ q1.step = "finalizeWrite" /\ q1.invoice = q.invoice /\ q1.lines = q.lines
        /\ q1.version = q.version /\ q1.held = q.held
    BY <2>2, SMT DEF Request
  <2> HIDE DEF q1
  <2>4. ReadHolds(q)
    BY DEF Consistent, ReadsHold
  <2>5. ReadHolds(requests[r])'
    BY <1>1, <2>2, <2>3, <2>4, SMT DEF ReadHolds, DraftAt, DraftSteps, FinalizeSteps
  <2>6. QED
    BY <1>1, <2>1, <2>5, ReadKeeps
<1>4. QED
  BY <1>2, <1>3 DEF FinalizeInvoiceAllocate

\* The finalizing write freezes the items as they are.
LEMMA FinalizeInvoiceWriteKeeps ==
  ASSUME Consistent, Typed', NEW r \in Requests, FinalizeInvoiceWrite(r)
  PROVE  Kept
<1> DEFINE q == requests[r]
           I == q.invoice
<1>1. CASE ~DraftAt(I, q.version)
  <2>1. UNCHANGED <<items, invoices>> /\ Return(r)
    BY <1>1 DEF FinalizeInvoiceWrite
  <2>2. QED
    BY <2>1, NothingWritten, WriteKeeps DEF Consistent
<1>2. CASE DraftAt(I, q.version)
  <2>1. Orderly /\ FinalizedKept
    BY FinalizeInvoiceWriteOrderly DEF Consistent
  <2>2. /\ I \in Invoices
        /\ invoices'[I].snapshot = BuildSnapshot(q)
        /\ invoices'[I].items = invoices[I].items
        /\ \A J \in Invoices : J # I => invoices'[J] = invoices[J]
    BY <1>2, FinalizedRow DEF Consistent
  <2>3. items' = items /\ Return(r) /\ q.step = "finalizeWrite"
    BY DEF FinalizeInvoiceWrite
  <2>4. BuildSnapshot(q).lines = q.lines
    BY DEF BuildSnapshot
  <2>5. DOMAIN q.lines = q.held
    BY <2>3, RequestRefers DEF Consistent, Ready
  <2>6. q.held = invoices[I].items /\ \A i \in DOMAIN q.lines : items[i].content = q.lines[i]
    BY <1>2, <2>3 DEF Consistent, ReadsHold, ReadHolds, DraftSteps, FinalizeSteps
  <2>7. SnapshotMatchesItems'
    <3> SUFFICES ASSUME NEW J \in Invoices, Finalized(J)'
                 PROVE  /\ DOMAIN invoices'[J].snapshot.lines = invoices'[J].items
                        /\ \A i \in invoices'[J].items :
                              invoices'[J].snapshot.lines[i] = items'[i].content
      BY DEF SnapshotMatchesItems
    <3>1. CASE J = I
      BY <2>2, <2>3, <2>4, <2>5, <2>6, <3>1
    <3>2. CASE J # I
      <4>1. Finalized(J) /\ invoices'[J] = invoices[J]
        BY <2>2, <3>2 DEF Finalized
      <4>2. QED
        BY <2>3, <4>1 DEF Consistent, SnapshotMatchesItems
    <3>3. QED
      BY <3>1, <3>2
  <2>8. requests'[r] = Idle
    BY <2>3, SMT DEF Return, Continue, Consistent, Typed, RequestsTyped, CallsTyped
  <2>9. ReadsHold'
    <3>1. requests'[r].step \notin DraftSteps
      BY <2>8 DEF Idle, DraftSteps, FinalizeSteps
    <3>2. QED
      BY <2>1, <2>3, <3>1, NothingRead, ReadsKept DEF Return
  <2>10. NoneAllocated
    BY <2>3, SMT DEF Return, Continue, Idle, NoneAllocated, Consistent, Typed, RequestsTyped,
                     CallsTyped
  <2>11. QED
    BY <2>1, <2>7, <2>9, <2>10 DEF Kept, Orderly
<1>3. QED
  BY <1>1, <1>2

\* Every resolver's first read keeps what the other resolvers have read.
LEMMA CallsKeep ==
  ASSUME Consistent, Typed', NEW r \in Requests, ItemCall(r) \/ InvoiceCall(r)
  PROVE  Kept
<1>1. ASSUME NEW p \in Projects, NEW c \in Amounts, CreateBillableItemCheck(r, p, c) PROVE Kept
  <2> DEFINE q == [Idle EXCEPT !.step = "createItemPut", !.project = p, !.content = c]
  <2>1. q.step \notin DraftSteps
    BY SMT DEF Idle, DraftSteps, FinalizeSteps
  <2>2. requests' = [requests EXCEPT ![r] = q] /\ UNCHANGED <<items, invoices>>
    BY <1>1 DEF CreateBillableItemCheck, Begin, tables
  <2>3. QED
    BY <2>1, <2>2, OtherReadKeeps, Zenon
<1>2. ASSUME NEW i \in Items, NEW c \in Amounts, UpdateBillableItemRead(r, i, c) PROVE Kept
  <2> DEFINE q(row) == [Idle EXCEPT !.step = IF row.invoice = None
                                             THEN "updateItemWrite"
                                             ELSE "updateItemReadInvoice",
                                    !.ids = {i}, !.content = c, !.invoice = row.invoice]
  <2>1. PICK row \in itemSeen[i] : requests' = [requests EXCEPT ![r] = q(row)]
    BY <1>2 DEF UpdateBillableItemRead, Begin
  <2>2. q(row).step \notin DraftSteps
    BY SMT DEF Idle, DraftSteps, FinalizeSteps
  <2>3. UNCHANGED <<items, invoices>>
    BY <1>2 DEF UpdateBillableItemRead, tables
  <2>4. QED
    BY <2>1, <2>2, <2>3, OtherReadKeeps, Zenon
<1>3. ASSUME NEW i \in Items, DeleteBillableItemRead(r, i) PROVE Kept
  <2> DEFINE q == [Idle EXCEPT !.step = "deleteItemWrite", !.ids = {i}]
  <2>1. q.step \notin DraftSteps
    BY SMT DEF Idle, DraftSteps, FinalizeSteps
  <2>2. requests' = [requests EXCEPT ![r] = q] /\ UNCHANGED <<items, invoices>>
    BY <1>3 DEF DeleteBillableItemRead, Begin, tables
  <2>3. QED
    BY <2>1, <2>2, OtherReadKeeps, Zenon
<1>4. ASSUME NEW p \in Projects, NEW ids \in SUBSET Items, CreateInvoiceCheck(r, p, ids)
      PROVE  Kept
  <2> DEFINE q == [Idle EXCEPT !.step = "createInvoiceWrite", !.project = p, !.ids = ids]
  <2>1. q.step \notin DraftSteps
    BY SMT DEF Idle, DraftSteps, FinalizeSteps
  <2>2. requests' = [requests EXCEPT ![r] = q] /\ UNCHANGED <<items, invoices>>
    BY <1>4 DEF CreateInvoiceCheck, Begin, tables
  <2>3. QED
    BY <2>1, <2>2, OtherReadKeeps, Zenon
<1>5. ASSUME NEW I \in Invoices, DownloadInvoicePdfRead(r, I) PROVE Kept
  <2> DEFINE q == [Idle EXCEPT !.step = "pdfPut", !.invoice = I,
                               !.lines = invoices[I].snapshot.lines,
                               !.client = invoices[I].snapshot.client,
                               !.settings = invoices[I].snapshot.settings,
                               !.number = invoices[I].snapshot.number]
  <2>1. q.step \notin DraftSteps
    BY SMT DEF Idle, DraftSteps, FinalizeSteps
  <2>2. requests' = [requests EXCEPT ![r] = q] /\ UNCHANGED <<items, invoices>>
    BY <1>5 DEF DownloadInvoicePdfRead, Begin, tables
  <2>3. QED
    BY <2>1, <2>2, OtherReadKeeps, Zenon
<1>6. ASSUME NEW I \in Invoices, NEW ids \in SUBSET Items,
             AddInvoiceItemsRead(r, I, ids) \/ RemoveInvoiceItemsRead(r, I, ids)
      PROVE  Kept
  BY <1>6, ReadDraftKeeps DEF AddInvoiceItemsRead, RemoveInvoiceItemsRead
<1>7. ASSUME NEW I \in Invoices, DeleteInvoiceRead(r, I) \/ FinalizeInvoiceRead(r, I) PROVE Kept
  <2>1. {} \in SUBSET Items
    OBVIOUS
  <2>2. QED
    BY <1>7, <2>1, ReadDraftKeeps DEF DeleteInvoiceRead, FinalizeInvoiceRead
<1>8. QED
  BY <1>1, <1>2, <1>3, <1>4, <1>5, <1>6, <1>7 DEF ItemCall, InvoiceCall

\* Moving on to a step that does not change a draft.
LEMMA NextStepKeeps ==
  ASSUME Consistent, Typed', UNCHANGED <<items, invoices>>, NEW r \in Requests,
         NEW step, step \notin DraftSteps,
         Continue(r, [requests[r] EXCEPT !.step = step])
  PROVE  Kept
<1> DEFINE q == [requests[r] EXCEPT !.step = step]
<1>1. q.step \notin DraftSteps
  BY SMT DEF Consistent, Typed, RequestsTyped, CallsTyped, Request
<1>2. requests' = [requests EXCEPT ![r] = q]
  BY DEF Continue
<1>3. QED
  BY <1>1, <1>2, OtherReadKeeps, Zenon

\* Every later storage call of a resolver.
LEMMA StepsKeep ==
  ASSUME Consistent, Typed', NEW r \in Requests,
         ItemStep(r) \/ DraftStep(r) \/ FinalizeStep(r) \/ PdfStep(r) \/ Stop(r)
  PROVE  Kept
<1>1. CASE ItemStep(r)
  <2>1. CASE UpdateBillableItemReadInvoice(r)
    <3>1. "updateItemWrite" \notin DraftSteps
      BY DEF DraftSteps, FinalizeSteps
    <3>2. QED
      BY <2>1, <3>1, NextStepKeeps DEF UpdateBillableItemReadInvoice, tables
  <2>2. CASE CreateBillableItemPut(r)
    BY <2>2, CreateBillableItemPutOrderly, WriteKeeps DEF CreateBillableItemPut, Consistent
  <2>3. CASE UpdateBillableItemWrite(r)
    BY <2>3, UpdateBillableItemWriteOrderly, WriteKeeps DEF UpdateBillableItemWrite, Consistent
  <2>4. CASE DeleteBillableItemWrite(r)
    BY <2>4, DeleteBillableItemWriteOrderly, WriteKeeps DEF DeleteBillableItemWrite, Consistent
  <2>5. QED
    BY <1>1, <2>1, <2>2, <2>3, <2>4 DEF ItemStep
<1>2. CASE DraftStep(r)
  <2>1. CASE CreateInvoiceWrite(r)
    BY <2>1, CreateInvoiceWriteOrderly, WriteKeeps DEF CreateInvoiceWrite, Consistent
  <2>2. CASE AddInvoiceItemsWrite(r)
    BY <2>2, AddInvoiceItemsWriteOrderly, WriteKeeps DEF AddInvoiceItemsWrite, Consistent
  <2>3. CASE RemoveInvoiceItemsWrite(r)
    BY <2>3, RemoveInvoiceItemsWriteOrderly, WriteKeeps DEF RemoveInvoiceItemsWrite, Consistent
  <2>4. CASE DeleteInvoiceWrite(r)
    BY <2>4, DeleteInvoiceWriteOrderly, WriteKeeps DEF DeleteInvoiceWrite, Consistent
  <2>5. QED
    BY <1>2, <2>1, <2>2, <2>3, <2>4, AddInvoiceItemsCheckKeeps DEF DraftStep
<1>3. CASE FinalizeStep(r)
  <2>1. CASE FinalizeInvoiceAllocateLost(r)
    <3>1. UNCHANGED <<items, invoices>> /\ UNCHANGED requests
      BY <2>1 DEF FinalizeInvoiceAllocateLost
    <3>2. QED
      BY <3>1, NothingWritten, RequestsUnchangedKeeps DEF Consistent
  <2>2. QED
    BY <1>3, <2>1, FinalizeInvoiceReadItemKeeps, FinalizeInvoiceReadDetailsKeeps,
       FinalizeInvoiceAllocateKeeps, FinalizeInvoiceWriteKeeps DEF FinalizeStep
<1>4. CASE PdfStep(r)
  <2>1. CASE DownloadInvoicePdfPut(r)
    <3>1. "pdfSetKey" \notin DraftSteps
      BY DEF DraftSteps, FinalizeSteps
    <3>2. QED
      BY <2>1, <3>1, NextStepKeeps DEF DownloadInvoicePdfPut
  <2>2. CASE DownloadInvoicePdfSetKey(r)
    BY <2>2, DownloadInvoicePdfSetKeyOrderly, WriteKeeps DEF DownloadInvoicePdfSetKey, Consistent
  <2>3. QED
    BY <1>4, <2>1, <2>2 DEF PdfStep
<1>5. CASE Stop(r)
  BY <1>5, NothingWritten, WriteKeeps DEF Stop, tables, Consistent
<1>6. QED
  BY <1>1, <1>2, <1>3, <1>4, <1>5

\* The mutations that are a single write.
LEMMA OneWriteKeeps ==
  ASSUME Consistent, Typed', OneWrite
  PROVE  Kept
<1>1. UNCHANGED requests
  BY DEF OneWrite, CreateProject, UpdateProject, UpdateInvoicingSettings, SetNextInvoiceNumber,
         SetInvoicePaid
<1>2. ASSUME NEW I \in Invoices, NEW paid \in BOOLEAN, SetInvoicePaid(I, paid) PROVE Kept
  BY <1>1, <1>2, SetInvoicePaidOrderly, RequestsUnchangedKeeps DEF Consistent
<1>3. CASE UNCHANGED <<items, invoices>>
  BY <1>1, <1>3, NothingWritten, RequestsUnchangedKeeps DEF Consistent
<1>4. QED
  BY <1>2, <1>3
     DEF OneWrite, CreateProject, UpdateProject, UpdateInvoicingSettings, SetNextInvoiceNumber

\* Every step keeps the tables consistent and the finalized invoices.
LEMMA ConsistentStep ==
  ASSUME Consistent, [Next]_vars
  PROVE  Consistent' /\ Kept
<1>1. Typed'
  BY NextTyped DEF Consistent
<1>2. CASE UNCHANGED vars
  <2>1. UNCHANGED <<items, invoices>> /\ UNCHANGED requests
    BY <1>2 DEF vars
  <2>2. Kept
    BY <1>1, <2>1, NothingWritten, RequestsUnchangedKeeps DEF Consistent
  <2>3. QED
    BY <1>1, <2>2 DEF Consistent, Kept
<1>3. CASE Next
  <2>1. Kept
    BY <1>1, <1>3, OneWriteKeeps, CallsKeep, StepsKeep DEF Next
  <2>2. QED
    BY <1>1, <2>1 DEF Consistent, Kept
<1>4. QED
  BY <1>2, <1>3

\* Before the first call no invoice exists and no request is in flight.
LEMMA InitConsistent == Init => Consistent
<1> SUFFICES ASSUME Init PROVE Consistent
  OBVIOUS
<1>1. Typed
  BY InitTyped
<1>2. \A i \in Items : items[i].invoice = None
  BY SMT DEF Init, NoItem
<1>3. \A I \in Invoices : invoices[I].items = {} /\ invoices[I].status = "none"
  BY SMT DEF Init, NoInvoice
<1>4. MembershipAgrees
  BY <1>2, <1>3, NoneIsNoInvoice, SMT DEF MembershipAgrees
<1>5. SnapshotMatchesItems
  BY <1>3, SMT DEF SnapshotMatchesItems, Finalized
<1>6. ReadsHold
  BY SMT DEF Init, ReadsHold, ReadHolds, Idle, DraftSteps, FinalizeSteps
<1>7. QED
  BY <1>1, <1>4, <1>5, <1>6 DEF Consistent

\* However the resolvers interleave, the tables and the requests stay
\* consistent.
LEMMA AlwaysConsistent == Spec => []Consistent
<1>1. Consistent /\ [Next]_vars => Consistent'
  BY ConsistentStep
<1>2. QED
  BY <1>1, InitConsistent, PTL DEF Spec

\* An item is on an invoice exactly when the invoice lists it, however the
\* attaching, detaching and deleting transactions of dynamodb.rs interleave.
THEOREM MembershipHolds == Spec => []MembershipAgrees
<1>1. Consistent => MembershipAgrees
  BY DEF Consistent
<1>2. QED
  BY <1>1, AlwaysConsistent, PTL

\* A finalized invoice froze its items as they are, although finalizeInvoice
\* reads them one by one before its conditional write.
THEOREM SnapshotsMatch == Spec => []SnapshotMatchesItems
<1>1. Consistent => SnapshotMatchesItems
  BY DEF Consistent
<1>2. QED
  BY <1>1, AlwaysConsistent, PTL

\* No billable item is printed on two finalized invoices.
THEOREM ItemsBilledOnce == Spec => []BilledOnce
<1>1. Consistent => BilledOnce
  <2> SUFFICES ASSUME Consistent, NEW I \in Invoices, NEW J \in Invoices,
                      Finalized(I), Finalized(J), I # J,
                      NEW i \in DOMAIN invoices[I].snapshot.lines,
                      i \in DOMAIN invoices[J].snapshot.lines
               PROVE  FALSE
    BY DEF BilledOnce
  <2>1. i \in invoices[I].items /\ i \in invoices[J].items
    BY DEF Consistent, SnapshotMatchesItems
  <2>2. i \in Items
    BY <2>1, SMT DEF Consistent, Typed, InvoicesTyped, Invoice
  <2>3. items[i].invoice = I /\ items[i].invoice = J
    BY <2>1, <2>2 DEF Consistent, MembershipAgrees
  <2>4. QED
    BY <2>3
<1>2. QED
  BY <1>1, AlwaysConsistent, PTL

\* No step of any resolver changes a finalized invoice's number, snapshot,
\* items or status.
THEOREM FinalizedStays == Spec => FinalizedIsFinal
<1>1. Consistent /\ [Next]_vars => [FinalizedKept]_vars
  BY ConsistentStep DEF Kept
<1>2. QED
  BY <1>1, AlwaysConsistent, PTL DEF Spec, FinalizedIsFinal

-----------------------------------------------------------------------------
(* Numbers.                                                                *)

NumbersOK == Consistent /\ UniqueNumbers /\ NumbersHandedOut

\* Nothing sets the counter back.
LEMMA CounterGrows ==
    ASSUME Typed, [Next]_vars
    PROVE  counter \in Nat /\ counter' \in Nat /\ counter <= counter'
<1>1. counter \in Nat
  BY SMT DEF Typed, InvoicesTyped
<1>2. CASE counter' = counter
  BY <1>1, <1>2, SMT
<1>3. CASE counter' = counter + 1
  BY <1>1, <1>3, SMT
<1>4. ASSUME NEW next \in 1..MaxNext, SetNextInvoiceNumber(next)
      PROVE  counter' \in Nat /\ counter <= counter'
  BY <1>1, <1>4, SMT DEF SetNextInvoiceNumber
<1>5. CASE UNCHANGED vars
  BY <1>2, <1>5 DEF vars
<1>6. CASE OneWrite
  <2>1. \/ counter' = counter
        \/ \E next \in 1..MaxNext : SetNextInvoiceNumber(next)
    BY <1>6 DEF OneWrite, CreateProject, UpdateProject, UpdateInvoicingSettings, SetInvoicePaid
  <2>2. QED
    BY <1>1, <1>2, <1>4, <2>1
<1>7. ASSUME NEW r \in Requests, ItemCall(r) \/ InvoiceCall(r) \/ Stop(r) PROVE counter' = counter
  <2>1. UNCHANGED tables
    BY <1>7, ZenonT(60) DEF ItemCall, InvoiceCall, Stop, CreateBillableItemCheck, UpdateBillableItemRead,
       DeleteBillableItemRead, CreateInvoiceCheck, AddInvoiceItemsRead, RemoveInvoiceItemsRead,
       DeleteInvoiceRead, FinalizeInvoiceRead, ReadDraft, DownloadInvoicePdfRead
  <2>2. QED
    BY <2>1 DEF tables
<1>8. ASSUME NEW r \in Requests, ItemStep(r) \/ DraftStep(r) \/ PdfStep(r)
      PROVE  counter' = counter
  BY <1>8 DEF ItemStep, DraftStep, PdfStep, tables, CreateBillableItemPut,
     UpdateBillableItemReadInvoice, UpdateBillableItemWrite, DeleteBillableItemWrite,
     CreateInvoiceWrite, AddInvoiceItemsCheck, AddInvoiceItemsWrite, RemoveInvoiceItemsWrite,
     DeleteInvoiceWrite, DownloadInvoicePdfPut, DownloadInvoicePdfSetKey
<1>9. ASSUME NEW r \in Requests, FinalizeStep(r)
      PROVE  counter' = counter \/ counter' = counter + 1
  BY <1>9 DEF FinalizeStep, tables, FinalizeInvoiceReadItem, FinalizeInvoiceReadDetails,
     FinalizeInvoiceAllocate, FinalizeInvoiceAllocateLost, FinalizeInvoiceWrite
<1>10. QED
  BY <1>1, <1>2, <1>3, <1>5, <1>6, <1>7, <1>8, <1>9 DEF Next

\* A step that neither allocates a number nor finalizes.
LEMMA NumbersKept ==
  ASSUME NumbersOK, Typed', counter \in Nat, counter' \in Nat, counter <= counter',
         LedgerKept, NoneAllocated
  PROVE  UniqueNumbers' /\ NumbersHandedOut'
<1>1. \A I \in Invoices : Finalized(I)' => Finalized(I) /\ invoices'[I].number = invoices[I].number
  BY DEF LedgerKept, FinalizedKept
<1>2. \A I \in Invoices : invoices[I].number \in Nat
  BY SMT DEF NumbersOK, Consistent, Typed, InvoicesTyped, Invoice
<1>3. \A r \in Requests : requests[r].number \in Nat
  BY SMT DEF NumbersOK, Consistent, Typed, RequestsTyped, CallsTyped, Request
<1>4. UniqueNumbers'
  BY <1>1 DEF UniqueNumbers, NumbersOK
<1>5. \A I \in Invoices : Finalized(I)' => invoices'[I].number <= counter'
  BY <1>1, <1>2, SMT DEF NumbersOK, NumbersHandedOut
<1>6. \A r \in Requests : requests'[r].step = "finalizeWrite" => requests'[r].number <= counter'
  BY <1>3, SMT DEF NumbersOK, NumbersHandedOut, NoneAllocated
<1>7. \A r \in Requests : requests'[r].step = "finalizeWrite" =>
         /\ \A I \in Invoices : Finalized(I)' /\ invoices'[I].number = requests'[r].number
                                  => requests'[r].number = MaxNumber
         /\ \A t \in Requests : requests'[t].step = "finalizeWrite" /\ t # r
                                  /\ requests'[t].number = requests'[r].number
                                  => requests'[r].number = MaxNumber
  BY <1>1 DEF NumbersOK, NumbersHandedOut, NoneAllocated
<1>8. QED
  BY <1>4, <1>5, <1>6, <1>7 DEF NumbersHandedOut

\* The conversion to u32 gives the counter's value, or the limit.
LEMMA AsNumberSaturates ==
  ASSUME NEW n \in Nat
  PROVE  /\ AsNumber(n) \in Nat /\ AsNumber(n) <= n
         /\ AsNumber(n) = n \/ AsNumber(n) = MaxNumber
<1>1. MaxNumber \in Nat
  BY BoundsAssumption
<1>2. QED
  BY <1>1, SMT DEF AsNumber

\* The counter hands out a number that no invoice and no other resolver has,
\* as long as it is below the u32 limit.
LEMMA AllocateNumbers ==
  ASSUME NumbersOK, Typed', LedgerKept, NEW r \in Requests, FinalizeInvoiceAllocate(r)
  PROVE  UniqueNumbers' /\ NumbersHandedOut'
<1> DEFINE q == requests[r]
           n == AsNumber(counter + 1)
<1>1. counter \in Nat /\ counter' = counter + 1
  BY SMT DEF NumbersOK, Consistent, Typed, InvoicesTyped, FinalizeInvoiceAllocate
<1>2. n \in Nat /\ n <= counter + 1 /\ (n = counter + 1 \/ n = MaxNumber)
  <2>1. counter + 1 \in Nat
    BY <1>1, SMT
  <2>2. QED
    BY <2>1, AsNumberSaturates
<1>3. CASE Return(r)
  <2>1. NoneAllocated
    BY <1>3, SMT DEF Return, Continue, Idle, NoneAllocated, NumbersOK, Consistent, Typed,
                     RequestsTyped, CallsTyped
  <2>2. QED
    BY <1>1, <2>1, NumbersKept, SMT
<1>4. CASE Continue(r, [q EXCEPT !.step = "finalizeWrite", !.number = n])
  <2>1. requests[r] \in Request
    BY RequestRefers DEF NumbersOK, Consistent
  <2>2. /\ requests'[r] = [q EXCEPT !.step = "finalizeWrite", !.number = n]
        /\ \A t \in Requests : t # r => requests'[t] = requests[t]
    BY <1>4, SMT DEF Continue, NumbersOK, Consistent, Typed, RequestsTyped, CallsTyped
  <2>3. requests'[r].number = n
    BY <2>1, <2>2, SMT DEF Request
  <2> HIDE DEF n
  <2>4. \A I \in Invoices : Finalized(I)' =>
           Finalized(I) /\ invoices'[I].number = invoices[I].number
    BY DEF LedgerKept, FinalizedKept
  <2>5. \A I \in Invoices : invoices[I].number \in Nat
    BY SMT DEF NumbersOK, Consistent, Typed, InvoicesTyped, Invoice
  <2>6. \A t \in Requests : requests[t].number \in Nat
    BY SMT DEF NumbersOK, Consistent, Typed, RequestsTyped, CallsTyped, Request
  <2>7. UniqueNumbers'
    BY <2>4 DEF UniqueNumbers, NumbersOK
  <2>8. \A I \in Invoices : Finalized(I)' => invoices'[I].number <= counter
    BY <2>4 DEF NumbersOK, NumbersHandedOut
  <2>9. \A t \in Requests : t # r /\ requests'[t].step = "finalizeWrite" =>
           requests'[t].number \in Nat /\ requests'[t].number <= counter
    BY <2>2, <2>6 DEF NumbersOK, NumbersHandedOut
  <2>10. \A I \in Invoices : Finalized(I)' => invoices'[I].number <= counter'
    BY <1>1, <2>4, <2>5, <2>8, SMT
  <2>11. ASSUME NEW t \in Requests, requests'[t].step = "finalizeWrite"
         PROVE  /\ requests'[t].number <= counter'
                /\ \A I \in Invoices : Finalized(I)' /\ invoices'[I].number = requests'[t].number
                                         => requests'[t].number = MaxNumber
                /\ \A u \in Requests : requests'[u].step = "finalizeWrite" /\ u # t
                                         /\ requests'[u].number = requests'[t].number
                                         => requests'[t].number = MaxNumber
    <3>1. CASE t = r
      BY <1>1, <1>2, <2>3, <2>8, <2>9, <3>1, SMT
    <3>2. CASE t # r
      <4>1. requests[t].step = "finalizeWrite" /\ requests'[t] = requests[t]
        BY <2>2, <2>11, <3>2
      <4>2. requests'[t].number <= counter'
        BY <1>1, <2>9, <2>11, <3>2, SMT
      <4>3. \A I \in Invoices : Finalized(I)' /\ invoices'[I].number = requests'[t].number
                                  => requests'[t].number = MaxNumber
        BY <2>4, <4>1 DEF NumbersOK, NumbersHandedOut
      <4>4. ASSUME NEW u \in Requests, requests'[u].step = "finalizeWrite", u # t,
                   requests'[u].number = requests'[t].number
            PROVE  requests'[t].number = MaxNumber
        <5>1. CASE u = r
          BY <1>1, <1>2, <2>3, <2>9, <2>11, <3>2, <4>4, <5>1, SMT
        <5>2. CASE u # r
          BY <2>2, <4>1, <4>4, <5>2 DEF NumbersOK, NumbersHandedOut
        <5>3. QED
          BY <5>1, <5>2
      <4>5. QED
        BY <4>2, <4>3, <4>4
    <3>3. QED
      BY <3>1, <3>2
  <2>12. QED
    BY <2>7, <2>10, <2>11 DEF NumbersHandedOut
<1>5. QED
  BY <1>3, <1>4 DEF FinalizeInvoiceAllocate

\* The finalizing write passes the number on from the resolver to the invoice.
LEMMA FinalizeNumbers ==
  ASSUME NumbersOK, Typed', NoneAllocated, NEW r \in Requests, FinalizeInvoiceWrite(r)
  PROVE  UniqueNumbers' /\ NumbersHandedOut'
<1> DEFINE q == requests[r]
           I == q.invoice
<1>1. counter \in Nat /\ counter' = counter /\ q.step = "finalizeWrite"
  BY SMTT(60) DEF NumbersOK, Consistent, Typed, InvoicesTyped, FinalizeInvoiceWrite
<1>2. CASE ~DraftAt(I, q.version)
  <2>1. LedgerKept
    BY <1>2, NothingWritten DEF FinalizeInvoiceWrite, NumbersOK, Consistent
  <2>2. QED
    BY <1>1, <2>1, NumbersKept, SMT
<1>3. CASE DraftAt(I, q.version)
  <2>1. /\ I \in Invoices
        /\ invoices'[I].number = q.number
        /\ \A J \in Invoices : J # I => invoices'[J] = invoices[J]
    BY <1>3, FinalizedRow DEF NumbersOK, Consistent
  <2>2. \A J \in Invoices : J # I /\ Finalized(J)' =>
           Finalized(J) /\ invoices'[J].number = invoices[J].number
    BY <2>1 DEF Finalized
  <2>3. requests'[r].step # "finalizeWrite"
    BY SMT DEF FinalizeInvoiceWrite, Return, Continue, Idle, NumbersOK, Consistent, Typed,
               RequestsTyped, CallsTyped
  <2>4. \A t \in Requests : requests'[t].step = "finalizeWrite" =>
           t # r /\ requests[t].step = "finalizeWrite" /\ requests'[t].number = requests[t].number
    BY <2>3 DEF NoneAllocated
  <2>5. UniqueNumbers'
    BY <1>1, <2>1, <2>2 DEF UniqueNumbers, NumbersOK, NumbersHandedOut
  <2>6. \A J \in Invoices : Finalized(J)' => invoices'[J].number <= counter'
    BY <1>1, <2>1, <2>2 DEF NumbersOK, NumbersHandedOut
  <2>7. \A t \in Requests : requests'[t].step = "finalizeWrite" =>
           /\ requests'[t].number <= counter'
           /\ \A u \in Requests : requests'[u].step = "finalizeWrite" /\ u # t
                                    /\ requests'[u].number = requests'[t].number
                                    => requests'[t].number = MaxNumber
    BY <1>1, <2>4 DEF NumbersOK, NumbersHandedOut
  <2>8. ASSUME NEW t \in Requests, requests'[t].step = "finalizeWrite", NEW J \in Invoices,
               Finalized(J)', invoices'[J].number = requests'[t].number
        PROVE  requests'[t].number = MaxNumber
    <3>1. CASE J = I
      BY <1>1, <2>1, <2>4, <2>8, <3>1 DEF NumbersOK, NumbersHandedOut
    <3>2. CASE J # I
      BY <2>2, <2>4, <2>8, <3>2 DEF NumbersOK, NumbersHandedOut
    <3>3. QED
      BY <3>1, <3>2
  <2>9. QED
    BY <2>5, <2>6, <2>7, <2>8 DEF NumbersHandedOut
<1>4. QED
  BY <1>2, <1>3

\* No step of any resolver hands out a number twice, up to the u32 limit.
LEMMA NumbersStep == NumbersOK /\ [Next]_vars => NumbersOK'
<1> SUFFICES ASSUME NumbersOK, [Next]_vars PROVE NumbersOK'
  OBVIOUS
<1>1. Consistent' /\ Kept
  BY ConsistentStep DEF NumbersOK
<1>2. Typed'
  BY <1>1 DEF Consistent
<1>3. counter \in Nat /\ counter' \in Nat /\ counter <= counter'
  BY CounterGrows DEF NumbersOK, Consistent
<1>4. LedgerKept \/ \E r \in Requests : FinalizeInvoiceWrite(r)
  BY <1>1 DEF Kept
<1>5. NoneAllocated \/ \E r \in Requests : FinalizeInvoiceAllocate(r)
  BY <1>1 DEF Kept
<1>6. ASSUME NEW r \in Requests, FinalizeInvoiceAllocate(r) PROVE LedgerKept
  BY <1>6, NothingWritten DEF FinalizeInvoiceAllocate, NumbersOK, Consistent
<1>7. CASE \E r \in Requests : FinalizeInvoiceAllocate(r)
  BY <1>1, <1>2, <1>6, <1>7, AllocateNumbers DEF NumbersOK
<1>8. CASE NoneAllocated
  BY <1>1, <1>2, <1>3, <1>4, <1>8, NumbersKept, FinalizeNumbers DEF NumbersOK
<1>9. QED
  BY <1>5, <1>7, <1>8

\* No two finalized invoices have the same number below the u32 limit,
\* whatever finalizes fail or race, however often a counter update is applied,
\* and wherever setNextInvoiceNumber moves the counter.
THEOREM NumbersUnique == Spec => []UniqueNumbers
<1>1. Init => NumbersOK
  <2> SUFFICES ASSUME Init PROVE NumbersOK
    OBVIOUS
  <2>1. \A I \in Invoices : ~Finalized(I)
    BY SMT DEF Init, NoInvoice, Finalized
  <2>2. \A r \in Requests : requests[r].step # "finalizeWrite"
    BY SMT DEF Init, Idle
  <2>3. QED
    BY <2>1, <2>2, InitConsistent DEF NumbersOK, UniqueNumbers, NumbersHandedOut
<1>2. NumbersOK /\ [Next]_vars => NumbersOK'
  BY NumbersStep
<1>3. NumbersOK => UniqueNumbers
  BY DEF NumbersOK
<1>4. QED
  BY <1>1, <1>2, <1>3, PTL DEF Spec

-----------------------------------------------------------------------------
(* Totals.                                                                 *)

\* What a finalizing write freezes was within the bound when it was summed.
LEMMA FinalizedWithinBound ==
  ASSUME Consistent, FinalizedTotalsFit, NEW r \in Requests, FinalizeInvoiceWrite(r)
  PROVE  FinalizedTotalsFit'
<1> DEFINE q == requests[r]
           I == q.invoice
<1>1. CASE ~DraftAt(I, q.version)
  <2>1. UNCHANGED invoices
    BY <1>1 DEF FinalizeInvoiceWrite
  <2>2. QED
    BY <2>1 DEF FinalizedTotalsFit, Finalized
<1>2. CASE DraftAt(I, q.version)
  <2>1. /\ I \in Invoices /\ invoices'[I].items = invoices[I].items
        /\ invoices'[I].snapshot = BuildSnapshot(q)
        /\ \A J \in Invoices : J # I => invoices'[J] = invoices[J]
    BY <1>2, FinalizedRow DEF Consistent
  <2>2. q.held = invoices[I].items
    BY <1>2 DEF Consistent, ReadsHold, ReadHolds, FinalizeInvoiceWrite, DraftSteps, FinalizeSteps
  <2>3. q.held # {} /\ TotalFits(q.lines, q.settings.gst)
    BY RequestRefers DEF Consistent, FinalizeInvoiceWrite, Ready, FinalizeSteps
  <2>4. invoices'[I].snapshot.lines = q.lines /\ invoices'[I].snapshot.settings.gst = q.settings.gst
    BY <2>1 DEF BuildSnapshot
  <2>5. invoices'[I].items # {}
    BY <2>1, <2>2, <2>3
  <2>6. total_cents(invoices'[I].snapshot.lines, invoices'[I].snapshot.settings.gst) <= MaxTotal
    BY <2>3, <2>4 DEF TotalFits
  <2>7. QED
    BY <2>1, <2>5, <2>6 DEF FinalizedTotalsFit, Finalized
<1>3. QED
  BY <1>1, <1>2

\* Every finalized invoice has a line and a total within MAX_SAFE_TOTAL_CENTS:
\* finalizeInvoice checks the lines that its write freezes, and nothing writes
\* a snapshot after it.
THEOREM TotalsFit == Spec => []FinalizedTotalsFit
<1>1. Consistent /\ FinalizedTotalsFit /\ [Next]_vars => FinalizedTotalsFit'
  <2> SUFFICES ASSUME Consistent, FinalizedTotalsFit, [Next]_vars PROVE FinalizedTotalsFit'
    OBVIOUS
  <2>1. CASE LedgerKept
    BY <2>1 DEF LedgerKept, FinalizedKept, FinalizedTotalsFit, Finalized
  <2>2. QED
    BY <2>1, ConsistentStep, FinalizedWithinBound DEF Kept
<1>2. Init => FinalizedTotalsFit
  BY SMT DEF Init, NoInvoice, FinalizedTotalsFit, Finalized
<1>3. QED
  BY <1>1, <1>2, AlwaysConsistent, PTL DEF Spec

-----------------------------------------------------------------------------
(* The cap on the items of an invoice.                                     *)

\* An invoice loses items, or ends up within the cap.
CapKept ==
    \A I \in Invoices : \/ invoices'[I].items \subseteq invoices[I].items
                        \/ Cardinality(invoices'[I].items) <= MaxInvoiceItems

\* createInvoice puts a draft with the items it counted.
LEMMA CreateInvoiceWriteCapped ==
  ASSUME Consistent, NEW r \in Requests, CreateInvoiceWrite(r)
  PROVE  CapKept
<1> DEFINE ids == requests[r].ids
           row == [NoInvoice EXCEPT !.status = "draft", !.project = requests[r].project,
                                    !.items = ids, !.version = 1]
<1>1. Cardinality(ids) <= MaxInvoiceItems
  BY RequestRefers DEF Consistent, CreateInvoiceWrite, Ready
<1>2. CASE UNCHANGED invoices
  BY <1>2 DEF CapKept
<1>3. ASSUME NEW I \in Invoices, invoices' = [invoices EXCEPT ![I] = row] PROVE CapKept
  <2>1. row.items = ids
    BY DEF NoInvoice
  <2> HIDE DEF row
  <2>2. \A J \in Invoices : invoices'[J] = IF J = I THEN row ELSE invoices[J]
    BY <1>3, SMT DEF Consistent, Typed, InvoicesTyped
  <2>3. QED
    BY <1>1, <2>1, <2>2 DEF CapKept
<1>4. QED
  BY <1>2, <1>3 DEF CreateInvoiceWrite

\* addInvoiceItems counted the items of the version that its write asks for.
LEMMA AddInvoiceItemsWriteCapped ==
  ASSUME Consistent, NEW r \in Requests, AddInvoiceItemsWrite(r)
  PROVE  CapKept
<1> DEFINE q == requests[r]
           I == q.invoice
<1>1. CASE UNCHANGED invoices
  BY <1>1 DEF CapKept
<1>2. ASSUME DraftAt(I, q.version),
             invoices' = [invoices EXCEPT ![I].items = @ \cup q.ids, ![I].version = @ + 1]
      PROVE  CapKept
  <2>1. /\ q.step = "addItemsWrite" /\ I \in Invoices
        /\ q.ids \in SUBSET Items /\ q.held \in SUBSET Items
        /\ Cardinality(q.held) + Cardinality(q.ids) <= MaxInvoiceItems
    BY RequestRefers DEF Consistent, AddInvoiceItemsWrite, Ready, DraftSteps
  <2>2. q.held = invoices[I].items
    BY <1>2, <2>1 DEF Consistent, ReadsHold, ReadHolds, DraftSteps
  <2>3. IsFiniteSet(q.held) /\ IsFiniteSet(q.ids)
    BY <2>1, FS_Subset, IdsAssumption
  <2>4. /\ IsFiniteSet(q.held \cap q.ids)
        /\ Cardinality(q.held \cup q.ids) =
              Cardinality(q.held) + Cardinality(q.ids) - Cardinality(q.held \cap q.ids)
    BY <2>3, FS_Union, FS_Subset
  <2>5. /\ Cardinality(q.held) \in Nat /\ Cardinality(q.ids) \in Nat
        /\ Cardinality(q.held \cap q.ids) \in Nat /\ MaxInvoiceItems \in Nat
    BY <2>3, <2>4, FS_CardinalityType, BoundsAssumption
  <2>6. Cardinality(q.held \cup q.ids) <= MaxInvoiceItems
    BY <2>1, <2>4, <2>5, SMT
  <2>7. /\ invoices'[I].items = q.held \cup q.ids
        /\ \A J \in Invoices : J # I => invoices'[J] = invoices[J]
    BY <1>2, <2>1, <2>2, SMTT(60) DEF Consistent, Typed, InvoicesTyped, Invoice
  <2>8. QED
    BY <2>6, <2>7 DEF CapKept
<1>3. QED
  BY <1>1, <1>2 DEF AddInvoiceItemsWrite

\* removeInvoiceItems only takes items off.
LEMMA RemoveInvoiceItemsWriteCapped ==
  ASSUME Consistent, NEW r \in Requests, RemoveInvoiceItemsWrite(r)
  PROVE  CapKept
<1> DEFINE q == requests[r]
           I == q.invoice
<1>1. CASE UNCHANGED invoices
  BY <1>1 DEF CapKept
<1>2. CASE invoices' = [invoices EXCEPT ![I].items = @ \ q.ids, ![I].version = @ + 1]
  <2>1. I \in Invoices
    BY RequestRefers DEF Consistent, RemoveInvoiceItemsWrite, DraftSteps
  <2>2. \A J \in Invoices : invoices'[J].items \subseteq invoices[J].items
    BY <1>2, <2>1, SMT DEF Consistent, Typed, InvoicesTyped, Invoice
  <2>3. QED
    BY <2>2 DEF CapKept
<1>3. QED
  BY <1>1, <1>2 DEF RemoveInvoiceItemsWrite

\* deleteInvoice takes every item off.
LEMMA DeleteInvoiceWriteCapped ==
  ASSUME Consistent, NEW r \in Requests, DeleteInvoiceWrite(r)
  PROVE  CapKept
<1> DEFINE I == requests[r].invoice
           gone == [NoInvoice EXCEPT !.status = "deleted"]
<1>1. CASE UNCHANGED invoices
  BY <1>1 DEF CapKept
<1>2. CASE invoices' = [invoices EXCEPT ![I] = gone]
  <2>1. gone.items = {}
    BY DEF NoInvoice
  <2> HIDE DEF gone
  <2>2. \A J \in Invoices : invoices'[J] = gone \/ invoices'[J] = invoices[J]
    BY <1>2, SMT DEF Consistent, Typed, InvoicesTyped
  <2>3. QED
    BY <2>1, <2>2 DEF CapKept
<1>3. QED
  BY <1>1, <1>2 DEF DeleteInvoiceWrite

\* What an invoice's row may become when no mutation of its items writes it.
LEMMA SameItemsCapped ==
  ASSUME \A I \in Invoices : invoices'[I].items = invoices[I].items
  PROVE  CapKept
BY DEF CapKept

\* updateBillableItem, finalizeInvoice, setInvoicePaid and downloadInvoicePdf
\* write the row of an invoice and leave its items.
LEMMA OtherWritesCapped ==
  ASSUME Consistent, NEW r \in Requests,
         UpdateBillableItemWrite(r) \/ FinalizeInvoiceWrite(r) \/ DownloadInvoicePdfSetKey(r)
  PROVE  CapKept
<1> DEFINE I == requests[r].invoice
<1>1. CASE UNCHANGED invoices
  BY <1>1, SameItemsCapped
<1>2. CASE UpdateBillableItemWrite(r) /\ invoices' = [invoices EXCEPT ![I].version = @ + 1]
  <2>1. \A J \in Invoices : invoices'[J].items = invoices[J].items
    BY <1>2, SMT DEF Consistent, Typed, InvoicesTyped, Invoice
  <2>2. QED
    BY <2>1, SameItemsCapped
<1>3. CASE FinalizeInvoiceWrite(r) /\ DraftAt(I, requests[r].version)
  BY <1>3, FinalizedRow, SameItemsCapped DEF Consistent
<1>4. CASE DownloadInvoicePdfSetKey(r) /\ invoices' = [invoices EXCEPT ![I].pdf = TRUE]
  <2>1. \A J \in Invoices : invoices'[J].items = invoices[J].items
    BY <1>4, SMT DEF Consistent, Typed, InvoicesTyped, Invoice
  <2>2. QED
    BY <2>1, SameItemsCapped
<1>5. QED
  BY <1>1, <1>2, <1>3, <1>4
     DEF UpdateBillableItemWrite, FinalizeInvoiceWrite, DownloadInvoicePdfSetKey

\* No step takes an invoice over the cap.
LEMMA StepCapped ==
  ASSUME Consistent, [Next]_vars
  PROVE  CapKept
<1>1. CASE UNCHANGED invoices
  BY <1>1, SameItemsCapped
<1>2. ASSUME NEW I \in Invoices, NEW paid \in BOOLEAN, SetInvoicePaid(I, paid) PROVE CapKept
  <2>1. invoices' = [invoices EXCEPT ![I].paid = paid]
    BY <1>2 DEF SetInvoicePaid
  <2>2. \A J \in Invoices : invoices'[J].items = invoices[J].items
    BY <2>1, SMT DEF Consistent, Typed, InvoicesTyped, Invoice
  <2>3. QED
    BY <2>2, SameItemsCapped
<1>3. CASE OneWrite
  BY <1>1, <1>2, <1>3
     DEF OneWrite, CreateProject, UpdateProject, UpdateInvoicingSettings, SetNextInvoiceNumber
<1>4. ASSUME NEW r \in Requests, ItemCall(r) \/ InvoiceCall(r) \/ Stop(r) PROVE CapKept
  <2>1. UNCHANGED tables
    BY <1>4, ZenonT(60) DEF ItemCall, InvoiceCall, Stop, CreateBillableItemCheck, UpdateBillableItemRead,
       DeleteBillableItemRead, CreateInvoiceCheck, AddInvoiceItemsRead, RemoveInvoiceItemsRead,
       DeleteInvoiceRead, FinalizeInvoiceRead, ReadDraft, DownloadInvoicePdfRead
  <2>2. QED
    BY <1>1, <2>1 DEF tables
<1>5. ASSUME NEW r \in Requests, ItemStep(r) PROVE CapKept
  BY <1>1, <1>5, OtherWritesCapped
     DEF ItemStep, tables, CreateBillableItemPut, UpdateBillableItemReadInvoice,
         DeleteBillableItemWrite
<1>6. ASSUME NEW r \in Requests, DraftStep(r) PROVE CapKept
  BY <1>1, <1>6, CreateInvoiceWriteCapped, AddInvoiceItemsWriteCapped,
     RemoveInvoiceItemsWriteCapped, DeleteInvoiceWriteCapped
     DEF DraftStep, tables, AddInvoiceItemsCheck
<1>7. ASSUME NEW r \in Requests, FinalizeStep(r) \/ PdfStep(r) PROVE CapKept
  BY <1>1, <1>7, OtherWritesCapped
     DEF FinalizeStep, PdfStep, tables, FinalizeInvoiceReadItem, FinalizeInvoiceReadDetails,
         FinalizeInvoiceAllocate, FinalizeInvoiceAllocateLost, DownloadInvoicePdfPut
<1>8. CASE UNCHANGED vars
  BY <1>1, <1>8 DEF vars
<1>9. QED
  BY <1>3, <1>4, <1>5, <1>6, <1>7, <1>8 DEF Next

\* No invoice outgrows MAX_INVOICE_ITEMS, although addInvoiceItems counts the
\* items of an earlier read than the write that adds to them.
THEOREM CapHolds == Spec => []ItemCapHolds
<1>1. Consistent /\ ItemCapHolds /\ [Next]_vars => ItemCapHolds'
  <2> SUFFICES ASSUME Consistent, ItemCapHolds, [Next]_vars, NEW I \in Invoices
               PROVE  Cardinality(invoices'[I].items) <= MaxInvoiceItems
    BY DEF ItemCapHolds
  <2>1. CapKept
    BY StepCapped
  <2>2. CASE invoices'[I].items \subseteq invoices[I].items
    <3>1. invoices[I].items \in SUBSET Items
      BY SMT DEF Consistent, Typed, InvoicesTyped, Invoice
    <3>2. IsFiniteSet(invoices[I].items)
      BY <3>1, FS_Subset, IdsAssumption
    <3>3. /\ IsFiniteSet(invoices'[I].items)
          /\ Cardinality(invoices'[I].items) <= Cardinality(invoices[I].items)
      BY <2>2, <3>2, FS_Subset
    <3>4. Cardinality(invoices'[I].items) \in Nat /\ Cardinality(invoices[I].items) \in Nat
      BY <3>2, <3>3, FS_CardinalityType
    <3>5. Cardinality(invoices[I].items) <= MaxInvoiceItems /\ MaxInvoiceItems \in Nat
      BY BoundsAssumption DEF ItemCapHolds
    <3>6. QED
      BY <3>3, <3>4, <3>5, SMT
  <2>3. QED
    BY <2>1, <2>2 DEF CapKept
<1>2. Init => ItemCapHolds
  <2> SUFFICES ASSUME Init, NEW I \in Invoices
               PROVE  Cardinality(invoices[I].items) <= MaxInvoiceItems
    BY DEF ItemCapHolds
  <2>1. invoices[I].items = {}
    BY SMT DEF Init, NoInvoice
  <2>2. Cardinality(invoices[I].items) = 0
    BY <2>1, FS_EmptySet
  <2>3. QED
    BY <2>2, BoundsAssumption, SMT
<1>3. QED
  BY <1>1, <1>2, AlwaysConsistent, PTL DEF Spec

-----------------------------------------------------------------------------
(* Rendered documents.                                                     *)

\* The object and the key of every finalized invoice, and what the downloads
\* in flight hold.
PdfsOK == PdfMatchesSnapshot /\ DownloadsCarrySnapshot

\* No document is written, and no key set.
PdfsKept == pdfs' = pdfs /\ \A I \in Invoices : invoices'[I].pdf => invoices[I].pdf

\* No resolver comes to a step of a download.
NoDownload ==
    \A r \in Requests : requests'[r].step \in PdfSteps => requests'[r] = requests[r]

\* What DownloadsCarrySnapshot says of one resolver.
DownloadRight(r) ==
    LET q == requests[r] IN
    /\ q.step \in PdfSteps => Finalized(q.invoice)
    /\ q.step = "pdfPut" => BuildSnapshot(q) = invoices[q.invoice].snapshot
    /\ q.step = "pdfSetKey" => pdfs[q.invoice] # None

\* What is finalized keeps its snapshot, and a document is there for good: so
\* a download that waits is still right.
LEMMA WaitingDownload ==
  ASSUME PdfsOK, Typed, FinalizedKept, NEW r \in Requests,
         requests'[r].step \in PdfSteps => requests'[r] = requests[r],
         \A I \in Invoices : pdfs[I] # None => pdfs'[I] # None
  PROVE  DownloadRight(r)'
<1> DEFINE q == requests[r]
<1>1. CASE requests'[r].step \notin PdfSteps
  BY <1>1 DEF DownloadRight, PdfSteps
<1>2. CASE requests'[r] = q /\ q.step \in PdfSteps
  <2>1. q.invoice \in Invoices
    BY <1>2, RequestRefers
  <2>2. DownloadRight(r)
    BY DEF PdfsOK, DownloadsCarrySnapshot, DownloadRight
  <2>3. /\ invoices'[q.invoice].status = "finalized"
        /\ invoices'[q.invoice].snapshot = invoices[q.invoice].snapshot
    BY <1>2, <2>1, <2>2 DEF FinalizedKept, DownloadRight
  <2>4. QED
    BY <1>2, <2>1, <2>2, <2>3 DEF DownloadRight, Finalized
<1>3. QED
  BY <1>1, <1>2

\* A step that touches no download keeps the documents right.
LEMMA UntouchedPdfs ==
  ASSUME PdfsOK, Typed, FinalizedKept, PdfsKept, NoDownload
  PROVE  PdfsOK'
<1>1. PdfMatchesSnapshot'
  BY DEF PdfsOK, PdfMatchesSnapshot, FinalizedKept, PdfsKept, Finalized
<1>2. \A r \in Requests : DownloadRight(r)'
  BY WaitingDownload DEF PdfsKept, NoDownload
<1>3. QED
  BY <1>1, <1>2 DEF PdfsOK, DownloadsCarrySnapshot, DownloadRight

\* A resolver that comes to a step of another mutation.
LEMMA NoDownloadBegun ==
  ASSUME Typed, NEW r \in Requests, NEW q, q.step \notin PdfSteps,
         requests' = [requests EXCEPT ![r] = q]
  PROVE  NoDownload
BY SMT DEF NoDownload, Typed, RequestsTyped, CallsTyped

\* A resolver that returns.
LEMMA ReturnedDownloads ==
  ASSUME Typed, NEW r \in Requests, Return(r)
  PROVE  NoDownload
<1>1. Idle.step \notin PdfSteps
  BY DEF Idle, PdfSteps
<1>2. QED
  BY <1>1, NoDownloadBegun DEF Return, Continue

\* The first reads of the mutations of items.
LEMMA ItemCallNoDownload ==
  ASSUME Typed, NEW r \in Requests, ItemCall(r)
  PROVE  NoDownload /\ PdfsKept
<1>1. PdfsKept
  BY DEF PdfsKept, ItemCall, CreateBillableItemCheck, UpdateBillableItemRead,
         DeleteBillableItemRead, tables
<1>2. ASSUME NEW p \in Projects, NEW c \in Amounts, CreateBillableItemCheck(r, p, c)
      PROVE  NoDownload
  <2> DEFINE q == [Idle EXCEPT !.step = "createItemPut", !.project = p, !.content = c]
  <2>1. q.step \notin PdfSteps
    BY SMT DEF Idle, PdfSteps
  <2>2. requests' = [requests EXCEPT ![r] = q]
    BY <1>2 DEF CreateBillableItemCheck, Begin
  <2>3. QED
    BY <2>1, <2>2, NoDownloadBegun, Zenon
<1>3. ASSUME NEW i \in Items, NEW c \in Amounts, UpdateBillableItemRead(r, i, c)
      PROVE  NoDownload
  <2> DEFINE q(row) == [Idle EXCEPT !.step = IF row.invoice = None
                                             THEN "updateItemWrite"
                                             ELSE "updateItemReadInvoice",
                                    !.ids = {i}, !.content = c, !.invoice = row.invoice]
  <2>1. PICK row \in itemSeen[i] : requests' = [requests EXCEPT ![r] = q(row)]
    BY <1>3 DEF UpdateBillableItemRead, Begin
  <2>2. q(row).step \notin PdfSteps
    BY SMT DEF Idle, PdfSteps
  <2>3. QED
    BY <2>1, <2>2, NoDownloadBegun, Zenon
<1>4. ASSUME NEW i \in Items, DeleteBillableItemRead(r, i) PROVE NoDownload
  <2> DEFINE q == [Idle EXCEPT !.step = "deleteItemWrite", !.ids = {i}]
  <2>1. q.step \notin PdfSteps
    BY SMT DEF Idle, PdfSteps
  <2>2. requests' = [requests EXCEPT ![r] = q]
    BY <1>4 DEF DeleteBillableItemRead, Begin
  <2>3. QED
    BY <2>1, <2>2, NoDownloadBegun, Zenon
<1>5. QED
  BY <1>1, <1>2, <1>3, <1>4 DEF ItemCall

\* The first reads of the mutations of drafts.
LEMMA DraftCallNoDownload ==
  ASSUME Typed, NEW r \in Requests, InvoiceCall(r)
  PROVE  PdfsKept /\ (NoDownload \/ \E I \in Invoices : DownloadInvoicePdfRead(r, I))
<1>1. PdfsKept
  BY DEF PdfsKept, InvoiceCall, CreateInvoiceCheck, AddInvoiceItemsRead, RemoveInvoiceItemsRead,
         DeleteInvoiceRead, FinalizeInvoiceRead, ReadDraft, DownloadInvoicePdfRead, tables
<1>2. ASSUME NEW p \in Projects, NEW ids \in SUBSET Items, CreateInvoiceCheck(r, p, ids)
      PROVE  NoDownload
  <2> DEFINE q == [Idle EXCEPT !.step = "createInvoiceWrite", !.project = p, !.ids = ids]
  <2>1. q.step \notin PdfSteps
    BY SMT DEF Idle, PdfSteps
  <2>2. requests' = [requests EXCEPT ![r] = q]
    BY <1>2 DEF CreateInvoiceCheck, Begin
  <2>3. QED
    BY <2>1, <2>2, NoDownloadBegun, Zenon
<1>3. ASSUME NEW I, NEW ids, NEW op, NEW step, step \notin PdfSteps, ReadDraft(r, op, I, ids, step)
      PROVE  NoDownload
  <2> DEFINE q == [Idle EXCEPT !.step = step, !.invoice = I, !.ids = ids,
                               !.project = invoices[I].project,
                               !.version = invoices[I].version,
                               !.held = invoices[I].items]
  <2>1. q.step \notin PdfSteps
    BY <1>3, SMT DEF Idle
  <2>2. requests' = [requests EXCEPT ![r] = q]
    BY <1>3 DEF ReadDraft, Begin
  <2>3. QED
    BY <2>1, <2>2, NoDownloadBegun, Zenon
<1>4. {"addItemsCheck", "removeItemsWrite", "deleteInvoiceWrite", "finalizeReadItems"}
         \cap PdfSteps = {}
  BY SMT DEF PdfSteps
<1>5. ASSUME NEW I \in Invoices,
             \/ \E ids \in SUBSET Items :
                   AddInvoiceItemsRead(r, I, ids) \/ RemoveInvoiceItemsRead(r, I, ids)
             \/ DeleteInvoiceRead(r, I)
             \/ FinalizeInvoiceRead(r, I)
      PROVE  NoDownload
  BY <1>3, <1>4, <1>5
     DEF AddInvoiceItemsRead, RemoveInvoiceItemsRead, DeleteInvoiceRead, FinalizeInvoiceRead
<1>6. QED
  BY <1>1, <1>2, <1>5 DEF InvoiceCall

\* The calls that return after writing no document and setting no key.
LEMMA WriteNoDownload ==
  ASSUME Typed, NEW r \in Requests,
         \/ CreateBillableItemPut(r) \/ UpdateBillableItemWrite(r) \/ DeleteBillableItemWrite(r)
         \/ CreateInvoiceWrite(r) \/ AddInvoiceItemsWrite(r) \/ RemoveInvoiceItemsWrite(r)
         \/ DeleteInvoiceWrite(r) \/ FinalizeInvoiceWrite(r) \/ Stop(r)
  PROVE  NoDownload /\ PdfsKept
<1> DEFINE I == requests[r].invoice
           gone == [NoInvoice EXCEPT !.status = "deleted"]
           draft == [NoInvoice EXCEPT !.status = "draft", !.project = requests[r].project,
                                      !.items = requests[r].ids, !.version = 1]
<1>1. pdfs' = pdfs /\ Return(r)
  BY DEF CreateBillableItemPut, UpdateBillableItemWrite, DeleteBillableItemWrite,
         CreateInvoiceWrite, AddInvoiceItemsWrite, RemoveInvoiceItemsWrite, DeleteInvoiceWrite,
         FinalizeInvoiceWrite, Stop, tables
<1>2. gone.pdf = FALSE /\ draft.pdf = FALSE
  BY DEF NoInvoice
<1> HIDE DEF gone, draft
<1>3. \/ invoices' = invoices
      \/ invoices' = [invoices EXCEPT ![I].version = @ + 1]
      \/ \E J \in Invoices : invoices' = [invoices EXCEPT ![J] = draft]
      \/ invoices' = [invoices EXCEPT ![I].items = @ \cup requests[r].ids, ![I].version = @ + 1]
      \/ invoices' = [invoices EXCEPT ![I].items = @ \ requests[r].ids, ![I].version = @ + 1]
      \/ invoices' = [invoices EXCEPT ![I] = gone]
      \/ FinalizeInvoiceWrite(r)
  BY DEF CreateBillableItemPut, UpdateBillableItemWrite, DeleteBillableItemWrite,
         CreateInvoiceWrite, AddInvoiceItemsWrite, RemoveInvoiceItemsWrite, DeleteInvoiceWrite,
         Stop, tables, gone, draft
<1>4. \A J \in Invoices : invoices'[J].pdf => invoices[J].pdf
  <2> SUFFICES ASSUME NEW J \in Invoices PROVE invoices'[J].pdf => invoices[J].pdf
    OBVIOUS
  <2> USE DEF Typed, InvoicesTyped, Invoice
  <2>1. CASE invoices' = invoices
    BY <2>1
  <2>2. CASE invoices' = [invoices EXCEPT ![I].version = @ + 1]
    BY <2>2, SMT
  <2>3. ASSUME NEW K \in Invoices, invoices' = [invoices EXCEPT ![K] = draft]
        PROVE  invoices'[J].pdf => invoices[J].pdf
    BY <1>2, <2>3, SMT
  <2>4. CASE invoices' = [invoices EXCEPT ![I].items = @ \cup requests[r].ids,
                                          ![I].version = @ + 1]
    BY <2>4, SMTT(60)
  <2>5. CASE invoices' = [invoices EXCEPT ![I].items = @ \ requests[r].ids, ![I].version = @ + 1]
    BY <2>5, SMT
  <2>6. CASE invoices' = [invoices EXCEPT ![I] = gone]
    BY <1>2, <2>6, SMT
  <2>7. CASE FinalizeInvoiceWrite(r)
    <3> DEFINE snap == BuildSnapshot(requests[r])
    <3>1. \/ invoices' = invoices
          \/ invoices' = [invoices EXCEPT ![I].status = "finalized",
                                          ![I].number = requests[r].number,
                                          ![I].snapshot = snap, ![I].version = @ + 1]
      BY <2>7 DEF FinalizeInvoiceWrite
    <3> HIDE DEF snap
    <3>2. QED
      BY <3>1, SMTT(60)
  <2>8. QED
    BY <1>3, <2>1, <2>2, <2>3, <2>4, <2>5, <2>6, <2>7
<1>5. QED
  BY <1>1, <1>4, ReturnedDownloads DEF PdfsKept

\* The calls that go on to another step than a download's.
LEMMA StepNoDownload ==
  ASSUME Typed, NEW r \in Requests,
         \/ UpdateBillableItemReadInvoice(r) \/ AddInvoiceItemsCheck(r)
         \/ \E i \in Items : FinalizeInvoiceReadItem(r, i)
         \/ FinalizeInvoiceReadDetails(r) \/ FinalizeInvoiceAllocate(r)
         \/ FinalizeInvoiceAllocateLost(r)
  PROVE  NoDownload /\ PdfsKept
<1> DEFINE q == requests[r]
<1>1. PdfsKept
  BY DEF PdfsKept, tables, UpdateBillableItemReadInvoice, AddInvoiceItemsCheck,
         FinalizeInvoiceReadItem, FinalizeInvoiceReadDetails, FinalizeInvoiceAllocate,
         FinalizeInvoiceAllocateLost
<1>2. q \in Request
  BY RequestRefers
<1>3. ASSUME NEW step, step \notin PdfSteps, Continue(r, [q EXCEPT !.step = step])
      PROVE  NoDownload
  <2> DEFINE q1 == [q EXCEPT !.step = step]
  <2>1. q1.step \notin PdfSteps
    BY <1>2, <1>3, SMT DEF Request
  <2>2. requests' = [requests EXCEPT ![r] = q1]
    BY <1>3 DEF Continue
  <2>3. QED
    BY <2>1, <2>2, NoDownloadBegun, Zenon
<1>4. ASSUME UpdateBillableItemReadInvoice(r) \/ AddInvoiceItemsCheck(r) PROVE NoDownload
  <2>1. "updateItemWrite" \notin PdfSteps /\ "addItemsWrite" \notin PdfSteps
    BY DEF PdfSteps
  <2>2. QED
    BY <1>3, <1>4, <2>1 DEF UpdateBillableItemReadInvoice, AddInvoiceItemsCheck
<1>5. ASSUME NEW i \in Items, FinalizeInvoiceReadItem(r, i) PROVE NoDownload
  <2> DEFINE lines == [j \in DOMAIN q.lines \cup {i} |-> IF j = i THEN items[i].content
                                                                  ELSE q.lines[j]]
             q1 == [q EXCEPT !.lines = lines]
  <2>1. requests' = [requests EXCEPT ![r] = q1] /\ q.step = "finalizeReadItems"
    BY <1>5 DEF FinalizeInvoiceReadItem, Continue
  <2> HIDE DEF lines
  <2>2. q1.step \notin PdfSteps
    BY <1>2, <2>1, SMT DEF Request, PdfSteps
  <2>3. QED
    BY <2>1, <2>2, NoDownloadBegun, Zenon
<1>6. ASSUME FinalizeInvoiceReadDetails(r) PROVE NoDownload
  <2> DEFINE q1(row, s) == [q EXCEPT !.step = "finalizeAllocate",
                                     !.client = row.client, !.settings = s]
  <2>1. PICK row \in projectSeen[q.project], s \in settingsSeen :
           requests' = [requests EXCEPT ![r] = q1(row, s)]
    BY <1>6 DEF FinalizeInvoiceReadDetails, Continue
  <2>2. q1(row, s).step \notin PdfSteps
    BY <1>2, SMT DEF Request, PdfSteps
  <2>3. QED
    BY <2>1, <2>2, NoDownloadBegun, Zenon
<1>7. ASSUME FinalizeInvoiceAllocate(r) PROVE NoDownload
  <2> DEFINE q1 == [q EXCEPT !.step = "finalizeWrite", !.number = AsNumber(counter + 1)]
  <2>1. Return(r) \/ requests' = [requests EXCEPT ![r] = q1]
    BY <1>7 DEF FinalizeInvoiceAllocate, Continue
  <2>2. q1.step \notin PdfSteps
    BY <1>2, SMT DEF Request, PdfSteps
  <2>3. QED
    BY <2>1, <2>2, NoDownloadBegun, ReturnedDownloads, Zenon
<1>8. ASSUME FinalizeInvoiceAllocateLost(r) PROVE NoDownload
  BY <1>8 DEF FinalizeInvoiceAllocateLost, NoDownload
<1>9. QED
  BY <1>1, <1>4, <1>5, <1>6, <1>7, <1>8

\* The mutations that are a single write.
LEMMA OneWriteNoDownload ==
  ASSUME Typed, OneWrite
  PROVE  NoDownload /\ PdfsKept
<1>1. requests' = requests /\ pdfs' = pdfs
  BY DEF OneWrite, CreateProject, UpdateProject, UpdateInvoicingSettings, SetNextInvoiceNumber,
         SetInvoicePaid
<1>2. ASSUME NEW I \in Invoices, NEW paid \in BOOLEAN, SetInvoicePaid(I, paid)
      PROVE  \A J \in Invoices : invoices'[J].pdf => invoices[J].pdf
  <2>1. invoices' = [invoices EXCEPT ![I].paid = paid]
    BY <1>2 DEF SetInvoicePaid
  <2>2. QED
    BY <2>1, SMT DEF Typed, InvoicesTyped, Invoice
<1>3. \A J \in Invoices : invoices'[J].pdf => invoices[J].pdf
  BY <1>2 DEF OneWrite, CreateProject, UpdateProject, UpdateInvoicingSettings,
              SetNextInvoiceNumber
<1>4. QED
  BY <1>1, <1>3 DEF NoDownload, PdfsKept

\* Every step but the three of a download.
LEMMA OtherStepsNoDownload ==
  ASSUME Typed, [Next]_vars,
         ~ \E r \in Requests : PdfStep(r) \/ \E I \in Invoices : DownloadInvoicePdfRead(r, I)
  PROVE  NoDownload /\ PdfsKept
<1>1. CASE UNCHANGED vars
  BY <1>1 DEF vars, NoDownload, PdfsKept
<1>2. ASSUME NEW r \in Requests,
             ItemCall(r) \/ InvoiceCall(r) \/ ItemStep(r) \/ DraftStep(r)
             \/ FinalizeStep(r) \/ Stop(r)
      PROVE  NoDownload /\ PdfsKept
  BY <1>2, ItemCallNoDownload, DraftCallNoDownload, WriteNoDownload, StepNoDownload
     DEF ItemStep, DraftStep, FinalizeStep
<1>3. QED
  BY <1>1, <1>2, OneWriteNoDownload DEF Next

\* The snapshot of a finalized invoice is a real one.
LEMMA SnapshotPresent ==
  ASSUME Typed, NEW I \in Invoices, Finalized(I)
  PROVE  invoices[I].snapshot \in InvoiceSnapshot /\ invoices[I].snapshot # None
BY SMT DEF Typed, InvoicesTyped, Invoice, InvoiceShape, Finalized

\* downloadInvoicePdf reads the frozen snapshot.
LEMMA DownloadInvoicePdfReadRight ==
  ASSUME PdfsOK, Typed, FinalizedKept, NEW r \in Requests, NEW I \in Invoices,
         DownloadInvoicePdfRead(r, I)
  PROVE  PdfsOK'
<1> DEFINE snap == invoices[I].snapshot
           q == [Idle EXCEPT !.step = "pdfPut", !.invoice = I, !.lines = snap.lines,
                             !.client = snap.client, !.settings = snap.settings,
                             !.number = snap.number]
<1>1. requests' = [requests EXCEPT ![r] = q] /\ UNCHANGED <<invoices, pdfs>> /\ Finalized(I)
  BY DEF DownloadInvoicePdfRead, Begin, tables, Finalized
<1>2. PdfMatchesSnapshot'
  BY <1>1 DEF PdfsOK, PdfMatchesSnapshot, Finalized
<1>3. q.step = "pdfPut" /\ q.invoice = I
  BY DEF Idle
<1>4. BuildSnapshot(q) = snap
  <2>1. snap \in InvoiceSnapshot
    BY <1>1, SnapshotPresent
  <2>2. /\ q.lines = snap.lines /\ q.client = snap.client
        /\ q.settings = snap.settings /\ q.number = snap.number
    BY DEF Idle
  <2> HIDE DEF q, snap
  <2>3. QED
    BY <2>1, <2>2, SMT DEF BuildSnapshot, InvoiceSnapshot
<1> HIDE DEF q
<1>5. requests'[r] = q /\ \A t \in Requests : t # r => requests'[t] = requests[t]
  BY <1>1, SMT DEF Typed, RequestsTyped, CallsTyped
<1>6. DownloadRight(r)'
  BY <1>1, <1>3, <1>4, <1>5 DEF DownloadRight, Finalized
<1>7. \A t \in Requests : t # r => DownloadRight(t)'
  BY <1>1, <1>5, WaitingDownload
<1>8. QED
  BY <1>2, <1>6, <1>7 DEF PdfsOK, DownloadsCarrySnapshot, DownloadRight

\* It renders what it read, which is still the frozen snapshot.
LEMMA DownloadInvoicePdfPutRight ==
  ASSUME PdfsOK, Typed, FinalizedKept, NEW r \in Requests, DownloadInvoicePdfPut(r)
  PROVE  PdfsOK'
<1> DEFINE q == requests[r]
           I == q.invoice
           snap == BuildSnapshot(q)
           q1 == [q EXCEPT !.step = "pdfSetKey"]
<1>1. /\ q.step = "pdfPut" /\ UNCHANGED invoices
      /\ pdfs' = [pdfs EXCEPT ![I] = snap]
      /\ requests' = [requests EXCEPT ![r] = q1]
  BY DEF DownloadInvoicePdfPut, Continue
<1>2. I \in Invoices /\ q \in Request
  BY <1>1, RequestRefers DEF PdfSteps
<1>3. Finalized(I) /\ snap = invoices[I].snapshot
  BY <1>1 DEF PdfsOK, DownloadsCarrySnapshot, PdfSteps
<1>4. snap # None
  BY <1>2, <1>3, SnapshotPresent
<1>5. q1.step = "pdfSetKey" /\ q1.invoice = I
  BY <1>2, SMT DEF Request
<1> HIDE DEF q1, snap
<1>6. pdfs'[I] = snap /\ \A J \in Invoices : J # I => pdfs'[J] = pdfs[J]
  BY <1>1, <1>2, SMT DEF Typed, InvoicesTyped
<1>7. PdfMatchesSnapshot'
  BY <1>1, <1>3, <1>4, <1>6 DEF PdfsOK, PdfMatchesSnapshot, Finalized
<1>8. requests'[r] = q1 /\ \A t \in Requests : t # r => requests'[t] = requests[t]
  BY <1>1, SMT DEF Typed, RequestsTyped, CallsTyped
<1>9. DownloadRight(r)'
  BY <1>1, <1>3, <1>4, <1>5, <1>6, <1>8 DEF DownloadRight, Finalized
<1>10. \A t \in Requests : t # r => DownloadRight(t)'
  BY <1>4, <1>6, <1>8, WaitingDownload
<1>11. QED
  BY <1>7, <1>9, <1>10 DEF PdfsOK, DownloadsCarrySnapshot, DownloadRight

\* It sets the key of an invoice whose document is in the bucket.
LEMMA DownloadInvoicePdfSetKeyRight ==
  ASSUME PdfsOK, Typed, FinalizedKept, NEW r \in Requests, DownloadInvoicePdfSetKey(r)
  PROVE  PdfsOK'
<1> DEFINE I == requests[r].invoice
<1>1. requests[r].step = "pdfSetKey" /\ UNCHANGED pdfs /\ Return(r)
  BY DEF DownloadInvoicePdfSetKey
<1>2. pdfs[I] # None
  BY <1>1 DEF PdfsOK, DownloadsCarrySnapshot
<1>3. \A J \in Invoices : invoices'[J].pdf => J = I \/ invoices[J].pdf
  <2>1. invoices' = invoices \/ invoices' = [invoices EXCEPT ![I].pdf = TRUE]
    BY DEF DownloadInvoicePdfSetKey
  <2>2. QED
    BY <2>1, SMT DEF Typed, InvoicesTyped, Invoice
<1>4. PdfMatchesSnapshot'
  BY <1>1, <1>2, <1>3 DEF PdfsOK, PdfMatchesSnapshot, FinalizedKept, Finalized
<1>5. \A t \in Requests : DownloadRight(t)'
  BY <1>1, ReturnedDownloads, WaitingDownload DEF NoDownload
<1>6. QED
  BY <1>4, <1>5 DEF PdfsOK, DownloadsCarrySnapshot, DownloadRight

\* A PDF key on the row means the bucket holds the document of the frozen
\* snapshot, and no rendering shows anything else, however downloads race or
\* stop and whatever becomes of the project and the settings.
THEOREM PdfsMatch == Spec => []PdfMatchesSnapshot
<1>1. Consistent /\ PdfsOK /\ [Next]_vars => PdfsOK'
  <2> SUFFICES ASSUME Consistent, PdfsOK, [Next]_vars PROVE PdfsOK'
    OBVIOUS
  <2>1. Typed /\ FinalizedKept
    BY ConsistentStep DEF Consistent, Kept
  <2>2. CASE \E r \in Requests : PdfStep(r) \/ \E I \in Invoices : DownloadInvoicePdfRead(r, I)
    BY <2>1, <2>2, DownloadInvoicePdfReadRight, DownloadInvoicePdfPutRight,
       DownloadInvoicePdfSetKeyRight DEF PdfStep
  <2>3. QED
    BY <2>1, <2>2, OtherStepsNoDownload, UntouchedPdfs
<1>2. Init => PdfsOK
  BY SMT DEF Init, PdfsOK, PdfMatchesSnapshot, DownloadsCarrySnapshot, NoInvoice, Idle, PdfSteps
<1>3. PdfsOK => PdfMatchesSnapshot
  BY DEF PdfsOK
<1>4. QED
  BY <1>1, <1>2, <1>3, AlwaysConsistent, PTL DEF Spec

-----------------------------------------------------------------------------
(* What the ledger sees of the tables.                                     *)

Contents == [i \in Items |-> items[i].content]
Placed   == [i \in Items |-> items[i].invoice]
Issues   == [I \in Invoices |->
                IF Finalized(I)
                THEN [number |-> invoices[I].number, lines |-> invoices[I].snapshot.lines]
                ELSE None]

LedgerView == <<Contents, Placed, Issues>>

\* No invoice is issued, and nothing on an issued one changes.
LEMMA IssuesKept ==
  ASSUME LedgerKept
  PROVE  UNCHANGED Issues
BY SMT DEF LedgerKept, FinalizedKept, Finalized, Issues

\* A draft, or an invoice that does not exist, is not issued.
LEMMA NotIssued ==
  ASSUME NEW I, I \in Invoices => ~Finalized(I)
  PROVE  ~Ledger!Issued(I)
BY SMT DEF Ledger!Issued

\* Only a live item has content, and an item that is not live is on no invoice.
LEMMA LiveItems ==
  ASSUME Typed, NEW i \in Items
  PROVE  /\ items[i].state = "live" => items[i].content # None /\ items[i].content \in Amounts
         /\ items[i].content \in Amounts \cup {None}
BY SMT DEF Typed, ItemsTyped, BillableItem, ItemShape

\* A function that differs from another at one point.
LEMMA DiffersAt ==
  ASSUME NEW S, NEW f, NEW g, NEW x, NEW y,
         f = [z \in S |-> f[z]], g = [z \in S |-> g[z]],
         \A z \in S : g[z] = IF z = x THEN y ELSE f[z]
  PROVE  g = [f EXCEPT ![x] = y]
BY SMT

\* The content of one item changes.
LEMMA ContentChanges ==
  ASSUME NEW i \in Items, NEW c,
         \A j \in Items : items'[j].content = IF j = i THEN c ELSE items[j].content
  PROVE  Contents' = [Contents EXCEPT ![i] = c]
<1>1. Contents = [j \in Items |-> Contents[j]] /\ Contents' = [j \in Items |-> Contents'[j]]
  BY DEF Contents
<1>2. \A j \in Items : Contents'[j] = IF j = i THEN c ELSE Contents[j]
  BY DEF Contents
<1>3. QED
  BY <1>1, <1>2, DiffersAt

-----------------------------------------------------------------------------
(* Each write as a step of the ledger.                                     *)

\* createBillableItem records work.
LEMMA CreateBillableItemPutRecords ==
  ASSUME Consistent, NEW r \in Requests, CreateBillableItemPut(r)
  PROVE  \E i \in Items, c \in Amounts : Ledger!Record(i, c)
<1> DEFINE row == [state |-> "live", project |-> requests[r].project,
                   content |-> requests[r].content, invoice |-> None]
<1>1. PICK i \in Items : items[i] = NoItem /\ items' = [items EXCEPT ![i] = row]
  BY DEF CreateBillableItemPut, WriteItems
<1>2. items[i].content = None /\ items[i].invoice = None
  BY <1>1 DEF NoItem
<1>3. row.content = requests[r].content /\ row.invoice = None
  OBVIOUS
<1> HIDE DEF row
<1>4. PICK c \in Amounts : c = requests[r].content
  BY RequestRefers, SMT DEF Consistent, CreateBillableItemPut, Ready, Request
<1>5. UNCHANGED Issues
  BY CreateBillableItemPutOrderly, IssuesKept DEF Consistent
<1>6. \A j \in Items : items'[j] = IF j = i THEN row ELSE items[j]
  BY <1>1, SMT DEF Consistent, Typed, ItemsTyped
<1>7. Contents' = [Contents EXCEPT ![i] = c]
  BY <1>3, <1>4, <1>6, ContentChanges
<1>8. UNCHANGED Placed
  BY <1>2, <1>3, <1>6, SMT DEF Placed
<1>9. Contents[i] = None
  BY <1>2 DEF Contents
<1>10. Ledger!Record(i, c)
  BY <1>5, <1>7, <1>8, <1>9 DEF Ledger!Record, Contents, Placed, Issues
<1>11. QED
  BY <1>4, <1>10

\* updateBillableItem revises work that is on no finalized invoice.
LEMMA UpdateBillableItemWriteRevises ==
  ASSUME Consistent, NEW r \in Requests, UpdateBillableItemWrite(r)
  PROVE  \/ UNCHANGED LedgerView
         \/ \E i \in Items, c \in Amounts : Ledger!Revise(i, c)
<1> DEFINE I == requests[r].invoice
<1>1. UNCHANGED Issues
  BY UpdateBillableItemWriteOrderly, IssuesKept DEF Consistent
<1>2. CASE UNCHANGED items
  BY <1>1, <1>2 DEF LedgerView, Contents, Placed
<1>3. ASSUME NEW i \in requests[r].ids, ItemEditable(i, I),
             items' = [items EXCEPT ![i].content = requests[r].content]
      PROVE  \E j \in Items, d \in Amounts : Ledger!Revise(j, d)
  <2>1. i \in Items
    BY <1>3, RequestRefers DEF Consistent
  <2>2. PICK c \in Amounts : c = requests[r].content
    BY RequestRefers, SMT DEF Consistent, UpdateBillableItemWrite, Ready, Request
  <2>3. \A j \in Items : /\ items'[j].content = IF j = i THEN c ELSE items[j].content
                         /\ items'[j].invoice = items[j].invoice
    BY <1>3, <2>1, <2>2, SMT DEF Consistent, Typed, ItemsTyped, BillableItem
  <2>4. Contents' = [Contents EXCEPT ![i] = c]
    BY <2>1, <2>3, ContentChanges
  <2>5. UNCHANGED Placed
    BY <2>3, SMT DEF Placed
  <2>6. Contents[i] # None /\ Placed[i] = I
    BY <1>3, <2>1, LiveItems DEF Consistent, ItemEditable, Contents, Placed
  <2>7. ~Ledger!Issued(I)
    BY <1>3, NotIssued, NoneIsNoInvoice DEF ItemEditable, Finalized
  <2>8. Ledger!Revise(i, c)
    BY <1>1, <2>4, <2>5, <2>6, <2>7 DEF Ledger!Revise, Contents, Placed, Issues
  <2>9. QED
    BY <2>1, <2>2, <2>8
<1>4. QED
  BY <1>2, <1>3 DEF UpdateBillableItemWrite, WriteItems

\* deleteBillableItem strikes out work that is on no invoice.
LEMMA DeleteBillableItemWriteStrikes ==
  ASSUME Consistent, NEW r \in Requests, DeleteBillableItemWrite(r)
  PROVE  \/ UNCHANGED LedgerView
         \/ \E i \in Items : Ledger!Strike(i)
<1> DEFINE gone == [NoItem EXCEPT !.state = "deleted"]
<1>1. UNCHANGED Issues
  BY DeleteBillableItemWriteOrderly, IssuesKept DEF Consistent
<1>2. CASE UNCHANGED items
  BY <1>1, <1>2 DEF LedgerView, Contents, Placed
<1>3. ASSUME NEW i \in requests[r].ids, items[i].state = "live", items[i].invoice = None,
             items' = [items EXCEPT ![i] = gone]
      PROVE  \E j \in Items : Ledger!Strike(j)
  <2>1. i \in Items
    BY <1>3, RequestRefers DEF Consistent
  <2>2. gone.content = None /\ gone.invoice = None
    BY DEF NoItem
  <2> HIDE DEF gone
  <2>3. \A j \in Items : items'[j] = IF j = i THEN gone ELSE items[j]
    BY <1>3, SMT DEF Consistent, Typed, ItemsTyped
  <2>4. Contents' = [Contents EXCEPT ![i] = None]
    BY <2>1, <2>2, <2>3, ContentChanges
  <2>5. UNCHANGED Placed
    BY <1>3, <2>2, <2>3, SMT DEF Placed
  <2>6. Contents[i] # None /\ Placed[i] = None
    BY <1>3, <2>1, LiveItems DEF Consistent, Contents, Placed
  <2>7. Ledger!Strike(i)
    BY <1>1, <2>4, <2>5, <2>6 DEF Ledger!Strike, Contents, Placed, Issues
  <2>8. QED
    BY <2>1, <2>7
<1>4. QED
  BY <1>2, <1>3 DEF DeleteBillableItemWrite, WriteItems

\* Live, unbilled items given to a draft are attached to an unissued invoice.
LEMMA ReassignedAttaches ==
  ASSUME Typed, NEW I \in Invoices, ~Finalized(I), NEW ids \in SUBSET Items, NEW p,
         Attachable(ids, p), items' = Reassigned(ids, I), UNCHANGED Issues
  PROVE  Ledger!Attach(I, ids)
<1>1. \A i \in Items : /\ items'[i].content = items[i].content
                       /\ items'[i].invoice = IF i \in ids THEN I ELSE items[i].invoice
  BY ReassignedRows
<1>2. UNCHANGED Contents
  BY <1>1, SMT DEF Contents
<1>3. Placed' = [i \in Items |-> IF i \in ids THEN I ELSE Placed[i]]
  BY <1>1, SMT DEF Placed
<1>4. \A i \in ids : Contents[i] # None /\ Placed[i] = None
  BY LiveItems DEF Attachable, Contents, Placed
<1>5. ~Ledger!Issued(I)
  BY NotIssued
<1>6. QED
  BY <1>2, <1>3, <1>4, <1>5 DEF Ledger!Attach, Contents, Placed, Issues

\* Items on a draft that are let go are detached from an unissued invoice.
LEMMA ReassignedDetaches ==
  ASSUME Typed, NEW I \in Invoices, ~Finalized(I), NEW ids \in SUBSET Items,
         OnInvoice(ids, I), items' = Reassigned(ids, None), UNCHANGED Issues
  PROVE  Ledger!Detach(I, ids)
<1>1. \A i \in Items : /\ items'[i].content = items[i].content
                       /\ items'[i].invoice = IF i \in ids THEN None ELSE items[i].invoice
  BY ReassignedRows
<1>2. UNCHANGED Contents
  BY <1>1, SMT DEF Contents
<1>3. Placed' = [i \in Items |-> IF i \in ids THEN None ELSE Placed[i]]
  BY <1>1, SMT DEF Placed
<1>4. \A i \in ids : Placed[i] = I
  BY DEF OnInvoice, Placed
<1>5. ~Ledger!Issued(I)
  BY NotIssued
<1>6. QED
  BY <1>2, <1>3, <1>4, <1>5 DEF Ledger!Detach, Contents, Placed, Issues

\* createInvoice and addInvoiceItems attach what their transactions find
\* unbilled.
LEMMA DraftWritesAttach ==
  ASSUME Consistent, NEW r \in Requests, CreateInvoiceWrite(r) \/ AddInvoiceItemsWrite(r)
  PROVE  \/ UNCHANGED LedgerView
         \/ \E I \in Invoices, ids \in SUBSET Items : Ledger!Attach(I, ids)
<1> DEFINE ids == requests[r].ids
<1>1. UNCHANGED Issues
  BY CreateInvoiceWriteOrderly, AddInvoiceItemsWriteOrderly, IssuesKept DEF Consistent
<1>2. ids \in SUBSET Items
  BY RequestRefers DEF Consistent
<1>3. CASE UNCHANGED items
  BY <1>1, <1>3 DEF LedgerView, Contents, Placed
<1>4. ASSUME ~ UNCHANGED items
      PROVE  \E I \in Invoices : /\ ~Finalized(I)
                                 /\ Attachable(ids, requests[r].project)
                                 /\ items' = Reassigned(ids, I)
  <2>1. CASE CreateInvoiceWrite(r)
    <3>1. PICK I \in Invoices : /\ invoices[I] = NoInvoice
                                /\ Attachable(ids, requests[r].project)
                                /\ items' = Reassigned(ids, I)
      BY <1>4, <2>1 DEF CreateInvoiceWrite, WriteItems
    <3>2. ~Finalized(I)
      BY <3>1 DEF Finalized, NoInvoice
    <3>3. QED
      BY <3>1, <3>2
  <2>2. CASE AddInvoiceItemsWrite(r)
    <3>1. requests[r].invoice \in Invoices
      BY <2>2, RequestRefers DEF Consistent, AddInvoiceItemsWrite, DraftSteps
    <3>2. QED
      BY <1>4, <2>2, <3>1 DEF AddInvoiceItemsWrite, WriteItems, DraftAt, Finalized
  <2>3. QED
    BY <2>1, <2>2
<1>5. QED
  BY <1>1, <1>2, <1>3, <1>4, ReassignedAttaches DEF Consistent

\* removeInvoiceItems and deleteInvoice detach what their transactions find
\* on the draft.
LEMMA DraftWritesDetach ==
  ASSUME Consistent, NEW r \in Requests, RemoveInvoiceItemsWrite(r) \/ DeleteInvoiceWrite(r)
  PROVE  \/ UNCHANGED LedgerView
         \/ \E I \in Invoices, ids \in SUBSET Items : Ledger!Detach(I, ids)
<1> DEFINE I == requests[r].invoice
<1>1. UNCHANGED Issues
  BY RemoveInvoiceItemsWriteOrderly, DeleteInvoiceWriteOrderly, IssuesKept DEF Consistent
<1>2. CASE UNCHANGED items
  BY <1>1, <1>2 DEF LedgerView, Contents, Placed
<1>3. I \in Invoices /\ requests[r].ids \in SUBSET Items /\ requests[r].held \in SUBSET Items
  BY RequestRefers DEF Consistent, RemoveInvoiceItemsWrite, DeleteInvoiceWrite, DraftSteps
<1>4. ASSUME ~ UNCHANGED items
      PROVE  \E ids \in SUBSET Items : /\ ~Finalized(I) /\ OnInvoice(ids, I)
                                       /\ items' = Reassigned(ids, None)
  BY <1>3, <1>4
     DEF RemoveInvoiceItemsWrite, DeleteInvoiceWrite, WriteItems, DraftAt, Finalized
<1>5. QED
  BY <1>1, <1>2, <1>3, <1>4, ReassignedDetaches DEF Consistent

\* A number in a resolver's hands fits the u32 of the invoice.
NumbersFit ==
    \A r \in Requests : requests[r].step = "finalizeWrite" => requests[r].number <= MaxNumber

\* finalizeInvoice issues the invoice: with the items on it, as they are at
\* the write, under a number that no finalized invoice has.
LEMMA FinalizeInvoiceWriteIssues ==
  ASSUME NumbersOK, NumbersFit, NEW r \in Requests, FinalizeInvoiceWrite(r)
  PROVE  \/ UNCHANGED LedgerView
         \/ \E I \in Invoices, n \in 0..MaxNumber : Ledger!Issue(I, n)
<1> DEFINE q == requests[r]
           I == q.invoice
           billed == {i \in Items : Placed[i] = I}
<1>1. Typed /\ MembershipAgrees /\ ReadsHold /\ UNCHANGED items /\ q.step = "finalizeWrite"
  BY DEF NumbersOK, Consistent, FinalizeInvoiceWrite
<1>2. UNCHANGED <<Contents, Placed>>
  BY <1>1 DEF Contents, Placed
<1>3. PICK n \in 0..MaxNumber : n = q.number
  <2>1. q.number \in Nat /\ q.number <= MaxNumber /\ MaxNumber \in Nat
    BY <1>1, RequestRefers, BoundsAssumption, SMT DEF NumbersFit, Request
  <2>2. QED
    BY <2>1, SMT
<1>4. CASE ~DraftAt(I, q.version)
  <2>1. UNCHANGED invoices
    BY <1>4 DEF FinalizeInvoiceWrite
  <2>2. QED
    BY <1>2, <2>1 DEF LedgerView, Issues, Finalized
<1>5. CASE DraftAt(I, q.version)
  <2>1. /\ I \in Invoices /\ invoices[I].status = "draft"
        /\ invoices'[I].status = "finalized"
        /\ invoices'[I].number = n
        /\ invoices'[I].snapshot = BuildSnapshot(q)
        /\ \A J \in Invoices : J # I => invoices'[J] = invoices[J]
    BY <1>1, <1>3, <1>5, FinalizedRow
  <2>2. q \in Request /\ q.held # {} /\ DOMAIN q.lines = q.held
    BY <1>1, RequestRefers DEF Ready, FinalizeSteps
  <2>3. /\ q.held = invoices[I].items
        /\ \A i \in DOMAIN q.lines : items[i].content = q.lines[i]
    BY <1>1, <1>5 DEF ReadsHold, ReadHolds, DraftSteps, FinalizeSteps
  <2>4. billed = q.held
    <3>1. invoices[I].items \subseteq Items
      BY <1>1, <2>1, SMT DEF Typed, InvoicesTyped, Invoice
    <3>2. QED
      BY <1>1, <2>1, <2>3, <3>1 DEF MembershipAgrees, Placed
  <2>5. q.lines = [i \in billed |-> Contents[i]]
    <3>1. q.lines = [i \in DOMAIN q.lines |-> q.lines[i]]
      BY <2>2, SMT DEF Request, LineSets
    <3>2. \A i \in billed : Contents[i] = q.lines[i]
      BY <2>2, <2>3, <2>4 DEF Contents
    <3> HIDE DEF billed
    <3>3. QED
      BY <2>2, <2>4, <3>1, <3>2
  <2>6. invoices'[I].snapshot.lines = q.lines
    BY <2>1 DEF BuildSnapshot
  <2>7. Issues' = [Issues EXCEPT ![I] = [number |-> n, lines |-> q.lines]]
    <3> DEFINE entry == [number |-> n, lines |-> q.lines]
    <3>1. Issues = [J \in Invoices |-> Issues[J]] /\ Issues' = [J \in Invoices |-> Issues'[J]]
      BY DEF Issues
    <3>2. Issues'[I] = entry
      BY <2>1, <2>6 DEF Issues, Finalized
    <3>3. \A J \in Invoices : J # I => Issues'[J] = Issues[J]
      BY <2>1 DEF Issues, Finalized
    <3> HIDE DEF entry
    <3>4. Issues' = [Issues EXCEPT ![I] = entry]
      BY <3>1, <3>2, <3>3, DiffersAt
    <3>5. QED
      BY <3>4 DEF entry
  <2>8. ~Ledger!Issued(I)
    BY <2>1, NotIssued DEF Finalized
  <2>9. \A J \in Invoices : Ledger!Issued(J) => Issues[J].number # n \/ n = MaxNumber
    <3>1. \A J \in Invoices : Ledger!Issued(J) =>
             Finalized(J) /\ Issues[J].number = invoices[J].number
      BY SMT DEF Ledger!Issued, Issues
    <3>2. QED
      BY <1>1, <1>3, <3>1 DEF NumbersOK, NumbersHandedOut
  <2>10. billed # {}
    BY <2>2, <2>4
  <2>11. Issues' = [Issues EXCEPT ![I] = [number |-> n,
                                          lines  |-> [i \in billed |-> Contents[i]]]]
    BY <2>5, <2>7
  <2>12. Ledger!Issue(I, n)
    BY <1>2, <2>8, <2>9, <2>10, <2>11
       DEF Ledger!Issue, Ledger!work, Contents, Placed, Issues
  <2>13. QED
    BY <2>1, <2>12
<1>6. QED
  BY <1>4, <1>5

-----------------------------------------------------------------------------
(* Every step.                                                             *)

\* The writes that change the rows of items.
ItemWrite(r) ==
    \/ CreateBillableItemPut(r) \/ UpdateBillableItemWrite(r) \/ DeleteBillableItemWrite(r)
    \/ CreateInvoiceWrite(r) \/ AddInvoiceItemsWrite(r)
    \/ RemoveInvoiceItemsWrite(r) \/ DeleteInvoiceWrite(r)

\* No other step writes an item.
LEMMA ItemsWritten ==
  ASSUME [Next]_vars
  PROVE  UNCHANGED items \/ \E r \in Requests : ItemWrite(r)
<1>1. CASE UNCHANGED vars
  BY <1>1 DEF vars
<1>2. CASE OneWrite
  BY <1>2 DEF OneWrite, CreateProject, UpdateProject, UpdateInvoicingSettings,
              SetNextInvoiceNumber, SetInvoicePaid
<1>3. ASSUME NEW r \in Requests, ItemCall(r) \/ InvoiceCall(r) \/ Stop(r) PROVE UNCHANGED items
  <2>1. UNCHANGED tables
    BY <1>3, ZenonT(60) DEF ItemCall, InvoiceCall, Stop, CreateBillableItemCheck, UpdateBillableItemRead,
       DeleteBillableItemRead, CreateInvoiceCheck, AddInvoiceItemsRead, RemoveInvoiceItemsRead,
       DeleteInvoiceRead, FinalizeInvoiceRead, ReadDraft, DownloadInvoicePdfRead
  <2>2. QED
    BY <2>1 DEF tables
<1>4. ASSUME NEW r \in Requests, ItemStep(r) \/ DraftStep(r)
      PROVE  UNCHANGED items \/ ItemWrite(r)
  BY <1>4 DEF ItemStep, DraftStep, ItemWrite, tables, UpdateBillableItemReadInvoice,
     AddInvoiceItemsCheck
<1>5. ASSUME NEW r \in Requests, FinalizeStep(r) \/ PdfStep(r) PROVE UNCHANGED items
  BY <1>5 DEF FinalizeStep, PdfStep, tables, FinalizeInvoiceReadItem, FinalizeInvoiceReadDetails,
     FinalizeInvoiceAllocate, FinalizeInvoiceAllocateLost, FinalizeInvoiceWrite,
     DownloadInvoicePdfPut, DownloadInvoicePdfSetKey
<1>6. QED
  BY <1>1, <1>2, <1>3, <1>4, <1>5 DEF Next

\* Every step of every resolver is one of the ledger, or none.
LEMMA StepIsLedgerStep ==
  ASSUME NumbersOK, NumbersFit, [Next]_vars
  PROVE  [Ledger!Next]_LedgerView
<1>1. Consistent /\ Kept
  BY ConsistentStep DEF NumbersOK
<1>2. ASSUME NEW r \in Requests, ItemWrite(r) PROVE UNCHANGED LedgerView \/ Ledger!Next
  BY <1>1, <1>2, CreateBillableItemPutRecords, UpdateBillableItemWriteRevises,
     DeleteBillableItemWriteStrikes, DraftWritesAttach, DraftWritesDetach
     DEF ItemWrite, Ledger!Next
<1>3. ASSUME NEW r \in Requests, FinalizeInvoiceWrite(r)
      PROVE  UNCHANGED LedgerView \/ Ledger!Next
  BY <1>3, FinalizeInvoiceWriteIssues DEF Ledger!Next
<1>4. ASSUME UNCHANGED items, LedgerKept PROVE UNCHANGED LedgerView
  BY <1>4, IssuesKept DEF LedgerView, Contents, Placed
<1>5. QED
  BY <1>1, <1>2, <1>3, <1>4, ItemsWritten DEF Kept

\* The number that a resolver takes is a u32.
LEMMA NumbersFitStep ==
  ASSUME NumbersOK, NumbersFit, [Next]_vars
  PROVE  NumbersFit'
<1>1. Kept /\ Consistent
  BY ConsistentStep DEF NumbersOK
<1>2. CASE NoneAllocated
  BY <1>2 DEF NoneAllocated, NumbersFit
<1>3. ASSUME NEW r \in Requests, FinalizeInvoiceAllocate(r) PROVE NumbersFit'
  <2> DEFINE q == requests[r]
             n == AsNumber(counter + 1)
             q1 == [q EXCEPT !.step = "finalizeWrite", !.number = n]
  <2>1. requests' = [requests EXCEPT ![r] = Idle] \/ requests' = [requests EXCEPT ![r] = q1]
    BY <1>3 DEF FinalizeInvoiceAllocate, Return, Continue
  <2>2. q \in Request
    BY <1>1, RequestRefers DEF Consistent
  <2>3. q1.number = n /\ Idle.step # "finalizeWrite"
    BY <2>2, SMT DEF Request, Idle
  <2>4. n <= MaxNumber
    BY <1>1, BoundsAssumption, SMT DEF AsNumber, Consistent, Typed, InvoicesTyped
  <2> HIDE DEF q1, n
  <2>5. \A t \in Requests : requests'[t] \in {requests[t], Idle, q1}
    BY <1>1, <2>1, SMT DEF Consistent, Typed, RequestsTyped, CallsTyped
  <2>6. QED
    BY <2>3, <2>4, <2>5 DEF NumbersFit
<1>4. QED
  BY <1>1, <1>2, <1>3 DEF Kept

\* Before the first call nothing is on an invoice, and none is issued.
LEMMA InitIsLedgerInit == Init => Ledger!Init
<1> SUFFICES ASSUME Init PROVE Ledger!Init
  OBVIOUS
<1>1. \A i \in Items : items[i].content \in Amounts \cup {None} /\ items[i].invoice = None
  BY InitTyped, LiveItems, SMT DEF Init, NoItem
<1>2. \A I \in Invoices : ~Finalized(I)
  BY SMT DEF Init, NoInvoice, Finalized
<1>3. Contents \in [Items -> Amounts \cup {None}] /\ Placed = [i \in Items |-> None]
  BY <1>1 DEF Contents, Placed
<1>4. Issues = [I \in Invoices |-> None]
  BY <1>2 DEF Issues
<1>5. QED
  BY <1>3, <1>4 DEF Ledger!Init, Contents, Placed, Issues

\* To a reader of the tables every mutation of mutations.rs, with its stale
\* reads, versions, resent updates and stops between storage calls, is one
\* atomic operation on a ledger that happens at its conditional write, or none.
THEOREM LedgerImplemented == Spec => ImplementsLedger
<1>1. Init => NumbersOK /\ NumbersFit
  <2> SUFFICES ASSUME Init PROVE NumbersOK /\ NumbersFit
    OBVIOUS
  <2>1. \A I \in Invoices : ~Finalized(I)
    BY SMT DEF Init, NoInvoice, Finalized
  <2>2. \A r \in Requests : requests[r].step # "finalizeWrite"
    BY SMT DEF Init, Idle
  <2>3. QED
    BY <2>1, <2>2, InitConsistent DEF NumbersOK, UniqueNumbers, NumbersHandedOut, NumbersFit
<1>2. NumbersOK /\ NumbersFit /\ [Next]_vars => NumbersOK' /\ NumbersFit'
  BY NumbersStep, NumbersFitStep
<1>3. NumbersOK /\ NumbersFit /\ [Next]_vars => [Ledger!Next]_LedgerView
  BY StepIsLedgerStep
<1>4. QED
  BY <1>1, <1>2, <1>3, InitIsLedgerInit, PTL
     DEF Spec, ImplementsLedger, Ledger!Spec, LedgerView, Contents, Placed, Issues
=============================================================================
