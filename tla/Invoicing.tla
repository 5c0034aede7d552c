----------------------------- MODULE Invoicing -----------------------------
(***************************************************************************)
(* Billable items, draft and finalized invoices, the invoice number        *)
(* counter, and the rendered PDFs of one invoicing instance: the           *)
(* resolvers of api/src/graphql/mutations.rs together with the DynamoDB    *)
(* writes of api/src/dynamodb.rs they end in.                              *)
(*                                                                         *)
(* Every resolver runs in its own Lambda invocation, so any number of them *)
(* interleave, and each is a sequence of separate storage calls.  An       *)
(* action below is one storage call (or several in a row of which at most  *)
(* the last depends on the present state) with the checks that follow it,  *)
(* up to the next call.  What the resolver carries from one call to the    *)
(* next is its record in  requests.  A conditional write and a             *)
(* TransactWriteItems are one atomic action with the condition expression  *)
(* as its test.                                                            *)
(*                                                                         *)
(* Reads come in two strengths.  Invoices, and the items of the invoice    *)
(* being finalized, are read with ConsistentRead and return the present    *)
(* row.  All other reads (get_records) are eventually consistent and may   *)
(* return any value the row has had: those are the sets in itemSeen,       *)
(* projectSeen and settingsSeen.                                           *)
(***************************************************************************)
EXTENDS Money, FiniteSets

CONSTANTS
    Items,           \* ids a billable item may get
    Invoices,        \* ids an invoice may get
    Projects,        \* ids a project may get
    Clients,         \* client details a project may carry (name, ABN, ...)
    Amounts,         \* line amounts an item's date, text, quantity, price come to
    Requests,        \* invocations that may be in flight at once
    None,            \* an absent optional attribute
    Opened,          \* projects that exist initially
    Recorded,        \* items recorded, and unbilled, initially
    Offered,         \* the mutations clients call
    MaxRequests,     \* bound: calls (and lost-response retries) in a behaviour
    MaxInvoiceItems, \* MAX_INVOICE_ITEMS
    MaxTotal,        \* money::MAX_SAFE_TOTAL_CENTS
    MaxNumber,       \* u32::MAX
    MaxNext          \* i32::MAX, the largest argument of setNextInvoiceNumber

ASSUME IdsAssumption ==
    /\ None \notin Items \cup Invoices \cup Projects \cup Clients \cup Amounts
    /\ Opened \subseteq Projects
    /\ Recorded \subseteq Items
    /\ Opened # {} \/ Recorded = {}
    /\ IsFiniteSet(Items)
ASSUME BoundsAssumption ==
    /\ Amounts \subseteq Nat
    /\ {MaxRequests, MaxInvoiceItems, MaxTotal, MaxNumber, MaxNext} \subseteq Nat

VARIABLES
    items,        \* the billable_item table
    invoices,     \* the invoice table
    projects,     \* the project table
    settings,     \* the invoicing settings on the instance row
    counter,      \* next_invoice_number of the instance's counter row
    pdfs,         \* the S3 object under each invoice's PDF key
    requests,     \* the resolvers in flight
    started,      \* how many calls have been made
    itemSeen,     \* every row each item has had: what a stale read may return
    projectSeen,  \* the same for each project
    settingsSeen  \* the same for the settings

tables == <<items, invoices, projects, settings, counter, pdfs>>
seen   == <<itemSeen, projectSeen, settingsSeen>>
vars   == <<items, invoices, projects, settings, counter, pdfs,
            requests, started, itemSeen, projectSeen, settingsSeen>>

-----------------------------------------------------------------------------
(* Rows                                                                    *)

\* A billable item; invoice is None while it is unbilled.
BillableItem == [state   : {"unborn", "live", "deleted"},
                 project : Projects \cup {None},
                 content : Amounts \cup {None},
                 invoice : Invoices \cup {None}]

\* The line amounts of some set of items.
LineSets == UNION {[S -> Amounts] : S \in SUBSET Items}
NoLines  == [i \in {} |-> 0]

\* What the invoicing settings decide: is business_name set, is GST charged.
InvoicingSettings == [named : BOOLEAN, gst : BOOLEAN]

\* The frozen printable content of a finalized invoice.
InvoiceSnapshot == [lines    : LineSets,
                    client   : Clients,
                    settings : InvoicingSettings,
                    number   : Nat]

\* No real snapshot is the absent one.
ASSUME SnapshotAssumption == None \notin InvoiceSnapshot

Invoice == [status   : {"none", "draft", "finalized", "deleted"},
            project  : Projects \cup {None},
            items    : SUBSET Items,
            version  : Nat,
            number   : Nat,
            snapshot : InvoiceSnapshot \cup {None},
            paid     : BOOLEAN,
            pdf      : BOOLEAN]

Project == [client : Clients \cup {None}, archived : BOOLEAN]

NoItem    == [state |-> "unborn", project |-> None, content |-> None, invoice |-> None]
NoInvoice == [status |-> "none", project |-> None, items |-> {}, version |-> 0,
              number |-> 0, snapshot |-> None, paid |-> FALSE, pdf |-> FALSE]
NoProject == [client |-> None, archived |-> FALSE]

-----------------------------------------------------------------------------
(* Requests                                                                *)

\* The storage call a resolver makes next.
Steps == {"idle",
          "createItemPut", "updateItemReadInvoice", "updateItemWrite",
          "deleteItemWrite", "createInvoiceWrite",
          "addItemsCheck", "addItemsWrite", "removeItemsWrite",
          "deleteInvoiceWrite",
          "finalizeReadItems", "finalizeAllocate", "finalizeWrite",
          "pdfPut", "pdfSetKey"}

\* What a resolver holds: its arguments and what its reads returned.
Request == [step     : Steps,
            ids      : SUBSET Items,            \* the items it was given
            content  : Amounts \cup {None},     \* the item fields it was given
            project  : Projects \cup {None},
            invoice  : Invoices \cup {None},
            version  : Nat,                     \* the invoice version it read
            held     : SUBSET Items,            \* the item_ids it read
            lines    : LineSets,                \* the items it read
            client   : Clients \cup {None},     \* the project details it read
            settings : InvoicingSettings,       \* the settings it read
            number   : Nat]                     \* the number it allocated

Idle == [step |-> "idle", ids |-> {}, content |-> None, project |-> None,
         invoice |-> None, version |-> 0, held |-> {}, lines |-> NoLines,
         client |-> None, settings |-> [named |-> FALSE, gst |-> FALSE],
         number |-> 0]

\* A client calls the mutation op, one more of the MaxRequests calls.
Call(op) ==
    /\ op \in Offered
    /\ started < MaxRequests
    /\ started' = started + 1

\* The call starts a resolver that goes on to another storage call.
Begin(r, op, request) ==
    /\ requests[r] = Idle
    /\ Call(op)
    /\ requests' = [requests EXCEPT ![r] = request]

Continue(r, request) ==
    /\ requests' = [requests EXCEPT ![r] = request]
    /\ UNCHANGED started

\* The resolver returns, with its result or with CONFLICT.
Return(r) == Continue(r, Idle)

WriteItems(new) ==
    /\ items' = new
    /\ itemSeen' = [i \in Items |-> itemSeen[i] \cup {new[i]}]

-----------------------------------------------------------------------------
(* Projects and settings                                                   *)

\* createProject.
CreateProject(p, client) ==
    /\ projects[p] = NoProject
    /\ Call("createProject")
    /\ projects' = [projects EXCEPT ![p].client = client]
    /\ projectSeen' = [projectSeen EXCEPT ![p] = @ \cup {projects'[p]}]
    /\ UNCHANGED <<items, invoices, settings, counter, pdfs, requests, itemSeen, settingsSeen>>

\* updateProject: a full replace, archived included.
UpdateProject(p, client, archived) ==
    /\ projects[p] # NoProject
    /\ Call("updateProject")
    /\ projects' = [projects EXCEPT ![p] = [client |-> client, archived |-> archived]]
    /\ projectSeen' = [projectSeen EXCEPT ![p] = @ \cup {projects'[p]}]
    /\ UNCHANGED <<items, invoices, settings, counter, pdfs, requests, itemSeen, settingsSeen>>

\* updateInvoicingSettings: a full replace; a blank business name clears it.
UpdateInvoicingSettings(new) ==
    /\ Call("updateInvoicingSettings")
    /\ settings' = new
    /\ settingsSeen' = settingsSeen \cup {new}
    /\ UNCHANGED <<items, invoices, projects, counter, pdfs, requests, itemSeen, projectSeen>>

-----------------------------------------------------------------------------
(* Billable items                                                          *)

\* createBillableItem reads the project, which must not be archived ...
CreateBillableItemCheck(r, p, content) ==
    /\ \E row \in projectSeen[p] : row.client # None /\ ~row.archived
    /\ Begin(r, "createBillableItem",
             [Idle EXCEPT !.step = "createItemPut", !.project = p, !.content = content])
    /\ UNCHANGED <<tables, seen>>

\* ... and puts the row under a fresh id.
CreateBillableItemPut(r) ==
    /\ requests[r].step = "createItemPut"
    /\ \E i \in Items :
          /\ items[i] = NoItem
          /\ WriteItems([items EXCEPT ![i] = [state   |-> "live",
                                              project |-> requests[r].project,
                                              content |-> requests[r].content,
                                              invoice |-> None]])
    /\ Return(r)
    /\ UNCHANGED <<invoices, projects, settings, counter, pdfs, projectSeen, settingsSeen>>

\* updateBillableItem reads the item, to learn whether it is on an invoice.
UpdateBillableItemRead(r, i, content) ==
    /\ \E row \in itemSeen[i] :
          /\ row.state = "live"
          /\ Begin(r, "updateBillableItem",
                   [Idle EXCEPT !.step = IF row.invoice = None
                                         THEN "updateItemWrite"
                                         ELSE "updateItemReadInvoice",
                                !.ids = {i}, !.content = content,
                                !.invoice = row.invoice])
    /\ UNCHANGED <<tables, seen>>

\* If so the invoice must be a draft.
UpdateBillableItemReadInvoice(r) ==
    /\ requests[r].step = "updateItemReadInvoice"
    /\ invoices[requests[r].invoice].status = "draft"
    /\ Continue(r, [requests[r] EXCEPT !.step = "updateItemWrite"])
    /\ UNCHANGED <<tables, seen>>

\* Mutated: the transaction does not check that the invoice is still a draft.
ItemEditable_OnAnyInvoice(i, I) ==
    items[i].state = "live" /\ items[i].invoice = I

\* The condition of update_billable_item's write: the item is still on the
\* invoice it was read on (or on none), and that invoice is still a draft.
ItemEditable(i, I) ==
    /\ items[i].state = "live"
    /\ items[i].invoice = I
    /\ I # None => invoices[I].status = "draft"

\* The write, which bumps the draft's version in the same transaction.
UpdateBillableItemWrite(r) ==
    LET I == requests[r].invoice IN
    /\ requests[r].step = "updateItemWrite"
    /\ \E i \in requests[r].ids :
          IF ItemEditable(i, I)
          THEN /\ WriteItems([items EXCEPT ![i].content = requests[r].content])
               /\ invoices' = IF I = None THEN invoices
                              ELSE [invoices EXCEPT ![I].version = @ + 1]
          ELSE UNCHANGED <<items, itemSeen, invoices>>
    /\ Return(r)
    /\ UNCHANGED <<projects, settings, counter, pdfs, projectSeen, settingsSeen>>

\* deleteBillableItem reads the item, which must be unbilled ...
DeleteBillableItemRead(r, i) ==
    /\ \E row \in itemSeen[i] : row.state = "live" /\ row.invoice = None
    /\ Begin(r, "deleteBillableItem",
             [Idle EXCEPT !.step = "deleteItemWrite", !.ids = {i}])
    /\ UNCHANGED <<tables, seen>>

\* ... and deletes it if it still is.
DeleteBillableItemWrite(r) ==
    /\ requests[r].step = "deleteItemWrite"
    /\ \E i \in requests[r].ids :
          IF items[i].state = "live" /\ items[i].invoice = None
          THEN WriteItems([items EXCEPT ![i] = [NoItem EXCEPT !.state = "deleted"]])
          ELSE UNCHANGED <<items, itemSeen>>
    /\ Return(r)
    /\ UNCHANGED <<invoices, projects, settings, counter, pdfs, projectSeen, settingsSeen>>

-----------------------------------------------------------------------------
(* Draft invoices                                                          *)

\* fetch_eligible_items: what a stale read of ids may return that is live,
\* unbilled and of project p; an element gives each item's amount.
EligibleReads(p, ids) ==
    {lines \in [ids -> Amounts] :
        \A i \in ids : [state |-> "live", project |-> p, content |-> lines[i],
                        invoice |-> None] \in itemSeen[i]}

\* A stale read of items already on the invoice; a row it misses counts nothing.
HeldReads(held) ==
    {lines \in [held -> Amounts \cup {0}] :
        \A i \in held : \E row \in itemSeen[i] :
            lines[i] = IF row.state = "live" THEN row.content ELSE 0}

\* Mutated: the total forgets the GST.
TotalFits_Subtotal(lines, gst) == subtotal_cents(lines) <= MaxTotal

\* check_invoice_total_within_safe_integer
TotalFits(lines, gst) == total_cents(lines, gst) <= MaxTotal

\* Mutated: the transaction does not require an item to be unbilled.
Attachable_EvenIfBilled(ids, p) ==
    \A i \in ids : items[i].state = "live" /\ items[i].project = p

\* The per-item condition of the attaching transactions.
Attachable(ids, p) ==
    \A i \in ids : /\ items[i].state = "live"
                   /\ items[i].invoice = None
                   /\ items[i].project = p

\* Mutated: the condition does not compare the version.
DraftAt_AnyVersion(I, version) == invoices[I].status = "draft"

\* Mutated: the condition only asks that the row exists.
DraftAt_RowExists(I, version) == invoices[I].status \in {"draft", "finalized"}

\* The condition on the invoice row of every write to a draft.
DraftAt(I, version) ==
    /\ invoices[I].status = "draft"
    /\ invoices[I].version = version

\* Every item row of ids with its invoice_id set to I, or removed (I = None).
Reassigned(ids, I) ==
    [i \in Items |-> IF i \in ids THEN [items[i] EXCEPT !.invoice = I] ELSE items[i]]

\* createInvoice reads the project, the items and the instance ...
CreateInvoiceCheck(r, p, ids) ==
    /\ ids # {}
    /\ Cardinality(ids) <= MaxInvoiceItems
    /\ \E row \in projectSeen[p] : row.client # None
    /\ \E lines \in EligibleReads(p, ids), s \in settingsSeen : TotalFits(lines, s.gst)
    /\ Begin(r, "createInvoice",
             [Idle EXCEPT !.step = "createInvoiceWrite", !.project = p, !.ids = ids])
    /\ UNCHANGED <<tables, seen>>

\* ... and puts the draft and attaches the items in one transaction.
CreateInvoiceWrite(r) ==
    LET ids == requests[r].ids
        p   == requests[r].project IN
    /\ requests[r].step = "createInvoiceWrite"
    /\ IF Attachable(ids, p)
       THEN \E I \in Invoices :
              /\ invoices[I] = NoInvoice
              /\ invoices' = [invoices EXCEPT ![I] = [NoInvoice EXCEPT !.status = "draft",
                                                                       !.project = p,
                                                                       !.items = ids,
                                                                       !.version = 1]]
              /\ WriteItems(Reassigned(ids, I))
       ELSE UNCHANGED <<items, itemSeen, invoices>>
    /\ Return(r)
    /\ UNCHANGED <<projects, settings, counter, pdfs, projectSeen, settingsSeen>>

\* Every mutation of a draft first reads the invoice (require_invoice_member)
\* and keeps what it will need of the row.
ReadDraft(r, op, I, ids, step) ==
    /\ invoices[I].status = "draft"
    /\ Begin(r, op, [Idle EXCEPT !.step = step, !.invoice = I, !.ids = ids,
                                 !.project = invoices[I].project,
                                 !.version = invoices[I].version,
                                 !.held = invoices[I].items])
    /\ UNCHANGED <<tables, seen>>

\* addInvoiceItems
AddInvoiceItemsRead(r, I, ids) ==
    /\ ids # {}
    /\ ids \cap invoices[I].items = {}
    /\ Cardinality(invoices[I].items) + Cardinality(ids) <= MaxInvoiceItems
    /\ ReadDraft(r, "addInvoiceItems", I, ids, "addItemsCheck")

AddInvoiceItemsCheck(r) ==
    LET held == requests[r].held
        ids  == requests[r].ids IN
    /\ requests[r].step = "addItemsCheck"
    /\ \E new \in EligibleReads(requests[r].project, ids), old \in HeldReads(held),
          s \in settingsSeen :
          TotalFits([i \in held \cup ids |-> IF i \in ids THEN new[i] ELSE old[i]], s.gst)
    /\ Continue(r, [requests[r] EXCEPT !.step = "addItemsWrite"])
    /\ UNCHANGED <<tables, seen>>

AddInvoiceItemsWrite(r) ==
    LET ids == requests[r].ids
        I   == requests[r].invoice IN
    /\ requests[r].step = "addItemsWrite"
    /\ IF DraftAt(I, requests[r].version) /\ Attachable(ids, requests[r].project)
       THEN /\ invoices' = [invoices EXCEPT ![I].items = @ \cup ids,
                                            ![I].version = @ + 1]
            /\ WriteItems(Reassigned(ids, I))
       ELSE UNCHANGED <<items, itemSeen, invoices>>
    /\ Return(r)
    /\ UNCHANGED <<projects, settings, counter, pdfs, projectSeen, settingsSeen>>

\* The per-item condition of the detaching transactions.
OnInvoice(ids, I) ==
    \A i \in ids : items[i].state = "live" /\ items[i].invoice = I

\* removeInvoiceItems
RemoveInvoiceItemsRead(r, I, ids) ==
    /\ ids # {}
    /\ ids \subseteq invoices[I].items
    /\ ReadDraft(r, "removeInvoiceItems", I, ids, "removeItemsWrite")

RemoveInvoiceItemsWrite(r) ==
    LET ids == requests[r].ids
        I   == requests[r].invoice IN
    /\ requests[r].step = "removeItemsWrite"
    /\ IF DraftAt(I, requests[r].version) /\ OnInvoice(ids, I)
       THEN /\ invoices' = [invoices EXCEPT ![I].items = @ \ ids,
                                            ![I].version = @ + 1]
            /\ WriteItems(Reassigned(ids, None))
       ELSE UNCHANGED <<items, itemSeen, invoices>>
    /\ Return(r)
    /\ UNCHANGED <<projects, settings, counter, pdfs, projectSeen, settingsSeen>>

\* deleteInvoice: detaches the items it read on the invoice and deletes it.
DeleteInvoiceRead(r, I) ==
    ReadDraft(r, "deleteInvoice", I, {}, "deleteInvoiceWrite")

DeleteInvoiceWrite(r) ==
    LET held == requests[r].held
        I    == requests[r].invoice IN
    /\ requests[r].step = "deleteInvoiceWrite"
    /\ IF DraftAt(I, requests[r].version) /\ OnInvoice(held, I)
       THEN /\ invoices' = [invoices EXCEPT ![I] = [NoInvoice EXCEPT !.status = "deleted"]]
            /\ WriteItems(Reassigned(held, None))
       ELSE UNCHANGED <<items, itemSeen, invoices>>
    /\ Return(r)
    /\ UNCHANGED <<projects, settings, counter, pdfs, projectSeen, settingsSeen>>

-----------------------------------------------------------------------------
(* Finalizing                                                              *)

\* Step 1: the draft, which must have items.
FinalizeInvoiceRead(r, I) ==
    /\ invoices[I].items # {}
    /\ ReadDraft(r, "finalizeInvoice", I, {}, "finalizeReadItems")

\* Step 2: a BatchGetItem reads each row at a moment of its own; every row
\* must still point back at the invoice.
FinalizeInvoiceReadItem(r, i) ==
    LET q == requests[r] IN
    /\ q.step = "finalizeReadItems"
    /\ i \in q.held \ DOMAIN q.lines
    /\ OnInvoice({i}, q.invoice)
    /\ Continue(r, [q EXCEPT !.lines = [j \in DOMAIN q.lines \cup {i} |->
                                           IF j = i THEN items[i].content ELSE q.lines[j]]])
    /\ UNCHANGED <<tables, seen>>

\* Step 3: the project and the instance, whose business name must be set.
FinalizeInvoiceReadDetails(r) ==
    LET q == requests[r] IN
    /\ q.step = "finalizeReadItems"
    /\ DOMAIN q.lines = q.held
    /\ \E row \in projectSeen[q.project], s \in settingsSeen :
          /\ row.client # None
          /\ s.named
          /\ Continue(r, [q EXCEPT !.step = "finalizeAllocate",
                                   !.client = row.client, !.settings = s])
    /\ UNCHANGED <<tables, seen>>

\* The u64 the counter returns, as the u32 an invoice stores.
AsNumber(n) == IF n <= MaxNumber THEN n ELSE MaxNumber

\* Steps 4 and 5: take a number, then build the snapshot and check its total.
\* A total that is too large fails the call here, with the number gone.
FinalizeInvoiceAllocate(r) ==
    LET q == requests[r] IN
    /\ q.step = "finalizeAllocate"
    /\ counter' = counter + 1
    /\ IF TotalFits(q.lines, q.settings.gst)
       THEN Continue(r, [q EXCEPT !.step = "finalizeWrite", !.number = AsNumber(counter + 1)])
       ELSE Return(r)
    /\ UNCHANGED <<items, invoices, projects, settings, pdfs, seen>>

\* The ADD was applied but its response was lost: the SDK sends it again.
FinalizeInvoiceAllocateLost(r) ==
    /\ requests[r].step = "finalizeAllocate"
    /\ Call("finalizeInvoice")
    /\ counter' = counter + 1
    /\ UNCHANGED <<items, invoices, projects, settings, pdfs, requests, seen>>

\* What build_snapshot makes of what the resolver has read.
BuildSnapshot(q) ==
    [lines |-> q.lines, client |-> q.client, settings |-> q.settings, number |-> q.number]

\* Step 6: the conditional write.
FinalizeInvoiceWrite(r) ==
    LET q == requests[r] IN
    /\ q.step = "finalizeWrite"
    /\ IF DraftAt(q.invoice, q.version)
       THEN invoices' = [invoices EXCEPT ![q.invoice].status   = "finalized",
                                         ![q.invoice].number   = q.number,
                                         ![q.invoice].snapshot = BuildSnapshot(q),
                                         ![q.invoice].version  = @ + 1]
       ELSE UNCHANGED invoices
    /\ Return(r)
    /\ UNCHANGED <<items, projects, settings, counter, pdfs, seen>>

\* Mutated: the counter may be set back.
SetNextInvoiceNumber_Backward(next) ==
    /\ Call("setNextInvoiceNumber")
    /\ counter' = next - 1
    /\ UNCHANGED <<items, invoices, projects, settings, pdfs, requests, seen>>

\* setNextInvoiceNumber writes next - 1, unless that would move it back.
SetNextInvoiceNumber(next) ==
    /\ counter <= next - 1
    /\ Call("setNextInvoiceNumber")
    /\ counter' = next - 1
    /\ UNCHANGED <<items, invoices, projects, settings, pdfs, requests, seen>>

-----------------------------------------------------------------------------
(* Finalized invoices                                                      *)

\* Mutated: a draft can be marked paid.
SetInvoicePaid_Draft(I, paid) ==
    /\ invoices[I].status \in {"draft", "finalized"}
    /\ Call("setInvoicePaid")
    /\ invoices' = [invoices EXCEPT ![I].paid = paid]
    /\ UNCHANGED <<items, projects, settings, counter, pdfs, requests, seen>>

\* setInvoicePaid: its read and its write both require a finalized invoice,
\* which stays one, so they are one action.
SetInvoicePaid(I, paid) ==
    /\ invoices[I].status = "finalized"
    /\ Call("setInvoicePaid")
    /\ invoices' = [invoices EXCEPT ![I].paid = paid]
    /\ UNCHANGED <<items, projects, settings, counter, pdfs, requests, seen>>

\* downloadInvoicePdf: the first download reads the frozen snapshot ...
DownloadInvoicePdfRead(r, I) ==
    /\ invoices[I].status = "finalized"
    /\ ~invoices[I].pdf
    /\ Begin(r, "downloadInvoicePdf",
             [Idle EXCEPT !.step = "pdfPut", !.invoice = I,
                          !.lines    = invoices[I].snapshot.lines,
                          !.client   = invoices[I].snapshot.client,
                          !.settings = invoices[I].snapshot.settings,
                          !.number   = invoices[I].snapshot.number])
    /\ UNCHANGED <<tables, seen>>

\* Mutated: the PDF is rendered with the project's present client details.
DownloadInvoicePdfPut_Live(r) ==
    LET I == requests[r].invoice IN
    /\ requests[r].step = "pdfPut"
    /\ pdfs' = [pdfs EXCEPT ![I] = [BuildSnapshot(requests[r]) EXCEPT
                                       !.client = projects[invoices[I].project].client]]
    /\ Continue(r, [requests[r] EXCEPT !.step = "pdfSetKey"])
    /\ UNCHANGED <<items, invoices, projects, settings, counter, seen>>

\* ... renders it into the bucket under the invoice's key ...
DownloadInvoicePdfPut(r) ==
    /\ requests[r].step = "pdfPut"
    /\ pdfs' = [pdfs EXCEPT ![requests[r].invoice] = BuildSnapshot(requests[r])]
    /\ Continue(r, [requests[r] EXCEPT !.step = "pdfSetKey"])
    /\ UNCHANGED <<items, invoices, projects, settings, counter, seen>>

\* ... and stores the key on the row.
DownloadInvoicePdfSetKey(r) ==
    LET I == requests[r].invoice IN
    /\ requests[r].step = "pdfSetKey"
    /\ invoices' = IF invoices[I].status = "finalized"
                   THEN [invoices EXCEPT ![I].pdf = TRUE]
                   ELSE invoices
    /\ Return(r)
    /\ UNCHANGED <<items, projects, settings, counter, pdfs, seen>>

-----------------------------------------------------------------------------
\* The resolver ends before its next call: a read made it return an error,
\* a storage call failed, or the invocation timed out or was lost.
Stop(r) ==
    /\ requests[r] # Idle
    /\ Return(r)
    /\ UNCHANGED <<tables, seen>>

Init ==
    /\ settings \in InvoicingSettings
    /\ projects \in [Projects -> Project]
    /\ \A p \in Projects : IF p \in Opened
                           THEN projects[p].client # None /\ ~projects[p].archived
                           ELSE projects[p] = NoProject
    /\ items \in [Items -> {NoItem} \cup
                     [state : {"live"}, project : Opened, content : Amounts, invoice : {None}]]
    /\ \A i \in Items : items[i] # NoItem <=> i \in Recorded
    /\ invoices = [I \in Invoices |-> NoInvoice]
    /\ counter = 0
    /\ pdfs = [I \in Invoices |-> None]
    /\ requests = [r \in Requests |-> Idle]
    /\ started = 0
    /\ itemSeen = [i \in Items |-> {items[i]}]
    /\ projectSeen = [p \in Projects |-> {projects[p]}]
    /\ settingsSeen = {settings}

ItemCall(r) ==
    \/ \E p \in Projects, c \in Amounts : CreateBillableItemCheck(r, p, c)
    \/ \E i \in Items, c \in Amounts : UpdateBillableItemRead(r, i, c)
    \/ \E i \in Items : DeleteBillableItemRead(r, i)

InvoiceCall(r) ==
    \/ \E p \in Projects, ids \in SUBSET Items : CreateInvoiceCheck(r, p, ids)
    \/ \E I \in Invoices :
          \/ \E ids \in SUBSET Items :
                AddInvoiceItemsRead(r, I, ids) \/ RemoveInvoiceItemsRead(r, I, ids)
          \/ DeleteInvoiceRead(r, I)
          \/ FinalizeInvoiceRead(r, I)
          \/ DownloadInvoicePdfRead(r, I)

ItemStep(r) ==
    \/ CreateBillableItemPut(r)
    \/ UpdateBillableItemReadInvoice(r)
    \/ UpdateBillableItemWrite(r)
    \/ DeleteBillableItemWrite(r)

DraftStep(r) ==
    \/ CreateInvoiceWrite(r)
    \/ AddInvoiceItemsCheck(r)
    \/ AddInvoiceItemsWrite(r)
    \/ RemoveInvoiceItemsWrite(r)
    \/ DeleteInvoiceWrite(r)

FinalizeStep(r) ==
    \/ \E i \in Items : FinalizeInvoiceReadItem(r, i)
    \/ FinalizeInvoiceReadDetails(r)
    \/ FinalizeInvoiceAllocate(r)
    \/ FinalizeInvoiceAllocateLost(r)
    \/ FinalizeInvoiceWrite(r)

PdfStep(r) ==
    \/ DownloadInvoicePdfPut(r)
    \/ DownloadInvoicePdfSetKey(r)

\* The mutations that are a single write.
OneWrite ==
    \/ \E p \in Projects, c \in Clients : CreateProject(p, c)
    \/ \E p \in Projects, c \in Clients, a \in BOOLEAN : UpdateProject(p, c, a)
    \/ \E s \in InvoicingSettings : UpdateInvoicingSettings(s)
    \/ \E next \in 1..MaxNext : SetNextInvoiceNumber(next)
    \/ \E I \in Invoices, paid \in BOOLEAN : SetInvoicePaid(I, paid)

Next ==
    \/ OneWrite
    \/ \E r \in Requests : \/ ItemCall(r) \/ InvoiceCall(r)
                           \/ ItemStep(r) \/ DraftStep(r)
                           \/ FinalizeStep(r) \/ PdfStep(r)
                           \/ Stop(r)

Spec == Init /\ [][Next]_vars

-----------------------------------------------------------------------------
(* Properties                                                              *)

\* What holds between the attributes of one item row ...
ItemShape(row) ==
    /\ row.state = "live" => row.project # None /\ row.content # None
    /\ row.state # "live" => row.invoice = None

\* ... and of one invoice row.
InvoiceShape(row) ==
    /\ row.status \in {"draft", "finalized"} => row.project # None
    /\ row.status \in {"none", "deleted"} => row.items = {}
    /\ row.snapshot # None <=> row.status = "finalized"
    /\ row.paid \/ row.pdf => row.status = "finalized"

ItemsTyped ==
    /\ items \in [Items -> BillableItem]
    /\ itemSeen \in [Items -> SUBSET BillableItem]
    /\ \A i \in Items : ItemShape(items[i]) /\ \A row \in itemSeen[i] : ItemShape(row)

InvoicesTyped ==
    /\ invoices \in [Invoices -> Invoice]
    /\ \A I \in Invoices : InvoiceShape(invoices[I])
    /\ counter \in Nat
    /\ pdfs \in [Invoices -> InvoiceSnapshot \cup {None}]

DetailsTyped ==
    /\ projects \in [Projects -> Project]
    /\ projectSeen \in [Projects -> SUBSET Project]
    /\ settings \in InvoicingSettings
    /\ settingsSeen \subseteq InvoicingSettings

CallsTyped == requests \in [Requests -> Request] /\ started \in Nat

\* The tables hold rows of their types, and the attributes that only a live
\* item, or only a finalized invoice, has are absent elsewhere (db.rs,
\* BillableItem and Invoice).
TypeOK == ItemsTyped /\ InvoicesTyped /\ DetailsTyped /\ CallsTyped

\* Every item row that names an invoice is in that invoice's item_ids, and
\* vice versa, however the attaching, detaching and deleting transactions
\* interleave (SCHEMA.md, item_ids: "enforced structurally").
MembershipAgrees ==
    \A i \in Items, I \in Invoices : items[i].invoice = I <=> i \in invoices[I].items

Finalized(I) == invoices[I].status = "finalized"

\* No two finalized invoices share a number: concurrent finalizes, failed
\* ones, resent counter updates and setNextInvoiceNumber leave gaps, never a
\* duplicate (SCHEMA.md, counter) - up to the u32 limit, where the conversion
\* of the counter saturates.
UniqueNumbers ==
    \A I, J \in Invoices :
        /\ Finalized(I) /\ Finalized(J) /\ I # J
        /\ invoices[I].number = invoices[J].number
        => invoices[I].number = MaxNumber

\* A finalized invoice froze the items as they are: exactly the items on it,
\* each with the content its row has, although the rows were read one by one
\* before the write and may have been edited, attached or detached meanwhile.
SnapshotMatchesItems ==
    \A I \in Invoices : Finalized(I) =>
        /\ DOMAIN invoices[I].snapshot.lines = invoices[I].items
        /\ \A i \in invoices[I].items : invoices[I].snapshot.lines[i] = items[i].content

\* No item is printed on two finalized invoices (a line is billed once).
BilledOnce ==
    \A I, J \in Invoices : Finalized(I) /\ Finalized(J) /\ I # J =>
        DOMAIN invoices[I].snapshot.lines \cap DOMAIN invoices[J].snapshot.lines = {}

\* A step leaves the number, snapshot, items and status of finalized invoices.
FinalizedKept ==
    \A I \in Invoices : Finalized(I) =>
        /\ invoices'[I].status = "finalized"
        /\ invoices'[I].number = invoices[I].number
        /\ invoices'[I].snapshot = invoices[I].snapshot
        /\ invoices'[I].items = invoices[I].items

\* What was finalized stays so: no step, of whichever racing resolver, changes
\* a finalized invoice's number, snapshot, items or status again ("strictly
\* one-way", db.rs InvoiceStatus).
FinalizedIsFinal == [][FinalizedKept]_vars

\* A PDF key on the row means the bucket holds the document of the frozen
\* snapshot, and no rendering ever shows anything else, whatever happens to
\* the project and the settings and however downloads race or fail.
PdfMatchesSnapshot ==
    \A I \in Invoices :
        /\ invoices[I].pdf => pdfs[I] # None
        /\ pdfs[I] # None => Finalized(I) /\ pdfs[I] = invoices[I].snapshot

\* No invoice outgrows MAX_INVOICE_ITEMS, although the count is checked
\* against an earlier read of the invoice than the write that adds the items.
ItemCapHolds == \A I \in Invoices : Cardinality(invoices[I].items) <= MaxInvoiceItems

\* A finalized invoice has a line, and a total a JS client can hold exactly,
\* although an edit of an item on the draft checks no total.
FinalizedTotalsFit ==
    \A I \in Invoices : Finalized(I) =>
        /\ invoices[I].items # {}
        /\ total_cents(invoices[I].snapshot.lines, invoices[I].snapshot.settings.gst) <= MaxTotal

\* SCHEMA.md, "GSI eventual consistency": primary-table reads (GetItem,
\* BatchGetItem) use strongly consistent reads by default, so entity fetches
\* by id are reliable.  Of finalizeInvoice's read of the instance, its last
\* before it allocates a number, that says that it returns the present
\* settings.
FinalizeReadsPresentSettings ==
    [][\A r \in Requests :
          requests[r].step = "finalizeReadItems" /\ requests'[r].step = "finalizeAllocate" =>
              requests'[r].settings = settings]_vars

\* Invoicing implements InvoiceLedger: to a reader of the tables every
\* mutation, with its stale reads, versions and retries, is one atomic step
\* that happens at its conditional write, or no step at all.
Ledger == INSTANCE InvoiceLedger WITH
    content    <- [i \in Items |-> items[i].content],
    on         <- [i \in Items |-> items[i].invoice],
    ledger     <- [I \in Invoices |->
                      IF Finalized(I)
                      THEN [number |-> invoices[I].number, lines |-> invoices[I].snapshot.lines]
                      ELSE None],
    LastNumber <- MaxNumber

ImplementsLedger == Ledger!Spec

-----------------------------------------------------------------------------
(* What is true of the requests in flight: with it the properties above are *)
(* inductive.                                                              *)

FinalizeSteps == {"finalizeReadItems", "finalizeAllocate", "finalizeWrite"}
DraftSteps    == FinalizeSteps \cup
                 {"addItemsCheck", "addItemsWrite", "removeItemsWrite", "deleteInvoiceWrite"}
PdfSteps      == {"pdfPut", "pdfSetKey"}

\* A request has the arguments and read results that its next step uses.
Ready(q) ==
    /\ q.step = "createItemPut" => q.project # None /\ q.content # None
    /\ q.step = "updateItemReadInvoice" => q.invoice # None
    /\ q.step \in {"updateItemReadInvoice", "updateItemWrite"} => q.content # None
    /\ q.step = "createInvoiceWrite" =>
          q.project # None /\ q.ids # {} /\ Cardinality(q.ids) <= MaxInvoiceItems
    /\ q.step \in DraftSteps => q.project # None /\ q.invoice # None
    /\ q.step \in PdfSteps => q.invoice # None /\ q.client # None
    /\ q.step \in FinalizeSteps => q.held # {} /\ DOMAIN q.lines \subseteq q.held
    /\ q.step \in {"finalizeAllocate", "finalizeWrite"} =>
          q.client # None /\ DOMAIN q.lines = q.held
    /\ q.step = "finalizeWrite" => TotalFits(q.lines, q.settings.gst)
    /\ q.step \in {"addItemsCheck", "addItemsWrite"} =>
          Cardinality(q.held) + Cardinality(q.ids) <= MaxInvoiceItems

RequestShapes == \A r \in Requests : Ready(requests[r])

\* While the draft is at the version that a request read, what the request
\* read is still so.
ReadHolds(q) ==
    q.step \in DraftSteps =>
        /\ invoices[q.invoice].status # "none"
        /\ invoices[q.invoice].status = "draft" => q.version <= invoices[q.invoice].version
        /\ DraftAt(q.invoice, q.version) =>
              /\ q.held = invoices[q.invoice].items
              /\ q.step \in FinalizeSteps =>
                    \A i \in DOMAIN q.lines : items[i].content = q.lines[i]

ReadsHold == \A r \in Requests : ReadHolds(requests[r])

\* A number is handed out once, up to the u32 limit, and by the counter.
NumbersHandedOut ==
    /\ \A I \in Invoices : Finalized(I) => invoices[I].number <= counter
    /\ \A r \in Requests : requests[r].step = "finalizeWrite" =>
          /\ requests[r].number <= counter
          /\ \A I \in Invoices : Finalized(I) /\ invoices[I].number = requests[r].number
                                   => requests[r].number = MaxNumber
          /\ \A t \in Requests : requests[t].step = "finalizeWrite" /\ t # r
                                   /\ requests[t].number = requests[r].number
                                   => requests[r].number = MaxNumber

\* A download carries the frozen snapshot, and sets the key after the object.
DownloadsCarrySnapshot ==
    \A r \in Requests : LET q == requests[r] IN
        /\ q.step \in PdfSteps => Finalized(q.invoice)
        /\ q.step = "pdfPut" => BuildSnapshot(q) = invoices[q.invoice].snapshot
        /\ q.step = "pdfSetKey" => pdfs[q.invoice] # None
=============================================================================
