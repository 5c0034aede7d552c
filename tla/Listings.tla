------------------------------- MODULE Listings -------------------------------
(***************************************************************************)
(* Paged listings: tickets, billable items and invoices, newest first.     *)
(*                                                                         *)
(* A listing is one partition of a DynamoDB index: the rows that carry the *)
(* partition's value, in the order of <<at, id>>, where at is the index's  *)
(* sort key (a ticket's last_activity_at, an item's date, an invoice's     *)
(* created_at).  A client walks it page by page.  Each page is one call    *)
(* that reads the index in rounds until it has enough rows, and a cursor   *)
(* is all that is carried from one page to the next.  Between two rounds   *)
(* rows are changed, moved, added and removed by everyone else.            *)
(*                                                                         *)
(* Instances, statuses and assignees are what decides whether a row is in  *)
(* the partition (listed) and passes the filter expression (match).        *)
(***************************************************************************)
EXTENDS Integers, SequencesExt, FiniteSetsExt

CONSTANTS
    None,           \* no cursor, no start key
    Ids,            \* the rows' ids, as numbers: ids are compared
    Kind,           \* the table: "ticket", "billable_item" or "invoice"
    PageSize,       \* the page size asked for
    Ways,           \* how clients walk: subset of WayNames
    OldTimes,       \* the sort keys rows start with
    MaxTime,        \* bound: the latest time
    MaxChanges      \* bound: how many changes others make

WayNames == {"first_after", "last", "first_before", "last_before"}

ASSUME ListingsAssumption ==
    /\ Ids \subseteq Nat
    /\ Kind \in {"ticket", "billable_item", "invoice"}
    /\ PageSize \in Nat
    /\ Ways \subseteq WayNames
    /\ OldTimes \subseteq 0 .. MaxTime
    /\ MaxTime \in Nat /\ MaxChanges \in Nat

VARIABLES
    rows,           \* the table: per id, its sort key and whether it is listed and matches
    now,            \* the clock, in seconds
    walk,           \* the client's walk: its way, its filter, and all it was shown
    call,           \* the page being read
    still,          \* history: the rows nobody changed since the walk began
    movedBack,      \* history: the rows given an older sort key since then
    changes         \* how many changes others made

vars == <<rows, now, walk, call, still, movedBack, changes>>

Row == [at : 0 .. MaxTime, listed : BOOLEAN, match : BOOLEAN]
Cursor == (0 .. MaxTime) \X Ids

-----------------------------------------------------------------------------
(* The order of an index. *)

Before(a, b) == \/ a[1] < b[1]
                \/ a[1] = b[1] /\ a[2] < b[2]

KeyOf(id) == <<rows[id].at, id>>

Listed == {id \in Ids : rows[id].listed}

\* The keys of the partition on the far side of a start key, in scan order.
Ahead(from, scan_forward) ==
    SetToSortSeq({KeyOf(id) : id \in {x \in Listed :
                    \/ from = None
                    \/ scan_forward /\ Before(from, KeyOf(x))
                    \/ ~scan_forward /\ Before(KeyOf(x), from)}},
                 LAMBDA a, b : IF scan_forward THEN Before(a, b) ELSE Before(b, a))

-----------------------------------------------------------------------------
(* Which way a page is read, and what is made of the rows. *)

\* Mutated: a page without a cursor is read from the old end.
ScanForward_FromTheOldEnd(has_after, has_before, descending) ==
    IF has_after THEN ~descending ELSE descending

ScanForward(has_after, has_before, descending) ==
    IF has_before /\ ~has_after THEN descending ELSE ~descending

ReverseOutput(has_after, has_before) == has_before /\ ~has_after

\* Mutated: the page keeps the row that was fetched to see whether there is more.
BuildConnection_KeepsTheExtra(fetched, size, last, has_after, has_before) ==
    LET extra == Len(fetched) > size IN
    [edges |-> IF last THEN Reverse(fetched) ELSE fetched,
     has_previous |-> IF last THEN extra \/ has_after ELSE has_after,
     has_next |-> IF last THEN has_before ELSE extra]

BuildConnection(fetched, size, last, has_after, has_before) ==
    LET extra == Len(fetched) > size
        page == IF extra THEN SubSeq(fetched, 1, size) ELSE fetched
    IN [edges |-> IF last THEN Reverse(page) ELSE page,
        has_previous |-> IF last THEN extra \/ has_after ELSE has_after,
        has_next |-> IF last THEN has_before ELSE extra]

-----------------------------------------------------------------------------
(* One call: list_tickets, list_billable_items or list_invoices. *)

Fetch == PageSize + 1

HasAfter == call.after # None
HasBefore == call.before # None
Descending == ~walk.last

\* The most rows one round examines: a filtered read of items or invoices
\* leaves the limit to DynamoDB.
Examined(ahead) ==
    IF Kind # "ticket" /\ walk.filtered THEN Len(ahead) ELSE Min({Fetch, Len(ahead)})

Matching(keys) ==
    SelectSeq(keys, LAMBDA k : ~walk.filtered \/ rows[k[2]].match)

\* Mutated: cut to the page, so that nothing tells that there is more.
Truncated_ToThePage(got) == IF Len(got) <= PageSize THEN got ELSE SubSeq(got, 1, PageSize)

\* list_tickets hands over what it read; the others cut it to the limit.
Truncated(got) ==
    IF Kind = "ticket" \/ Len(got) <= Fetch THEN got ELSE SubSeq(got, 1, Fetch)

\* Mutated: the loop ends at the first round that adds nothing.
Enough_StopsShort(got, read, more) == Len(got) >= Fetch \/ ~more \/ Matching(read) = <<>>

Enough(got, read, more) == Len(got) >= Fetch \/ ~more

\* Mutated: a round resumes after the last row it kept.
StartKey_LastKept(read) ==
    LET kept == Matching(read) IN IF kept = <<>> THEN call.from ELSE Last(kept)

StartKey(read) == Last(read)

Answer(got) ==
    LET ordered == IF ReverseOutput(HasAfter, HasBefore) THEN Reverse(got) ELSE got IN
    BuildConnection(Truncated(ordered), PageSize, walk.last, HasAfter, HasBefore)

\* A client goes on while the page says there is more on its side.
GoesOn(page) ==
    /\ page.edges # <<>>
    /\ CASE walk.way = "first_after" -> page.has_next
         [] walk.way = "last" -> FALSE
         [] OTHER -> page.has_previous

\* One round: DynamoDB examines some rows in order, at least one if there is
\* one, and gives a key to go on from unless it reached the end by itself.
Round ==
    LET forward == ScanForward(HasAfter, HasBefore, Descending)
        ahead == Ahead(call.from, forward)
    IN /\ call.step = "reading"
       /\ \E n \in 0 .. Examined(ahead), more \in BOOLEAN :
            LET read == SubSeq(ahead, 1, n)
                got == call.got \o Matching(read)
            IN /\ n = 0 => ahead = <<>> /\ ~more
               /\ n < Len(ahead) => more
               /\ n = Len(ahead) /\ more => n = Fetch /\ ~(Kind # "ticket" /\ walk.filtered)
               /\ IF Enough(got, read, more)
                  THEN LET page == Answer(got) IN
                       /\ call' = [call EXCEPT !.step = "answered", !.from = None, !.got = <<>>,
                                               !.page = page]
                       /\ walk' = [walk EXCEPT !.shown = @ \o page.edges,
                                               !.step = IF GoesOn(page) THEN "paging" ELSE "ended"]
                  ELSE /\ call' = [call EXCEPT !.got = got, !.from = StartKey(read)]
                       /\ UNCHANGED walk
       /\ UNCHANGED <<rows, now, still, movedBack, changes>>

-----------------------------------------------------------------------------
(* The client's walk. *)

NoPage == [edges |-> <<>>, has_previous |-> FALSE, has_next |-> FALSE]
Idle == [step |-> "idle", after |-> None, before |-> None, from |-> None, got |-> <<>>,
         page |-> NoPage]

Request(after, before) ==
    [Idle EXCEPT !.step = "reading", !.after = after, !.before = before,
                 !.from = IF after # None THEN after ELSE before]

\* The first page.  A walk toward the front begins at a row that was shown
\* earlier, so that there is something in front of it.
StartWalk ==
    /\ call.step = "idle"
    /\ \E way \in Ways, filtered \in BOOLEAN :
         /\ walk' = [step |-> "paging", way |-> way, filtered |-> filtered,
                     last |-> way \in {"last", "last_before"}, shown |-> <<>>]
         /\ IF way \in {"first_before", "last_before"}
            THEN \E id \in Listed : call' = Request(None, KeyOf(id))
            ELSE call' = Request(None, None)
    /\ still' = Listed
    /\ movedBack' = {}
    /\ UNCHANGED <<rows, now, changes>>

\* Mutated: the next page is asked for after the page's first row.
NextCursor_First(page) == Head(page.edges)

NextCursor(page) == Last(page.edges)

NextPage ==
    /\ call.step = "answered" /\ walk.step = "paging"
    /\ call' = IF walk.way = "first_after"
               THEN Request(NextCursor(call.page), None)
               ELSE Request(None, Head(call.page.edges))
    /\ UNCHANGED <<rows, now, walk, still, movedBack, changes>>

-----------------------------------------------------------------------------
(* What everyone else does meanwhile. *)

\* What a row may become.  update_ticket sets last_activity_at, whatever it was,
\* to the time its caller read before the calls that led to it: now, or earlier,
\* and earlier than what another has written since.  An item's date is edited
\* freely; an invoice stays at the time its creation had read.  An item or an
\* invoice that left its table does not come back.
Changes(id) ==
    CASE Kind = "ticket" -> {r \in Row : r.at <= now'}
      [] Kind = "billable_item" -> {r \in Row : rows[id].listed \/ r.listed}
      [] Kind = "invoice" -> {r \in Row : IF rows[id].listed THEN r.at = rows[id].at
                                          ELSE r.listed /\ r.at <= now' /\ ~r.match}

Change ==
    /\ changes < MaxChanges
    /\ call.step # "idle"
    /\ now' \in {now, now + 1} /\ now' <= MaxTime
    /\ \E id \in Ids : \E r \in Changes(id) :
         /\ r # rows[id]
         /\ rows' = [rows EXCEPT ![id] = r]
         /\ still' = still \ {id}
         /\ movedBack' = IF r.at < rows[id].at THEN movedBack \cup {id} ELSE movedBack
    /\ changes' = changes + 1
    /\ UNCHANGED <<walk, call>>

Init ==
    /\ rows \in [Ids -> {r \in Row : r.at \in OldTimes /\ (r.match => r.listed)}]
    /\ now = Max(OldTimes)
    /\ walk = [step |-> "ended", way |-> "last", filtered |-> FALSE, last |-> TRUE, shown |-> <<>>]
    /\ call = Idle
    /\ still = {} /\ movedBack = {}
    /\ changes = 0

Next == Round \/ StartWalk \/ NextPage \/ Change

Spec == Init /\ [][Next]_vars

-----------------------------------------------------------------------------
(* Properties. *)

TypeOK ==
    /\ rows \in [Ids -> Row]
    /\ now \in 0 .. MaxTime
    /\ walk \in [step : {"paging", "ended"}, way : WayNames, filtered : BOOLEAN, last : BOOLEAN,
                 shown : Seq(Cursor)]
    /\ call.step \in {"idle", "reading", "answered"}
    /\ call.after \in Cursor \cup {None} /\ call.before \in Cursor \cup {None}
    /\ call.from \in Cursor \cup {None} /\ call.got \in Seq(Cursor)
    /\ call.page.edges \in Seq(Cursor) /\ Len(call.page.edges) <= PageSize
    /\ still \subseteq Ids /\ movedBack \subseteq Ids
    /\ changes \in 0 .. MaxChanges

Times(id) == Cardinality({i \in 1 .. Len(walk.shown) : walk.shown[i][2] = id})

\* The rows of the walk that stayed as they were since it began.
Standing == {id \in still : ~walk.filtered \/ rows[id].match}

\* A walk with first and after that reached its end showed every row that
\* stood still exactly once, whatever the others did and however the rounds
\* of its pages fell: a page is filled before it ends, and the cursor of its
\* last row is where the next begins (list_billable_items, list_invoices,
\* list_tickets, build_connection).
StandingRowsAreShownOnce ==
    walk.way = "first_after" /\ walk.step = "ended" /\ call.step = "answered"
        => \A id \in Standing : Times(id) = 1

\* A walk shows newest first from its first page to its last, and no row twice,
\* even one that changed, if no change gave it an older sort key: one that was
\* moved to the front is where the walk has passed.  (A ticket touched with a
\* time read earlier, or an item with an earlier date, may come up again.)
NothingIsShownTwice ==
    walk.way = "first_after" =>
        /\ \A i \in 1 .. Len(walk.shown) - 1 : Before(walk.shown[i + 1], walk.shown[i])
        /\ \A id \in Ids \ movedBack : Times(id) <= 1

\* The page of a last request without a cursor holds the oldest rows: none
\* that stood still is older than one it shows and missing from it, and they
\* stand newest first (page_scan_direction, build_connection).
LastPageHoldsTheOldest ==
    walk.way = "last" /\ call.step = "answered" =>
        LET edges == call.page.edges
            keys == ToSet(edges)
        IN /\ \A i \in 1 .. Len(edges) - 1 : Before(edges[i + 1], edges[i])
           /\ \A id \in Standing :
                KeyOf(id) \notin keys => \A k \in keys : Before(k, KeyOf(id))

\* Every call ends with a page: a round starts after the rows the last one
\* examined, also when the filter kept none of them (the loops of
\* list_tickets, list_billable_items and list_invoices).
CallsEnd == call.step = "reading" ~> call.step = "answered"

\* "`before` means 'give me the page ending just before this cursor'": the
\* page of a last request with before holds only rows in front of the cursor.
PagesLieBeforeTheCursor ==
    call.step = "answered" /\ call.before # None =>
        \A i \in 1 .. Len(call.page.edges) : Before(call.before, call.page.edges[i])

\* The same comment: no row that stood still lies between the page of a
\* request with before and its cursor.
PagesEndAtTheCursor ==
    call.step = "answered" /\ call.before # None =>
        LET keys == ToSet(call.page.edges) IN
        \A id \in Standing : Before(call.before, KeyOf(id)) =>
            KeyOf(id) \in keys \/ \E k \in keys : Before(k, KeyOf(id))
=============================================================================
