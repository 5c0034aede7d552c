------------------------------ MODULE ThreadReads ------------------------------
(***************************************************************************)
(* Reading a ticket's thread: list_ticket_messages over query_all.         *)
(*                                                                         *)
(* Messages carry the second they were written in.  DynamoDB returns them  *)
(* by that second, in any order within one, over as many pages as it       *)
(* likes, some of them empty, while messages are still being added.  The   *)
(* index shows a message some time after it was written.  What readers     *)
(* rely on is that a thread they have read does not reshuffle.             *)
(***************************************************************************)
EXTENDS Integers, SequencesExt, FiniteSetsExt

CONSTANTS
    Messages,       \* the ids of the messages, as numbers: ids are compared
    MaxTime,        \* bound: the latest second
    MaxPages        \* bound: how many pages a read takes

\* Assumed by the modules that instantiate this one.
ThreadReadsAssumption ==
    /\ Messages \subseteq Nat
    /\ MaxTime \in Nat /\ MaxPages \in Nat \ {0}

Unwritten == MaxTime + 1

VARIABLES
    created_at,     \* per message the index shows, the second it was written in, or Unwritten
    now,            \* the clock, in seconds
    read,           \* the read in flight: its pages so far and what is left of them
    thread,         \* the thread as the last read returned it
    seen            \* history: the messages the index showed when the read began

vars == <<created_at, now, read, thread, seen>>

Written == {m \in Messages : created_at[m] # Unwritten}

Idle == [reading |-> FALSE, items |-> <<>>, last |-> -1, pages |-> 0]

Init ==
    /\ created_at = [m \in Messages |-> Unwritten]
    /\ now = 0
    /\ read = Idle
    /\ thread = <<>>
    /\ seen = {}

\* create_ticket_message: a random id and the second of the write, which is
\* the present one or, when the index was slow, an earlier one.
CreateTicketMessage ==
    /\ now' \in {now, now + 1} /\ now' <= MaxTime
    /\ \E m \in Messages \ Written, second \in 0 .. now' :
         created_at' = [created_at EXCEPT ![m] = second]
    /\ UNCHANGED <<read, thread, seen>>

StartRead ==
    /\ ~read.reading
    /\ read' = [Idle EXCEPT !.reading = TRUE]
    /\ seen' = Written
    /\ UNCHANGED <<created_at, now, thread>>

\* Mutated: the seconds alone decide.
Order_SecondsOnly(items) == SortSeq(items, LAMBDA a, b : created_at[a] < created_at[b])

Order(items) ==
    SortSeq(items, LAMBDA a, b : \/ created_at[a] < created_at[b]
                                 \/ created_at[a] = created_at[b] /\ a < b)

\* Mutated: the walk ends at a page without items.
Ends_AtAnEmptyPage(page, more) == page = <<>> \/ ~more

Ends(page, more) == ~more

\* Messages that came to stand behind the read may or may not be met.
Passed == {m \in Written \ seen : created_at[m] <= read.last}

\* One page of the query: whole seconds or parts of one, in any order within a
\* second; the walk ends when no key to go on from comes with it.
Page ==
    /\ read.reading
    /\ \E passed \in SUBSET Passed :
       LET rest == Written \ (ToSet(read.items) \cup passed) IN
       \E page \in UNION {SetToSeqs(s) : s \in SUBSET rest}, more \in BOOLEAN :
         /\ \A a, b \in 1 .. Len(page) : a < b => created_at[page[a]] <= created_at[page[b]]
         /\ \A i \in 1 .. Len(page) : created_at[page[i]] >= read.last
         /\ \A m \in rest \ ToSet(page) :
              more /\ \A i \in 1 .. Len(page) : created_at[page[i]] <= created_at[m]
         /\ more => read.pages + 1 < MaxPages
         /\ LET items == read.items \o page IN
            IF Ends(page, more)
            THEN /\ thread' = Order(items)
                 /\ read' = Idle
            ELSE /\ read' = [read EXCEPT !.items = items, !.pages = @ + 1,
                                         !.last = IF page = <<>> THEN @ ELSE created_at[Last(page)]]
                 /\ UNCHANGED thread
    /\ UNCHANGED <<created_at, now, seen>>

Next == CreateTicketMessage \/ StartRead \/ Page

Spec == Init /\ [][Next]_vars

-----------------------------------------------------------------------------
(* Properties. *)

TypeOK ==
    /\ created_at \in [Messages -> 0 .. Unwritten]
    /\ now \in 0 .. MaxTime
    /\ read.items \in Seq(Messages) /\ read.pages \in 0 .. MaxPages
    /\ thread \in Seq(Messages) /\ seen \subseteq Messages

Place(t, m) == CHOOSE i \in 1 .. Len(t) : t[i] = m

\* "a reader never sees the same thread reshuffle": two messages a read
\* returned keep their order in every later read, written in one second or
\* not, and however DynamoDB returned them (list_ticket_messages).
ThreadsDoNotReshuffle ==
    [][\A a, b \in ToSet(thread) \cap ToSet(thread') :
         Place(thread, a) < Place(thread, b) => Place(thread', a) < Place(thread', b)]_thread

\* A read returns every message that was there when it began, once, whatever
\* its pages held and however many were empty (query_all_items).
ReadsAreWhole ==
    [][\A m \in seen : Cardinality({i \in 1 .. Len(thread') : thread'[i] = m}) = 1]_thread
=============================================================================
