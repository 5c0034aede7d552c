------------------------------- MODULE MCReads -------------------------------
(***************************************************************************)
(* Small instances, for TLC, of the three ways rows are read in number:    *)
(* paged listings (Listings), batch reads by id (BatchReads) and the       *)
(* thread of a ticket (ThreadReads).  They have no state in common, so a   *)
(* behaviour is of one of them and the others stay as they start; it is    *)
(* in one of five mixes.  The configuration gives the constants of the     *)
(* first, the listing of tickets.                                          *)
(***************************************************************************)
EXTENDS Listings, TLC

CONSTANTS Keys

FourRows == 1 .. 4

VARIABLES
    mix,
    table, replica, batch, standing, absent, writes,
    created_at, clock, read, thread, seen

batchVars == <<table, replica, batch, standing, absent, writes>>
threadVars == <<created_at, clock, read, thread, seen>>

Items == INSTANCE Listings WITH
    Kind <- "billable_item", Ways <- {"first_after"}, OldTimes <- {1, 2}, MaxChanges <- 1

Invoices == INSTANCE Listings WITH
    Kind <- "invoice", Ways <- {"first_after"}, OldTimes <- {1, 2}, PageSize <- 1, MaxChanges <- 1

Batches == INSTANCE BatchReads WITH
    Ids <- Keys, ChunkSize <- 2, BatchGetMaxAttempts <- 3, MaxAsked <- 3,
    call <- batch, changes <- writes

Threads == INSTANCE ThreadReads WITH
    Messages <- 1 .. 4, MaxTime <- 2, MaxPages <- 3, now <- clock

ASSUME Items!ListingsAssumption /\ Invoices!ListingsAssumption
ASSUME Batches!BatchReadsAssumption /\ Threads!ThreadReadsAssumption

Symmetry == Permutations(Keys)

\* The listing and the table where they are not what is read.
NoRows == Init /\ rows = [id \in Ids |-> [at |-> 1, listed |-> FALSE, match |-> FALSE]]
NoTable == Batches!Init /\ table = {}

ReadsInit ==
    /\ Threads!Init
    /\ \/ mix = "tickets" /\ Init /\ NoTable
       \/ mix = "items" /\ Items!Init /\ NoTable
       \/ mix = "invoices" /\ Invoices!Init /\ NoTable
       \/ mix = "batches" /\ NoRows /\ Batches!Init
       \/ mix = "threads" /\ NoRows /\ NoTable

ListingNext ==
    /\ UNCHANGED <<batchVars, threadVars>>
    /\ \/ mix = "tickets" /\ Next
       \/ mix = "items" /\ Items!Next
       \/ mix = "invoices" /\ Invoices!Next

BatchNext == mix = "batches" /\ Batches!Next /\ UNCHANGED <<vars, threadVars>>
ThreadNext == mix = "threads" /\ Threads!Next /\ UNCHANGED <<vars, batchVars>>

ReadsNext == UNCHANGED mix /\ (ListingNext \/ BatchNext \/ ThreadNext)

ReadsSpec == ReadsInit /\ [][ReadsNext]_<<mix, vars, batchVars, threadVars>>

-----------------------------------------------------------------------------
(* Properties that are of one mix, or stated in the other modules          *)

ReadsTypeOK == TypeOK /\ Batches!TypeOK /\ Threads!TypeOK

\* A walk that ends has shown every row that stood still exactly once, and from
\* page to page newest first, none twice but one that a change moved back behind
\* the cursor; a last page holds the oldest rows, newest first: whatever the
\* others did between pages and rounds (list_tickets, list_billable_items,
\* list_invoices, build_connection).
WalksAreFaithful ==
    /\ StandingRowsAreShownOnce /\ NothingIsShownTwice
    /\ mix = "tickets" => LastPageHoldsTheOldest

\* In a batch read's answer, a row that was there throughout stands at its
\* position, and one that was never there is None: a key left unprocessed is
\* asked for again or fails the call (get_records).
NoneMeansMissing == Batches!NoneMeansMissing

\* "a reader never sees the same thread reshuffle": two messages a read
\* returned keep their order in every later read (list_ticket_messages), and a
\* read returns every message that was there when it began, once, however many
\* of its pages were empty (query_all_items).
ThreadsAreReadWhole == Threads!ThreadsDoNotReshuffle /\ Threads!ReadsAreWhole
=============================================================================
