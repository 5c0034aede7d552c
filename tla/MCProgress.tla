------------------------------ MODULE MCProgress ------------------------------
(***************************************************************************)
(* What must come to an end: a mail on the queue (InboundMail) and the     *)
(* call that fills a page of a listing (Listings).  A behaviour is of one  *)
(* of the two; the other stays as it starts.  No symmetry: it is not sound *)
(* for liveness.                                                           *)
(***************************************************************************)
EXTENDS MCInbound

VARIABLES rowsListed, clock, walk, page, still, movedBack, changes

Listing == INSTANCE Listings WITH
    Ids <- 1 .. 3, Kind <- "ticket", PageSize <- 1, Ways <- {"first_after"},
    OldTimes <- {1, 2}, MaxTime <- 3, MaxChanges <- 1,
    rows <- rowsListed, now <- clock, call <- page

listVars == <<rowsListed, clock, walk, page, still, movedBack, changes>>

NoRows == Listing!Init /\ rowsListed = [id \in 1 .. 3 |-> [at |-> 1, listed |-> FALSE, match |-> FALSE]]

ProgressInit ==
    /\ InboundInit
    /\ \/ mix = "mail" /\ NoRows
       \/ mix = "lists" /\ Listing!Init

ProgressNext ==
    /\ UNCHANGED mix
    /\ \/ mix = "mail" /\ InboundNext /\ UNCHANGED listVars
       \/ mix = "lists" /\ Listing!Next /\ UNCHANGED allVars

\* InboundFairness: the Lambda service ends every invocation and polls on.
\* Round: a call reads on until it has its page.
FairProgressSpec ==
    /\ ProgressInit /\ [][ProgressNext]_<<mix, allVars, listVars>>
    /\ InboundFairness
    /\ WF_listVars(Listing!Round)

\* Every call ends with a page: a round starts after the rows the last one
\* examined, also when the filter kept none of them (the loops of
\* list_tickets, list_billable_items and list_invoices).
CallsEnd == Listing!CallsEnd
=============================================================================
