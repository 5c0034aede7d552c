--------------------------- MODULE InvoiceLedger ---------------------------
(***************************************************************************)
(* What invoicing promises, with every operation a single atomic step and  *)
(* every reader seeing the present: work is recorded, revised and put on   *)
(* at most one invoice; issuing an invoice prints the work on it as it is  *)
(* at that moment, under a number no issued invoice has; an issued invoice *)
(* and the work on it never change again.                                  *)
(*                                                                         *)
(* There are no versions, reservations of numbers, stale reads or requests *)
(* in flight here; Invoicing implements this with all of them.             *)
(***************************************************************************)
EXTENDS Naturals

CONSTANTS Items, Invoices, Amounts, None,
          LastNumber  \* the number at which numbering saturates

VARIABLES
    content,  \* what each recorded item bills, None if it is not recorded
    on,       \* the invoice each item is on, or None
    ledger    \* each issued invoice's number and lines, or None

work == <<content, on>>

Init ==
    /\ content \in [Items -> Amounts \cup {None}]
    /\ on = [i \in Items |-> None]
    /\ ledger = [I \in Invoices |-> None]

Issued(I) == I \in Invoices /\ ledger[I] # None

\* Work is recorded.
Record(i, c) ==
    /\ content[i] = None
    /\ content' = [content EXCEPT ![i] = c]
    /\ UNCHANGED <<on, ledger>>

\* Work that is not on an issued invoice is revised.
Revise(i, c) ==
    /\ content[i] # None
    /\ ~Issued(on[i])
    /\ content' = [content EXCEPT ![i] = c]
    /\ UNCHANGED <<on, ledger>>

\* Work that is on no invoice is struck out.
Strike(i) ==
    /\ content[i] # None
    /\ on[i] = None
    /\ content' = [content EXCEPT ![i] = None]
    /\ UNCHANGED <<on, ledger>>

\* Recorded work that is on no invoice is put on one that is not issued.
Attach(I, ids) ==
    /\ ~Issued(I)
    /\ \A i \in ids : content[i] # None /\ on[i] = None
    /\ on' = [i \in Items |-> IF i \in ids THEN I ELSE on[i]]
    /\ UNCHANGED <<content, ledger>>

\* Work is taken off an invoice that is not issued.
Detach(I, ids) ==
    /\ ~Issued(I)
    /\ \A i \in ids : on[i] = I
    /\ on' = [i \in Items |-> IF i \in ids THEN None ELSE on[i]]
    /\ UNCHANGED <<content, ledger>>

\* The invoice is issued, with the work on it as it is now.
Issue(I, n) ==
    LET billed == {i \in Items : on[i] = I} IN
    /\ ~Issued(I)
    /\ billed # {}
    /\ \A J \in Invoices : Issued(J) => ledger[J].number # n \/ n = LastNumber
    /\ ledger' = [ledger EXCEPT ![I] = [number |-> n,
                                        lines  |-> [i \in billed |-> content[i]]]]
    /\ UNCHANGED work

Next ==
    \/ \E i \in Items, c \in Amounts : Record(i, c) \/ Revise(i, c)
    \/ \E i \in Items : Strike(i)
    \/ \E I \in Invoices, ids \in SUBSET Items : Attach(I, ids) \/ Detach(I, ids)
    \/ \E I \in Invoices, n \in 0..LastNumber : Issue(I, n)

Spec == Init /\ [][Next]_<<content, on, ledger>>
=============================================================================
