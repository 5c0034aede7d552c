---------------------------- MODULE MCInvoicing ----------------------------
(***************************************************************************)
(* Small instances of Invoicing for TLC.                                   *)
(***************************************************************************)
EXTENDS Invoicing, TLC

\* Ids, and the slots of the invocations in flight, are interchangeable.
Symmetry == Permutations(Recorded) \cup Permutations(Items \ Recorded) \cup
            Permutations(Invoices) \cup Permutations(Requests)
=============================================================================
