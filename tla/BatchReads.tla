------------------------------ MODULE BatchReads ------------------------------
(***************************************************************************)
(* Batch reads by id: get_records, its consistent variant, and the         *)
(* per-request loader over it.                                             *)
(*                                                                         *)
(* The ids go out in chunks.  DynamoDB may leave any keys of a chunk       *)
(* unprocessed; those are asked for again, a bounded number of times.  The *)
(* caller takes a None at a position for a row that does not exist, and    *)
(* that is what the retries are there to justify.                          *)
(***************************************************************************)
EXTENDS Integers, SequencesExt, FiniteSetsExt

CONSTANTS
    None,           \* no row at a position
    Ids,            \* the ids of a table
    ChunkSize,      \* the most keys of one BatchGetItem: 100
    BatchGetMaxAttempts,    \* BATCH_GET_MAX_ATTEMPTS: 5
    MaxAsked,       \* bound: how many ids a call asks for
    MaxChanges      \* bound: how many rows others write or delete

\* Assumed by the modules that instantiate this one.
BatchReadsAssumption ==
    /\ ChunkSize \in Nat \ {0} /\ BatchGetMaxAttempts \in Nat \ {0}
    /\ MaxAsked \in Nat \ {0} /\ MaxChanges \in Nat

VARIABLES
    table,          \* the ids that have a row
    replica,        \* the ids that have one where an ordinary read looks
    call,           \* the batch read in flight
    standing,       \* history: the rows there throughout the call
    absent,         \* history: the rows never there during the call
    changes

vars == <<table, replica, call, standing, absent, changes>>

Idle == [step |-> "idle", ids |-> <<>>, consistent |-> FALSE, chunk |-> 1, pending |-> {},
         attempt |-> 1, results |-> {}, answer |-> <<>>]

Chunks(ids) == (Len(ids) + ChunkSize - 1) \div ChunkSize

Chunk(ids, n) == SubSeq(ids, (n - 1) * ChunkSize + 1, Min({n * ChunkSize, Len(ids)}))

Init ==
    /\ table \in SUBSET Ids /\ replica = table
    /\ call = Idle
    /\ standing = {} /\ absent = {}
    /\ changes = 0

\* A caller asks for rows, never twice for one: the loader is given distinct
\* keys, and an invoice's item ids are distinct.
Call ==
    /\ call.step \in {"idle", "answered", "failed"}
    /\ \E ids \in UNION {[1 .. n -> Ids] : n \in 1 .. MaxAsked}, consistent \in BOOLEAN :
         /\ IsInjective(ids)
         /\ call' = [Idle EXCEPT !.step = "asking", !.ids = ids, !.consistent = consistent,
                                 !.pending = ToSet(Chunk(ids, 1))]
         /\ standing' = IF consistent THEN table ELSE table \cap replica
         /\ absent' = IF consistent THEN Ids \ table ELSE Ids \ (table \cup replica)
    /\ UNCHANGED <<table, replica, changes>>

\* The rows found, back at the positions of their ids.
Aligned(ids, found) == [i \in 1 .. Len(ids) |-> IF ids[i] \in found THEN ids[i] ELSE None]

\* Mutated: one attempt too many.
Retries_OnceMore == call.attempt <= BatchGetMaxAttempts

Retries == call.attempt < BatchGetMaxAttempts

\* Mutated: keys still pending after the last attempt are given up without a word.
Fails_Never(pending) == FALSE

Fails(pending) == pending # {}

\* get_records reads what an ordinary read sees, get_records_consistent the table.
Source == IF call.consistent THEN table ELSE replica

Found(processed) == call.results \cup (processed \cap Source)

\* One BatchGetItem: some of the keys are processed, the rest come back.
Attempt ==
    /\ call.step = "asking"
    /\ \E processed \in SUBSET call.pending :
         LET results == Found(processed)
             rest == call.pending \ processed
             here == [call EXCEPT !.results = results]
         IN call' =
            IF rest # {} /\ Retries
            THEN [here EXCEPT !.pending = rest, !.attempt = @ + 1]
            ELSE IF Fails(rest)
            THEN [here EXCEPT !.pending = rest, !.step = "failed"]
            ELSE IF call.chunk < Chunks(call.ids)
            THEN [here EXCEPT !.chunk = @ + 1, !.attempt = 1,
                              !.pending = ToSet(Chunk(call.ids, call.chunk + 1))]
            ELSE [here EXCEPT !.step = "answered", !.pending = {},
                              !.answer = Aligned(call.ids, results)]
    /\ UNCHANGED <<table, replica, standing, absent, changes>>

\* The request itself fails: throttled outright, or the network.
AttemptFails ==
    /\ call.step = "asking"
    /\ call' = [call EXCEPT !.step = "failed"]
    /\ UNCHANGED <<table, replica, standing, absent, changes>>

\* Others put and delete rows.
Write ==
    /\ changes < MaxChanges
    /\ \E id \in Ids :
         /\ table' = IF id \in table THEN table \ {id} ELSE table \cup {id}
         /\ standing' = standing \ {id} /\ absent' = absent \ {id}
    /\ changes' = changes + 1
    /\ UNCHANGED <<replica, call>>

\* An ordinary read sees a write some time later.
CatchUp ==
    /\ replica # table
    /\ \E id \in (table \cup replica) \ (table \cap replica) :
         replica' = IF id \in table THEN replica \cup {id} ELSE replica \ {id}
    /\ UNCHANGED <<table, call, standing, absent, changes>>

Next == Call \/ Attempt \/ AttemptFails \/ Write \/ CatchUp

Spec == Init /\ [][Next]_vars

-----------------------------------------------------------------------------
(* Properties. *)

TypeOK ==
    /\ table \subseteq Ids /\ replica \subseteq Ids
    /\ standing \subseteq Ids /\ absent \subseteq Ids
    /\ call.step \in {"idle", "asking", "answered", "failed"}
    /\ call.ids \in Seq(Ids) /\ call.answer \in Seq(Ids \cup {None})
    /\ call.pending \subseteq Ids /\ call.results \subseteq Ids
    /\ call.chunk \in 1 .. MaxAsked /\ call.attempt \in 1 .. BatchGetMaxAttempts
    /\ changes \in 0 .. MaxChanges

\* In an answer every row that was there throughout the call stands at its
\* position, and a row that was never there is None: a key left unprocessed
\* is asked for again or fails the call, and never reads as a missing row,
\* whatever the attempts left behind and whichever chunk they were in
\* (get_records).
NoneMeansMissing ==
    call.step = "answered" =>
        /\ Len(call.answer) = Len(call.ids)
        /\ \A i \in 1 .. Len(call.ids) :
             /\ call.ids[i] \in standing => call.answer[i] = call.ids[i]
             /\ call.ids[i] \in absent => call.answer[i] = None
=============================================================================
