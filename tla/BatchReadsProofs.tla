-------------------------- MODULE BatchReadsProofs --------------------------
(***************************************************************************)
(* Proofs about BatchReads, for every value of its constants: what a None  *)
(* in an answer says, however many chunks and attempts it took, and that   *)
(* they are bounded.                                                       *)
(***************************************************************************)
EXTENDS BatchReads, SequenceTheorems, TLAPS

-----------------------------------------------------------------------------
(* The inductive invariant.                                                *)

\* Positions of the chunks up to the nth.
Reached(ids, n) == {i \in 1..Len(ids) : i <= n * ChunkSize}

\* While a call asks, rows that stand are where it looks, and absent ones are not.
HistorySound ==
    /\ standing \subseteq Source /\ absent \cap Source = {}
    /\ ~call.consistent => standing \subseteq table /\ absent \cap table = {}

\* Of the chunks asked for so far, a row that stands is found or is asked for again.
AskingSound ==
    /\ Len(call.ids) \in Nat \ {0}
    /\ call.chunk \in Nat \ {0}
    /\ call.results \cap absent = {}
    /\ \A i \in Reached(call.ids, call.chunk) :
        call.ids[i] \in standing => call.ids[i] \in call.results \cup call.pending

\* A call has its fields, and the ids it was given.
Shaped(c) ==
    /\ c = [step |-> c.step, ids |-> c.ids, consistent |-> c.consistent, chunk |-> c.chunk,
            pending |-> c.pending, attempt |-> c.attempt, results |-> c.results,
            answer |-> c.answer]
    /\ c.ids \in Seq(Ids) /\ c.consistent \in BOOLEAN

Sound ==
    /\ Shaped(call)
    /\ call.step = "asking" => HistorySound /\ AskingSound
    /\ NoneMeansMissing

-----------------------------------------------------------------------------
(* Chunks.                                                                 *)

\* Where there is no further chunk, all ids were asked for.
LEMMA LastChunk ==
  ASSUME BatchReadsAssumption, NEW L \in Nat, NEW n \in Nat,
         ~(n < (L + ChunkSize - 1) \div ChunkSize)
  PROVE  L <= n * ChunkSize
<1>1. PICK q : q = (L + ChunkSize - 1) \div ChunkSize
  OBVIOUS
<1>2. ChunkSize \in Nat \ {0}
  BY DEF BatchReadsAssumption
<1>3. q \in Nat /\ L + ChunkSize - 1 < q * ChunkSize + ChunkSize
  BY <1>1, <1>2, SMT
<1>4. L <= q * ChunkSize
  BY <1>2, <1>3, SMT
<1>5. q * ChunkSize <= n * ChunkSize
  BY <1>1, <1>2, <1>3, SMT
<1>6. QED
  BY <1>2, <1>3, <1>4, <1>5, SMT

\* A position of the chunks up to one is of those before it, or of that chunk.
LEMMA NextChunk ==
  ASSUME BatchReadsAssumption, NEW ids \in Seq(Ids), NEW n \in Nat \ {0},
         NEW i \in Reached(ids, n)
  PROVE  i \in Reached(ids, n - 1) \/ ids[i] \in ToSet(Chunk(ids, n))
<1>1. Len(ids) \in Nat /\ ChunkSize \in Nat \ {0} /\ i \in 1..Len(ids) /\ i <= n * ChunkSize
  BY LenProperties DEF BatchReadsAssumption, Reached
<1>2. PICK from : from = (n - 1) * ChunkSize
  OBVIOUS
<1>3. PICK to : to = n * ChunkSize
  OBVIOUS
<1>4. from \in Nat /\ to \in Nat
  BY <1>1, <1>2, <1>3, SMT
<1>5. CASE i <= from
  BY <1>1, <1>2, <1>5 DEF Reached
<1>6. CASE ~(i <= from)
  <2>1. PICK last : last = Min({to, Len(ids)})
    OBVIOUS
  <2>2. last \in Nat /\ last <= Len(ids) /\ i <= last
    BY <1>1, <1>3, <1>4, <2>1 DEF Min
  <2>3. PICK part : part = SubSeq(ids, from + 1, last)
    OBVIOUS
  <2>4. \A k \in from + 1 .. last : ids[k] \in Ids
    BY <1>1, <1>4, <2>2, ElementOfSeq
  <2>5. /\ part \in Seq(Ids) /\ Len(part) = IF from + 1 <= last THEN last - (from + 1) + 1 ELSE 0
        /\ \A k \in 1 .. last - (from + 1) + 1 : part[k] = ids[from + 1 + k - 1]
    BY <1>4, <2>2, <2>3, <2>4, SubSeqProperties
  <2>6. PICK k : k = i - from
    OBVIOUS
  <2>7. k \in 1 .. last - (from + 1) + 1 /\ k \in 1..Len(part) /\ from + 1 + k - 1 = i
    BY <1>1, <1>4, <1>6, <2>2, <2>5, <2>6
  <2>8. part[k] = ids[i]
    BY <2>5, <2>7
  <2>9. ids[i] \in ToSet(part)
    BY <2>5, <2>7, <2>8, LenProperties DEF ToSet
  <2>10. part = Chunk(ids, n)
    BY <1>2, <1>3, <2>1, <2>3 DEF Chunk
  <2>11. QED
    BY <2>9, <2>10
<1>7. QED
  BY <1>5, <1>6

\* Before the first chunk there is none.
LEMMA NoChunk == ASSUME BatchReadsAssumption, NEW ids PROVE Reached(ids, 0) = {}
BY DEF Reached, BatchReadsAssumption

-----------------------------------------------------------------------------
(* Actions.                                                                *)

\* A call begins with the first chunk, and its history with the rows there are.
LEMMA CallSound ==
  ASSUME Sound, BatchReadsAssumption, Call
  PROVE  Sound'
<1>1. PICK n \in 1 .. MaxAsked : \E ids \in [1 .. n -> Ids], consistent \in BOOLEAN :
        /\ call' = [Idle EXCEPT !.step = "asking", !.ids = ids, !.consistent = consistent,
                                !.pending = ToSet(Chunk(ids, 1))]
        /\ standing' = IF consistent THEN table ELSE table \cap replica
        /\ absent' = IF consistent THEN Ids \ table ELSE Ids \ (table \cup replica)
  BY DEF Call
<1>2. PICK ids \in [1 .. n -> Ids], consistent \in BOOLEAN :
        /\ call' = [Idle EXCEPT !.step = "asking", !.ids = ids, !.consistent = consistent,
                                !.pending = ToSet(Chunk(ids, 1))]
        /\ standing' = IF consistent THEN table ELSE table \cap replica
        /\ absent' = IF consistent THEN Ids \ table ELSE Ids \ (table \cup replica)
  BY <1>1
<1>3. n \in Nat \ {0}
  BY DEF BatchReadsAssumption
<1>4. ids \in Seq(Ids)
  BY <1>3, SeqDef
<1>5. Len(ids) \in Nat \ {0}
  BY <1>3, <1>4, LenProperties
<1>6. PICK pending : pending = ToSet(Chunk(ids, 1))
  OBVIOUS
<1>7. PICK p : p = [Idle EXCEPT !.step = "asking", !.ids = ids, !.consistent = consistent,
                                !.pending = pending]
  OBVIOUS
<1>8. call' = p
  BY <1>2, <1>6, <1>7
<1>9. /\ Shaped(p) /\ p.step = "asking" /\ p.ids = ids /\ p.consistent = consistent /\ p.chunk = 1
      /\ p.pending = pending /\ p.results = {}
  BY <1>4, <1>7 DEF Idle, Shaped
<1>10. HistorySound'
  BY <1>2, <1>8, <1>9 DEF HistorySound, Source, Call
<1>11. \A i \in Reached(ids, 1) : ids[i] \in pending
  <2> SUFFICES ASSUME NEW i \in Reached(ids, 1) PROVE ids[i] \in pending
    OBVIOUS
  <2>1. i \in Reached(ids, 1 - 1) \/ ids[i] \in ToSet(Chunk(ids, 1))
    BY <1>4, NextChunk
  <2>2. Reached(ids, 1 - 1) = {}
    BY NoChunk
  <2>3. QED
    BY <1>6, <2>1, <2>2
<1>12. AskingSound'
  BY <1>5, <1>8, <1>9, <1>11 DEF AskingSound, Reached
<1>13. QED
  BY <1>8, <1>9, <1>10, <1>12 DEF Sound, NoneMeansMissing

\* What one BatchGetItem makes of a call.
Outcome(c, processed) ==
    LET results == Found(processed)
        rest == c.pending \ processed
        here == [c EXCEPT !.results = results]
    IN IF rest # {} /\ Retries
       THEN [here EXCEPT !.pending = rest, !.attempt = @ + 1]
       ELSE IF Fails(rest)
       THEN [here EXCEPT !.pending = rest, !.step = "failed"]
       ELSE IF c.chunk < Chunks(c.ids)
       THEN [here EXCEPT !.chunk = @ + 1, !.attempt = 1,
                         !.pending = ToSet(Chunk(c.ids, c.chunk + 1))]
       ELSE [here EXCEPT !.step = "answered", !.pending = {},
                         !.answer = Aligned(c.ids, results)]

\* One BatchGetItem: what stands is found or comes back, and a call that has no
\* key left to ask for has found all that stands.
LEMMA AttemptSound ==
  ASSUME Sound, BatchReadsAssumption, Attempt
  PROVE  Sound'
<1>1. PICK c : c = call
  OBVIOUS
<1>2. /\ Shaped(c) /\ c.step = "asking" /\ HistorySound /\ AskingSound
      /\ UNCHANGED <<table, replica, standing, absent>>
  BY <1>1 DEF Sound, Attempt
<1>3. PICK processed \in SUBSET c.pending : call' = Outcome(c, processed)
  <2>1. \E processed \in SUBSET call.pending : call' = Outcome(call, processed)
    BY DEF Attempt, Outcome
  <2>2. QED
    BY <1>1, <2>1
<1>4. PICK results : results = Found(processed)
  OBVIOUS
<1>5. PICK rest : rest = c.pending \ processed
  OBVIOUS
<1>6. /\ results \cap absent = {}
      /\ \A i \in Reached(c.ids, c.chunk) : c.ids[i] \in standing => c.ids[i] \in results \cup rest
  BY <1>1, <1>2, <1>4, <1>5 DEF HistorySound, AskingSound, Found
<1>7. Len(c.ids) \in Nat \ {0} /\ c.chunk \in Nat \ {0} /\ c.ids \in Seq(Ids)
  BY <1>1, <1>2 DEF AskingSound, Shaped
<1>8. CASE rest # {} /\ Retries
  <2>1. PICK attempt : attempt = c.attempt + 1
    OBVIOUS
  <2>2. call' = [c EXCEPT !.results = results, !.pending = rest, !.attempt = attempt]
    BY <1>2, <1>3, <1>4, <1>5, <1>8, <2>1 DEF Shaped, Outcome
  <2>3. PICK p : p = [c EXCEPT !.results = results, !.pending = rest, !.attempt = attempt]
    OBVIOUS
  <2>4. /\ Shaped(p) /\ p.step = "asking" /\ p.ids = c.ids /\ p.consistent = c.consistent
        /\ p.chunk = c.chunk /\ p.pending = rest /\ p.results = results
    BY <1>2, <2>3 DEF Shaped
  <2>5. call' = p
    BY <2>2, <2>3
  <2>6. HistorySound'
    BY <1>1, <1>2, <2>4, <2>5 DEF HistorySound, Source
  <2>7. AskingSound'
    BY <1>2, <1>6, <1>7, <2>4, <2>5 DEF AskingSound, Reached
  <2>8. QED
    BY <2>4, <2>5, <2>6, <2>7 DEF Sound, NoneMeansMissing
<1>9. CASE ~(rest # {} /\ Retries) /\ rest # {}
  <2>1. call' = [c EXCEPT !.results = results, !.pending = rest, !.step = "failed"]
    BY <1>2, <1>3, <1>4, <1>5, <1>9 DEF Shaped, Fails, Outcome
  <2>2. PICK p : p = [c EXCEPT !.results = results, !.pending = rest, !.step = "failed"]
    OBVIOUS
  <2>3. Shaped(p) /\ p.step = "failed"
    BY <1>2, <2>2 DEF Shaped
  <2>4. call' = p
    BY <2>1, <2>2
  <2>5. QED
    BY <2>3, <2>4 DEF Sound, NoneMeansMissing
<1>10. CASE rest = {} /\ c.chunk < Chunks(c.ids)
  <2>1. PICK pending : pending = ToSet(Chunk(c.ids, c.chunk + 1))
    OBVIOUS
  <2>2. PICK chunk : chunk = c.chunk + 1
    OBVIOUS
  <2>3. call' = [c EXCEPT !.results = results, !.chunk = chunk, !.attempt = 1, !.pending = pending]
    BY <1>2, <1>3, <1>4, <1>5, <1>10, <2>1, <2>2 DEF Shaped, Fails, Outcome
  <2>4. PICK p : p = [c EXCEPT !.results = results, !.chunk = chunk, !.attempt = 1,
                               !.pending = pending]
    OBVIOUS
  <2>5. /\ Shaped(p) /\ p.step = "asking" /\ p.ids = c.ids /\ p.consistent = c.consistent
        /\ p.chunk = chunk /\ p.pending = pending /\ p.results = results
    BY <1>2, <2>4 DEF Shaped
  <2>6. call' = p
    BY <2>3, <2>4
  <2>7. HistorySound'
    BY <1>1, <1>2, <2>5, <2>6 DEF HistorySound, Source
  <2>8. chunk \in Nat \ {0} /\ chunk - 1 = c.chunk
    BY <1>7, <2>2
  <2>9. ASSUME NEW i \in Reached(c.ids, chunk), c.ids[i] \in standing
        PROVE  c.ids[i] \in results \cup pending
    <3>1. i \in Reached(c.ids, chunk - 1) \/ c.ids[i] \in ToSet(Chunk(c.ids, chunk))
      BY <1>7, <2>8, NextChunk
    <3>2. CASE i \in Reached(c.ids, c.chunk)
      BY <1>6, <1>10, <2>9, <3>2
    <3>3. CASE c.ids[i] \in ToSet(Chunk(c.ids, chunk))
      BY <2>1, <2>2, <3>3
    <3>4. QED
      BY <2>8, <3>1, <3>2, <3>3
  <2>10. AskingSound'
    BY <1>2, <1>6, <1>7, <2>5, <2>6, <2>8, <2>9 DEF AskingSound, Reached
  <2>11. QED
    BY <2>5, <2>6, <2>7, <2>10 DEF Sound, NoneMeansMissing
<1>11. CASE rest = {} /\ ~(c.chunk < Chunks(c.ids))
  <2>1. PICK answer : answer = Aligned(c.ids, results)
    OBVIOUS
  <2>2. call' = [c EXCEPT !.results = results, !.step = "answered", !.pending = {},
                          !.answer = answer]
    BY <1>2, <1>3, <1>4, <1>5, <1>11, <2>1 DEF Shaped, Fails, Outcome
  <2>3. PICK p : p = [c EXCEPT !.results = results, !.step = "answered", !.pending = {},
                               !.answer = answer]
    OBVIOUS
  <2>4. Shaped(p) /\ p.step = "answered" /\ p.ids = c.ids /\ p.answer = answer
    BY <1>2, <2>3 DEF Shaped
  <2>5. call' = p
    BY <2>2, <2>3
  <2>6. Len(c.ids) <= c.chunk * ChunkSize
    BY <1>7, <1>11, LastChunk DEF Chunks
  <2>7. c.chunk * ChunkSize \in Nat
    BY <1>7, SMT DEF BatchReadsAssumption
  <2>8. \A i \in 1..Len(c.ids) : i \in Reached(c.ids, c.chunk)
    BY <1>7, <2>6, <2>7 DEF Reached
  <2>9. /\ answer = [i \in 1 .. Len(c.ids) |-> IF c.ids[i] \in results THEN c.ids[i] ELSE None]
        /\ \A i \in 1..Len(c.ids) : answer[i] = IF c.ids[i] \in results THEN c.ids[i] ELSE None
    BY <2>1 DEF Aligned
  <2>10. Len(answer) = Len(c.ids)
    <3>1. \A i \in 1..Len(c.ids) : answer[i] \in Ids \cup {None}
      BY <1>7, <2>9, ElementOfSeq
    <3>2. answer \in [1..Len(c.ids) -> Ids \cup {None}]
      BY <2>9, <3>1
    <3>3. answer \in Seq(Ids \cup {None})
      BY <1>7, <3>2, SeqDef
    <3>4. QED
      BY <1>7, <3>2, <3>3, LenProperties
  <2>11. ASSUME NEW i \in 1..Len(c.ids)
         PROVE  /\ c.ids[i] \in standing => answer[i] = c.ids[i]
                /\ c.ids[i] \in absent => answer[i] = None
    BY <1>6, <1>11, <2>8, <2>9
  <2>12. NoneMeansMissing'
    BY <1>2, <2>4, <2>5, <2>10, <2>11 DEF NoneMeansMissing
  <2>13. QED
    BY <2>4, <2>5, <2>12 DEF Sound
<1>12. QED
  BY <1>8, <1>9, <1>10, <1>11

\* A failed request fails the call.
LEMMA AttemptFailsSound ==
  ASSUME Sound, AttemptFails
  PROVE  Sound'
<1>1. PICK c : c = call
  OBVIOUS
<1>2. PICK p : p = [c EXCEPT !.step = "failed"]
  OBVIOUS
<1>3. Shaped(p) /\ p.step = "failed"
  BY <1>1, <1>2 DEF Shaped, Sound
<1>4. call' = p
  BY <1>1, <1>2 DEF AttemptFails
<1>5. QED
  BY <1>3, <1>4 DEF Sound, NoneMeansMissing

\* A row that is put or deleted during a call neither stands nor is absent.
LEMMA WriteSound ==
  ASSUME Sound, Write
  PROVE  Sound'
<1>1. PICK id \in Ids :
        /\ table' = IF id \in table THEN table \ {id} ELSE table \cup {id}
        /\ standing' = standing \ {id} /\ absent' = absent \ {id}
        /\ replica' = replica /\ call' = call
  BY DEF Write
<1>2. Source' = IF call.consistent THEN table' ELSE replica
  BY <1>1 DEF Source
<1>3. HistorySound => HistorySound'
  BY <1>1, <1>2 DEF HistorySound, Source, Sound, Shaped
<1>4. AskingSound => AskingSound'
  BY <1>1 DEF AskingSound, Reached
<1>5. NoneMeansMissing'
  BY <1>1 DEF Sound, NoneMeansMissing
<1>6. QED
  BY <1>1, <1>3, <1>4, <1>5 DEF Sound, Shaped

\* What an ordinary read sees late was written since, or before the call and on
\* neither side of its history.
LEMMA CatchUpSound ==
  ASSUME Sound, CatchUp
  PROVE  Sound'
<1>1. PICK id \in (table \cup replica) \ (table \cap replica) :
        replica' = IF id \in table THEN replica \cup {id} ELSE replica \ {id}
  BY DEF CatchUp
<1>2. UNCHANGED <<table, call, standing, absent>>
  BY DEF CatchUp
<1>3. Source' = IF call.consistent THEN table ELSE replica'
  BY <1>2 DEF Source
<1>4. HistorySound => HistorySound'
  BY <1>1, <1>2, <1>3 DEF HistorySound, Source, Sound, Shaped
<1>5. AskingSound => AskingSound'
  BY <1>2 DEF AskingSound, Reached
<1>6. QED
  BY <1>2, <1>4, <1>5 DEF Sound, NoneMeansMissing, Shaped

\* get_records: a None stands for a row that was missing at some moment of the
\* call, whatever came back unprocessed, in whichever chunk, and however often.
THEOREM NoneAlwaysMeansMissing ==
  ASSUME BatchReadsAssumption
  PROVE  Spec => []NoneMeansMissing
<1>1. Init => Sound
  <2>1. <<>> \in Seq(Ids)
    BY EmptySeq
  <2>2. QED
    BY <2>1 DEF Init, Idle, Sound, Shaped, NoneMeansMissing
<1>2. Sound /\ [Next]_vars => Sound'
  <2>1. CASE UNCHANGED vars
    BY <2>1 DEF vars, Sound, Shaped, HistorySound, AskingSound, NoneMeansMissing, Source, Reached
  <2>2. QED
    BY <2>1, CallSound, AttemptSound, AttemptFailsSound, WriteSound, CatchUpSound DEF Next
<1>3. Sound => NoneMeansMissing
  BY DEF Sound
<1>4. QED
  BY <1>1, <1>2, <1>3, PTL DEF Spec

-----------------------------------------------------------------------------
(* Types, and with them the bounds on chunks and attempts.                 *)

\* While a call asks, its chunk is one of those its ids make.
Bounded ==
    /\ Shaped(call)
    /\ call.step = "asking" =>
        /\ Len(call.ids) \in 1 .. MaxAsked
        /\ call.chunk <= Chunks(call.ids)

Typed == TypeOK /\ Bounded

\* There are no more chunks than ids, and one at least.
LEMMA ChunkCount ==
  ASSUME BatchReadsAssumption, NEW ids \in Seq(Ids), Len(ids) \in 1 .. MaxAsked
  PROVE  Chunks(ids) \in 1 .. MaxAsked
<1>1. PICK L : L = Len(ids)
  OBVIOUS
<1>2. PICK q : q = (L + ChunkSize - 1) \div ChunkSize
  OBVIOUS
<1>3. ChunkSize \in Nat \ {0} /\ L \in 1 .. MaxAsked /\ MaxAsked \in Nat
  BY <1>1 DEF BatchReadsAssumption
<1>4. /\ q \in Nat
      /\ q * ChunkSize <= L + ChunkSize - 1
      /\ L + ChunkSize - 1 < q * ChunkSize + ChunkSize
  BY <1>2, <1>3, SMT
<1>5. q # 0
  BY <1>3, <1>4, SMT
<1>6. q <= L
  <2>1. SUFFICES ASSUME q >= L + 1 PROVE FALSE
    BY <1>3, <1>4
  <2>2. (L + 1) * ChunkSize <= q * ChunkSize
    BY <1>3, <1>4, <2>1, SMT
  <2>3. (L + 1) * ChunkSize = L * ChunkSize + ChunkSize /\ L <= L * ChunkSize
    BY <1>3, SMT
  <2>4. L * ChunkSize \in Nat /\ q * ChunkSize \in Nat
    BY <1>3, <1>4, SMT
  <2>5. QED
    BY <1>3, <1>4, <2>2, <2>3, <2>4
<1>7. q = Chunks(ids)
  BY <1>1, <1>2 DEF Chunks
<1>8. QED
  BY <1>3, <1>4, <1>5, <1>6, <1>7

\* A chunk is of the ids given.
LEMMA ChunkOfIds ==
  ASSUME BatchReadsAssumption, NEW ids \in Seq(Ids), NEW n \in Nat \ {0}
  PROVE  ToSet(Chunk(ids, n)) \subseteq Ids
<1>1. Len(ids) \in Nat /\ ChunkSize \in Nat \ {0}
  BY LenProperties DEF BatchReadsAssumption
<1>2. PICK from : from = (n - 1) * ChunkSize
  OBVIOUS
<1>3. PICK to : to = n * ChunkSize
  OBVIOUS
<1>4. from \in Nat /\ to \in Nat
  BY <1>1, <1>2, <1>3, SMT
<1>5. PICK last : last = Min({to, Len(ids)})
  OBVIOUS
<1>6. last \in Nat /\ last <= Len(ids)
  BY <1>1, <1>4, <1>5 DEF Min
<1>7. \A k \in from + 1 .. last : ids[k] \in Ids
  BY <1>1, <1>4, <1>6, ElementOfSeq
<1>8. PICK part : part = SubSeq(ids, from + 1, last)
  OBVIOUS
<1>9. part \in Seq(Ids)
  BY <1>4, <1>6, <1>7, <1>8, SubSeqProperties
<1>10. part = Chunk(ids, n)
  BY <1>2, <1>3, <1>5, <1>8 DEF Chunk
<1>11. \A k \in 1 .. Len(part) : part[k] \in Ids
  BY <1>9, ElementOfSeq
<1>12. ToSet(part) \subseteq Ids
  BY <1>9, <1>11, LenProperties DEF ToSet
<1>13. QED
  BY <1>10, <1>12

\* A call's fields, for the typing of a step.
CallTyped(c) ==
    /\ Shaped(c)
    /\ c.step \in {"idle", "asking", "answered", "failed"}
    /\ c.answer \in Seq(Ids \cup {None})
    /\ c.pending \subseteq Ids /\ c.results \subseteq Ids
    /\ c.chunk \in 1 .. MaxAsked /\ c.attempt \in 1 .. BatchGetMaxAttempts
    /\ c.step = "asking" => Len(c.ids) \in 1 .. MaxAsked /\ c.chunk <= Chunks(c.ids)

RowsTyped ==
    /\ table \subseteq Ids /\ replica \subseteq Ids
    /\ standing \subseteq Ids /\ absent \subseteq Ids
    /\ changes \in 0 .. MaxChanges

\* Types are those of the call and those of the rows.
LEMMA TypedParts == Typed <=> CallTyped(call) /\ RowsTyped
BY DEF Typed, TypeOK, Bounded, CallTyped, RowsTyped, Shaped

\* An attempt leaves a call typed: no chunk beyond the last is asked for, and
\* no attempt beyond BATCH_GET_MAX_ATTEMPTS is made.
LEMMA AttemptTypes ==
  ASSUME BatchReadsAssumption, CallTyped(call), RowsTyped, call.step = "asking",
         NEW processed \in SUBSET call.pending
  PROVE  CallTyped(Outcome(call, processed))
<1>1. PICK results : results = Found(processed)
  OBVIOUS
<1>2. PICK rest : rest = call.pending \ processed
  OBVIOUS
<1>3. results \subseteq Ids /\ rest \subseteq Ids
  BY <1>1, <1>2 DEF Found, Source, CallTyped, RowsTyped
<1>4. /\ call.ids \in Seq(Ids) /\ Len(call.ids) \in 1 .. MaxAsked
      /\ call.chunk \in 1 .. MaxAsked /\ call.chunk <= Chunks(call.ids)
      /\ Chunks(call.ids) \in 1 .. MaxAsked
      /\ MaxAsked \in Nat /\ BatchGetMaxAttempts \in Nat \ {0}
  BY ChunkCount DEF CallTyped, Shaped, BatchReadsAssumption
<1>5. CASE rest # {} /\ Retries
  <2>1. PICK attempt : attempt = call.attempt + 1
    OBVIOUS
  <2>2. attempt \in 1 .. BatchGetMaxAttempts
    BY <1>4, <1>5, <2>1 DEF Retries, CallTyped
  <2>3. PICK p : p = [call EXCEPT !.results = results, !.pending = rest, !.attempt = attempt]
    OBVIOUS
  <2>4. Outcome(call, processed) = p
    BY <1>1, <1>2, <1>5, <2>1, <2>3 DEF Outcome, CallTyped, Shaped
  <2>5. CallTyped(p)
    BY <1>3, <2>2, <2>3 DEF CallTyped, Shaped
  <2>6. QED
    BY <2>4, <2>5
<1>6. CASE ~(rest # {} /\ Retries) /\ rest # {}
  <2>1. PICK p : p = [call EXCEPT !.results = results, !.pending = rest, !.step = "failed"]
    OBVIOUS
  <2>2. Outcome(call, processed) = p
    BY <1>1, <1>2, <1>6, <2>1 DEF Outcome, CallTyped, Shaped, Fails
  <2>3. CallTyped(p)
    BY <1>3, <2>1 DEF CallTyped, Shaped
  <2>4. QED
    BY <2>2, <2>3
<1>7. CASE rest = {} /\ call.chunk < Chunks(call.ids)
  <2>1. PICK chunk : chunk = call.chunk + 1
    OBVIOUS
  <2>2. PICK pending : pending = ToSet(Chunk(call.ids, chunk))
    OBVIOUS
  <2>3. chunk \in 1 .. MaxAsked /\ chunk <= Chunks(call.ids) /\ chunk \in Nat \ {0}
    BY <1>4, <1>7, <2>1
  <2>4. pending \subseteq Ids
    BY <1>4, <2>2, <2>3, ChunkOfIds
  <2>5. PICK p : p = [call EXCEPT !.results = results, !.chunk = chunk, !.attempt = 1,
                                  !.pending = pending]
    OBVIOUS
  <2>6. Outcome(call, processed) = p
    BY <1>1, <1>2, <1>7, <2>1, <2>2, <2>5 DEF Outcome, CallTyped, Shaped, Fails
  <2>7. 1 \in 1 .. BatchGetMaxAttempts
    BY <1>4
  <2>8. CallTyped(p)
    BY <1>3, <2>3, <2>4, <2>5, <2>7 DEF CallTyped, Shaped
  <2>9. QED
    BY <2>6, <2>8
<1>8. CASE rest = {} /\ ~(call.chunk < Chunks(call.ids))
  <2>1. PICK answer : answer = Aligned(call.ids, results)
    OBVIOUS
  <2>2. answer \in [1 .. Len(call.ids) -> Ids \cup {None}]
    <3>1. \A i \in 1 .. Len(call.ids) : call.ids[i] \in Ids
      BY <1>4, ElementOfSeq
    <3>2. QED
      BY <2>1, <3>1 DEF Aligned
  <2>3. answer \in Seq(Ids \cup {None})
    BY <1>4, <2>2, SeqDef
  <2>4. PICK p : p = [call EXCEPT !.results = results, !.step = "answered", !.pending = {},
                                  !.answer = answer]
    OBVIOUS
  <2>5. Outcome(call, processed) = p
    BY <1>1, <1>2, <1>8, <2>1, <2>4 DEF Outcome, CallTyped, Shaped, Fails
  <2>6. CallTyped(p)
    BY <1>3, <2>3, <2>4 DEF CallTyped, Shaped
  <2>7. QED
    BY <2>5, <2>6
<1>9. QED
  BY <1>5, <1>6, <1>7, <1>8

\* A call begins typed.
LEMMA CallTypes ==
  ASSUME BatchReadsAssumption, CallTyped(call), RowsTyped, Call
  PROVE  CallTyped(call)' /\ RowsTyped'
<1>1. PICK n \in 1 .. MaxAsked : \E ids \in [1 .. n -> Ids], consistent \in BOOLEAN :
        /\ call' = [Idle EXCEPT !.step = "asking", !.ids = ids, !.consistent = consistent,
                                !.pending = ToSet(Chunk(ids, 1))]
        /\ standing' = IF consistent THEN table ELSE table \cap replica
        /\ absent' = IF consistent THEN Ids \ table ELSE Ids \ (table \cup replica)
  BY DEF Call
<1>2. PICK ids \in [1 .. n -> Ids], consistent \in BOOLEAN :
        /\ call' = [Idle EXCEPT !.step = "asking", !.ids = ids, !.consistent = consistent,
                                !.pending = ToSet(Chunk(ids, 1))]
        /\ standing' = IF consistent THEN table ELSE table \cap replica
        /\ absent' = IF consistent THEN Ids \ table ELSE Ids \ (table \cup replica)
  BY <1>1
<1>3. /\ n \in Nat \ {0} /\ MaxAsked \in Nat \ {0} /\ BatchGetMaxAttempts \in Nat \ {0}
  BY DEF BatchReadsAssumption
<1>4. ids \in Seq(Ids)
  BY <1>3, SeqDef
<1>5. Len(ids) \in 1 .. MaxAsked
  BY <1>3, <1>4, LenProperties
<1>6. Chunks(ids) \in 1 .. MaxAsked /\ ToSet(Chunk(ids, 1)) \subseteq Ids
  BY <1>4, <1>5, ChunkCount, ChunkOfIds
<1>7. PICK pending : pending = ToSet(Chunk(ids, 1))
  OBVIOUS
<1>8. PICK p : p = [Idle EXCEPT !.step = "asking", !.ids = ids, !.consistent = consistent,
                                !.pending = pending]
  OBVIOUS
<1>9. call' = p
  BY <1>2, <1>7, <1>8
<1>10. <<>> \in Seq(Ids \cup {None})
  BY EmptySeq
<1>11. 1 <= Chunks(ids) /\ 1 \in 1 .. MaxAsked /\ 1 \in 1 .. BatchGetMaxAttempts
  BY <1>3, <1>6
<1>12. CallTyped(p)
  BY <1>4, <1>5, <1>6, <1>7, <1>8, <1>10, <1>11 DEF Idle, CallTyped, Shaped
<1>13. RowsTyped'
  BY <1>2 DEF RowsTyped, Call
<1>14. QED
  BY <1>9, <1>12, <1>13

\* Batch reads are well typed: a call asks for no more chunks than its ids make
\* and makes BATCH_GET_MAX_ATTEMPTS attempts at a chunk at most (get_records).
THEOREM BatchTypeCorrect ==
  ASSUME BatchReadsAssumption
  PROVE  Spec => []TypeOK
<1>1. Init => Typed
  <2>1. <<>> \in Seq(Ids) /\ <<>> \in Seq(Ids \cup {None})
    BY EmptySeq
  <2>2. /\ 1 \in 1 .. MaxAsked /\ 1 \in 1 .. BatchGetMaxAttempts /\ 0 \in 0 .. MaxChanges
    BY DEF BatchReadsAssumption
  <2>3. Init => CallTyped(call)
    BY <2>1, <2>2 DEF Init, Idle, CallTyped, Shaped
  <2>4. Init => RowsTyped
    BY <2>2 DEF Init, RowsTyped
  <2>5. QED
    BY <2>3, <2>4, TypedParts
<1>2. CallTyped(call) /\ RowsTyped /\ [Next]_vars => CallTyped(call)' /\ RowsTyped'
  <2> SUFFICES ASSUME CallTyped(call), RowsTyped, [Next]_vars
               PROVE  CallTyped(call)' /\ RowsTyped'
    OBVIOUS
  <2>1. CASE UNCHANGED vars
    BY <2>1 DEF vars, CallTyped, RowsTyped, Shaped
  <2>2. CASE Call
    BY <2>2, CallTypes
  <2>3. CASE Attempt
    <3>1. \E processed \in SUBSET call.pending : call' = Outcome(call, processed)
      BY <2>3 DEF Attempt, Outcome
    <3>2. PICK processed \in SUBSET call.pending : call' = Outcome(call, processed)
      BY <3>1
    <3>3. CallTyped(Outcome(call, processed))
      BY <2>3, AttemptTypes DEF Attempt
    <3>4. CallTyped(call')
      BY <3>2, <3>3
    <3>5. RowsTyped'
      BY <2>3 DEF Attempt, RowsTyped
    <3>6. QED
      BY <3>4, <3>5
  <2>4. CASE AttemptFails
    <3>1. PICK p : p = [call EXCEPT !.step = "failed"]
      OBVIOUS
    <3>2. CallTyped(p)
      BY <3>1 DEF CallTyped, Shaped
    <3>3. call' = p
      BY <2>4, <3>1 DEF AttemptFails
    <3>4. RowsTyped'
      BY <2>4 DEF AttemptFails, RowsTyped
    <3>5. QED
      BY <3>2, <3>3, <3>4
  <2>5. CASE Write
    <3>1. call' = call
      BY <2>5 DEF Write
    <3>2. RowsTyped'
      BY <2>5 DEF Write, RowsTyped, BatchReadsAssumption
    <3>3. QED
      BY <3>1, <3>2
  <2>6. CASE CatchUp
    <3>1. call' = call
      BY <2>6 DEF CatchUp
    <3>2. RowsTyped'
      BY <2>6 DEF CatchUp, RowsTyped
    <3>3. QED
      BY <3>1, <3>2
  <2>7. QED
    BY <2>1, <2>2, <2>3, <2>4, <2>5, <2>6 DEF Next
<1>3. Typed /\ [Next]_vars => Typed'
  <2>1. CallTyped(call)' /\ RowsTyped' => Typed'
    BY DEF Typed, TypeOK, Bounded, CallTyped, RowsTyped, Shaped
  <2>2. QED
    BY <1>2, <2>1, TypedParts
<1>4. Typed => TypeOK
  BY DEF Typed
<1>5. QED
  BY <1>1, <1>3, <1>4, PTL DEF Spec
=============================================================================
