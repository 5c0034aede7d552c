------------------------- MODULE InboundMailProofs -------------------------
(***************************************************************************)
(* Proofs about InboundMail, for every value of its constants: what the    *)
(* queue, the claims, the workers and the rows they have stored have to do *)
(* with each other, beside the agents' resolvers of Tickets; and from it   *)
(* that inbound mail implements Inbox, that mail loops end and that who    *)
(* wrote to a ticket stays on it.                                          *)
(***************************************************************************)
EXTENDS InboundMail, TicketsProofs

-----------------------------------------------------------------------------
(* The inductive invariant.                                                *)

\* The mail's row in processed_message is this worker's, and the mail has no
\* row yet; or has one.
Claimed == {"resolve", "addSender", "reopen", "number", "open", "store"}
Stored  == {"stamp", "files", "flag", "others", "othersRow", "othersStamp", "staff"}
Past    == Claimed \cup Stored

\* The mail has a ticket.
OnTicket == {"addSender", "reopen", "store"} \cup Stored

\* Mail that has not an id of its own comes from an address of ours.
ContentSound ==
    /\ content \in [Incoming -> ReceivedMail \cup {None}]
    /\ \A s \in Incoming : content[s] # None =>
        content[s].id \in Incoming \/ Match(Routes, content[s].from) # None

\* What is on the queue has arrived, and what a worker has is not on the queue.
QueueSound ==
    /\ deliveries \in [Delivery -> {"unsent", "queued", "held", "done", "dead"}]
    /\ receives \in [Delivery -> 0..MaxReceives]
    /\ work \in [Workers -> Worker]
    /\ \A d \in Delivery : deliveries[d] # "unsent" => content[d[1]] # None
    /\ \A w \in Workers : work[w].step # "idle" =>
        work[w].delivery \in Delivery /\ deliveries[work[w].delivery] = "held"

\* A mail is stored once, if the pipeline accepts it, on a ticket of its instance.
KeptSound ==
    /\ claims \subseteq Incoming /\ refused \subseteq claims
    /\ kept \in [Incoming -> SUBSET (1..Len(messages))]
    /\ \A s \in Incoming : \A m \in kept[s] :
        /\ s \in claims
        /\ content[s] # None /\ ~Refuses(content[s])
        /\ tickets[messages[m].ticket].instance = AddressedTo(content[s])
        /\ kept[s] = {m}

\* What a worker with the record q, at work on mail, goes on with is there.
Holds(q, mail) ==
    /\ q.step \in Past \ {"resolve"} => ~Refuses(mail) /\ q.instance = AddressedTo(mail)
    /\ q.step \in OnTicket =>
        /\ q.ticket \in 1..Len(tickets) /\ tickets[q.ticket].instance = q.instance
        /\ q.row \in Ticket
    /\ q.step = "open" =>
        /\ q.row \in Ticket /\ Agrees(q.row) /\ ~q.row.hasAttachments
        /\ q.row.instance = q.instance /\ Free(q.instance, q.row.number)
        /\ mail.from \in q.row.requesters
    /\ q.step \in Stored =>
        /\ q.message \in 1..Len(messages) /\ messages[q.message].ticket = q.ticket
    /\ q.step = "stamp" => messages[q.message].kind = "inbound" /\ messages[q.message].rfc = None
    /\ q.step = "flag" => messages[q.message].attachments
    /\ q.step \in {"othersRow", "othersStamp"} =>
        /\ q.sent \in 1..Len(mails)
        /\ mails[q.sent].ticket = q.ticket /\ mails[q.sent].message = 0
        /\ mails[q.sent].envelope.cc = {}
    /\ q.step = "othersStamp" =>
        /\ messages[q.message].kind = "system"
        /\ messages[q.message].to = mails[q.sent].envelope.to /\ messages[q.message].cc = {}

WorkersSound ==
    \A w \in Workers : LET q == work[w] IN
        /\ q.step # "idle" => Holds(q, Got(w))
        /\ q.step \in Past => q.delivery[1] \in claims
        /\ q.step \in Claimed => kept[q.delivery[1]] = {}

\* Two workers have nothing in common.
Clear(p, q) ==
    /\ p.step # "idle" /\ q.step # "idle" => p.delivery # q.delivery
    /\ p.step \in Past /\ q.step \in Past => p.delivery[1] # q.delivery[1]
    /\ p.step = "open" /\ q.step = "open" /\ p.instance = q.instance
        => p.row.number # q.row.number
    /\ p.step = "stamp" /\ q.step = "stamp" => p.message # q.message

WorkersApart == \A v, w \in Workers : v # w => Clear(work[v], work[w])

MailSound == ContentSound /\ QueueSound /\ KeptSound /\ WorkersSound /\ WorkersApart

InboundConsistent == Consistent /\ MailSound

-----------------------------------------------------------------------------
(* Mail the pipeline accepts.                                              *)

\* It is for an instance, and from nobody of ours.
LEMMA Accepted ==
  ASSUME NEW mail, ~Refuses(mail)
  PROVE  /\ AddressedTo(mail) \in Instances
         /\ ~check_structural(mail.headers)
         /\ Match(Routes, mail.from) = None
<1>1. AddressedTo(mail) \in Instances
  <2> DEFINE hits == {i \in DOMAIN mail.to : Match(Routes, mail.to[i]) # None}
  <2>1. resolve_instance_id(Routes, mail.to)
          = IF hits = {} THEN None ELSE Match(Routes, mail.to[Min(hits)])
    BY DEF resolve_instance_id
  <2>2. resolve_instance_id(Routes, mail.to) # None
    BY DEF Refuses
  <2>3. Match(Routes, mail.to[Min(hits)]) \in Instances \cup {None}
    BY Matches
  <2>4. QED
    BY <2>1, <2>2, <2>3 DEF AddressedTo
<1>2. Match(Routes, mail.from) = None
  <2> DEFINE hits == {i \in DOMAIN <<mail.from>> : Match(Routes, <<mail.from>>[i]) # None}
  <2>1. resolve_instance_id(Routes, <<mail.from>>)
          = IF hits = {} THEN None ELSE Match(Routes, <<mail.from>>[Min(hits)])
    BY DEF resolve_instance_id
  <2>2. resolve_instance_id(Routes, <<mail.from>>) = None
    BY DEF Refuses
  <2>3. ASSUME Match(Routes, mail.from) # None PROVE FALSE
    <3>1. 1 \in hits /\ hits \subseteq 1..2 /\ \A i \in hits : i = 1
      BY <2>3
    <3>2. Min(hits) = 1
      BY <3>1, FirstOfTwo
    <3>3. QED
      BY <2>1, <2>2, <2>3, <3>1, <3>2
  <2>4. QED
    BY <2>3
<1>3. QED
  BY <1>1, <1>2 DEF Refuses

-----------------------------------------------------------------------------
(* What the workers hold survives what the others do.                      *)

\* What a worker with the record q alone may use is left to it: the number it
\* took, and the row it is to stamp.
Unharmed(q) ==
    /\ q.step = "open" => Free(q.instance, q.row.number)'
    /\ q.step = "stamp" => messages'[q.message].rfc = messages[q.message].rfc

\* Rows and mails are kept.
LEMMA HoldsKept ==
  ASSUME TablesSound, Grown, NEW q, NEW mail, Holds(q, mail), Unharmed(q)
  PROVE  Holds(q, mail)'
<1>1. q.step \in OnTicket => q.ticket \in 1..Len(tickets') /\ tickets'[q.ticket].instance = q.instance
  BY SMT DEF Holds, Grown, TicketsKept, Longer
<1>2. q.step \in Stored => q.message \in 1..Len(messages') /\ messages'[q.message].ticket = q.ticket
  BY SMT DEF Holds, Grown, MessagesKept, Longer
<1>3. /\ q.step = "stamp" => messages'[q.message].kind = "inbound" /\ messages'[q.message].rfc = None
      /\ q.step = "flag" => messages'[q.message].attachments
  BY DEF Holds, Grown, MessagesKept, Stored, Unharmed
<1>4. q.step \in {"othersRow", "othersStamp"} =>
        /\ q.sent \in 1..Len(mails')
        /\ mails'[q.sent] = mails[q.sent]
  BY SMT DEF Holds, Grown, MailsKept, Longer
<1>5. q.step = "othersStamp" =>
        /\ messages'[q.message].kind = "system"
        /\ messages'[q.message].to = mails'[q.sent].envelope.to /\ messages'[q.message].cc = {}
  BY <1>4 DEF Holds, Grown, MessagesKept, Stored
<1>6. QED
  BY <1>1, <1>2, <1>3, <1>4, <1>5 DEF Holds, Unharmed

\* A resolver's step leaves every worker what it has.
LEMMA OnwardUnharmed ==
  ASSUME InboundConsistent, Onward, NEW v \in Workers, NEW q, q = work[v]
  PROVE  Unharmed(q)
<1>2. q.step \in Past => Holds(q, Got(v))
  BY DEF InboundConsistent, MailSound, WorkersSound, Past, Claimed, Stored
<1>3. q.step = "open" => Free(q.instance, q.row.number)'
  <2> SUFFICES ASSUME q.step = "open" PROVE Free(q.instance, q.row.number)'
    OBVIOUS
  <2>1. Free(q.instance, q.row.number) /\ q.row \in Ticket /\ q.row.instance = q.instance
    BY <1>2 DEF Holds, Past, Claimed
  <2>2. q.instance \in Instances /\ q.row.number \in Nat
    BY <2>1, SMT DEF Ticket
  <2>3. QED
    BY <2>1, <2>2 DEF Onward, FreeStays
<1>4. q.step = "stamp" => messages'[q.message].rfc = messages[q.message].rfc
  <2> SUFFICES ASSUME q.step = "stamp"
               PROVE  messages'[q.message].rfc = messages[q.message].rfc
    OBVIOUS
  <2>1. q.message \in 1..Len(messages) /\ messages[q.message].kind = "inbound"
    BY <1>2 DEF Holds, Past, Stored
  <2>2. messages'[q.message].kind = "inbound" /\ q.message \in 1..Len(messages')
    BY <2>1, SMT DEF Onward, Kept, Grown, MessagesKept, Longer
  <2>3. QED
    BY <2>1, <2>2 DEF Onward, Kept, ReceivedStay
<1>5. QED
  BY <1>3, <1>4 DEF Unharmed

\* What is stored stays so.
LEMMA KeptStays ==
  ASSUME InboundConsistent, Grown, UNCHANGED kept,
         \A s \in Incoming : content[s] # None => content'[s] = content[s],
         claims \subseteq claims', claims' \subseteq Incoming, refused' \subseteq claims'
  PROVE  KeptSound'
<1>1. kept' \in [Incoming -> SUBSET (1..Len(messages'))]
  <2>1. 1..Len(messages) \subseteq 1..Len(messages')
    BY SMT DEF Grown, MessagesKept, Longer
  <2>2. QED
    BY <2>1 DEF InboundConsistent, MailSound, KeptSound
<1>2. ASSUME NEW s \in Incoming, NEW m \in kept[s]
      PROVE  /\ s \in claims' /\ content'[s] # None /\ ~Refuses(content'[s])
             /\ tickets'[messages'[m].ticket].instance = AddressedTo(content'[s])
             /\ kept[s] = {m}
  <2>1. /\ s \in claims /\ content[s] # None /\ ~Refuses(content[s])
        /\ tickets[messages[m].ticket].instance = AddressedTo(content[s])
        /\ kept[s] = {m} /\ m \in 1..Len(messages)
    BY <1>2 DEF InboundConsistent, MailSound, KeptSound
  <2>2. messages[m].ticket \in 1..Len(tickets)
    BY <2>1 DEF InboundConsistent, Consistent, TablesSound, MessagesSound
  <2>3. /\ messages'[m].ticket = messages[m].ticket
        /\ tickets'[messages[m].ticket].instance = tickets[messages[m].ticket].instance
    BY <2>1, <2>2 DEF Grown, TicketsKept, MessagesKept
  <2>4. QED
    BY <2>1, <2>3
<1>3. QED
  BY <1>1, <1>2 DEF KeptSound

-----------------------------------------------------------------------------
(* One worker goes on, or leaves, the others wait.                         *)

\* What a worker at work has.
LEMMA AtWork ==
  ASSUME InboundConsistent, NEW w \in Workers, NEW q, q = work[w], q.step # "idle"
  PROVE  /\ q \in Worker /\ q.delivery \in Delivery /\ q.delivery[1] \in Incoming
         /\ deliveries[q.delivery] = "held"
         /\ content[q.delivery[1]] \in ReceivedMail
         /\ Got(w) = content[q.delivery[1]]
         /\ Holds(q, content[q.delivery[1]])
         /\ q.step \in Past => q.delivery[1] \in claims
         /\ q.step \in Claimed => kept[q.delivery[1]] = {}
<1>1. /\ q \in Worker /\ q.delivery \in Delivery /\ deliveries[q.delivery] = "held"
      /\ content[q.delivery[1]] # None
  BY DEF InboundConsistent, MailSound, QueueSound
<1>2. q.delivery[1] \in Incoming
  BY <1>1 DEF Delivery
<1>3. content[q.delivery[1]] \in ReceivedMail
  BY <1>1, <1>2 DEF InboundConsistent, MailSound, ContentSound
<1>4. Got(w) = content[q.delivery[1]]
  BY DEF Got
<1>5. /\ Holds(q, content[q.delivery[1]])
      /\ q.step \in Past => q.delivery[1] \in claims
      /\ q.step \in Claimed => kept[q.delivery[1]] = {}
  BY <1>4 DEF InboundConsistent, MailSound, WorkersSound
<1>6. QED
  BY <1>1, <1>2, <1>3, <1>4, <1>5

\* A worker stays as it was when rows and mails are kept and nobody takes what
\* is its own.
LEMMA OtherStays ==
  ASSUME InboundConsistent, Grown, NEW v \in Workers, NEW q, q = work[v], Unharmed(q),
         work'[v] = q, claims \subseteq claims',
         \A s \in Incoming : content[s] # None => content'[s] = content[s],
         q.step \in Claimed => kept'[q.delivery[1]] = kept[q.delivery[1]],
         NEW mail, mail = content'[q.delivery[1]]
  PROVE  /\ q.step # "idle" => Holds(q, mail)'
         /\ q.step \in Past => q.delivery[1] \in claims'
         /\ q.step \in Claimed => kept'[q.delivery[1]] = {}
<1> SUFFICES ASSUME q.step # "idle"
             PROVE  /\ Holds(q, mail)'
                    /\ q.step \in Past => q.delivery[1] \in claims'
                    /\ q.step \in Claimed => kept'[q.delivery[1]] = {}
  BY DEF Past, Claimed, Stored
<1>1. mail = content[q.delivery[1]]
  <2>1. q.delivery[1] \in Incoming /\ content[q.delivery[1]] \in ReceivedMail
    BY AtWork
  <2>2. QED
    BY <2>1, LettersAssumption
<1>2. /\ Holds(q, mail) /\ mail \in ReceivedMail /\ q.delivery[1] \in Incoming
      /\ q.step \in Past => q.delivery[1] \in claims
      /\ q.step \in Claimed => kept[q.delivery[1]] = {}
  BY <1>1, AtWork
<1>4. Holds(q, mail)'
  BY <1>2, HoldsKept DEF InboundConsistent, Consistent
<1>5. QED
  BY <1>2, <1>4

\* What each worker holds, worker by worker.
LEMMA AllHold ==
  ASSUME \A v \in Workers : \A o, letter :
            o = work'[v] /\ letter = content'[o.delivery[1]] =>
                /\ o.step # "idle" => Holds(o, letter)'
                /\ o.step \in Past => o.delivery[1] \in claims'
                /\ o.step \in Claimed => kept'[o.delivery[1]] = {}
  PROVE  WorkersSound'
<1>1. ASSUME NEW v \in Workers
      PROVE  /\ work'[v].step # "idle" => Holds(work[v], Got(v))'
             /\ work'[v].step \in Past => work'[v].delivery[1] \in claims'
             /\ work'[v].step \in Claimed => kept'[work'[v].delivery[1]] = {}
  <2>1. PICK o : o = work'[v]
    OBVIOUS
  <2>2. PICK letter : letter = content'[o.delivery[1]]
    OBVIOUS
  <2>3. Got(v)' = letter
    BY <2>1, <2>2 DEF Got
  <2>4. o.step # "idle" => Holds(o, letter)'
    BY <2>1, <2>2
  <2>5. o.step # "idle" => Holds(work[v], Got(v))'
    BY <2>1, <2>3, <2>4 DEF Holds
  <2>6. QED
    BY <2>1, <2>2, <2>5
<1>2. QED
  BY <1>1 DEF WorkersSound

\* The worker has what it goes on with, and nobody else has it.
LEMMA WorkerGoes ==
  ASSUME InboundConsistent, NEW w \in Workers, NEW q, q = work[w], q.step # "idle",
         NEW p \in Worker, Proceed(w, p), p.delivery = q.delivery, p.step # "idle",
         UNCHANGED <<content, receives>>, claims \subseteq claims',
         Consistent', Grown, \A v \in Workers \ {w} : \A o : o = work[v] => Unharmed(o),
         KeptSound', \A s \in Incoming \ {q.delivery[1]} : kept'[s] = kept[s],
         NEW mail, mail = content[q.delivery[1]], Holds(p, mail)',
         p.step \in Past => q.delivery[1] \in claims',
         p.step \in Claimed => kept'[q.delivery[1]] = {},
         \A v \in Workers \ {w} : Clear(work[v], p),
         \A v \in Workers \ {w} :
            work[v].step \in Claimed => work[v].delivery[1] # q.delivery[1]
  PROVE  InboundConsistent'
<1>1. \A v \in Workers : work'[v] = IF v = w THEN p ELSE work[v]
  BY DEF InboundConsistent, MailSound, QueueSound, Proceed
<1>2. ContentSound'
  BY DEF InboundConsistent, MailSound, ContentSound
<1>3. QueueSound'
  <2>1. /\ deliveries' \in [Delivery -> {"unsent", "queued", "held", "done", "dead"}]
        /\ receives' \in [Delivery -> 0..MaxReceives]
        /\ work' \in [Workers -> Worker]
        /\ \A d \in Delivery : deliveries'[d] # "unsent" => content'[d[1]] # None
    BY DEF InboundConsistent, MailSound, QueueSound, Proceed
  <2>2. ASSUME NEW v \in Workers, work'[v].step # "idle"
        PROVE  work'[v].delivery \in Delivery /\ deliveries'[work'[v].delivery] = "held"
    BY <1>1, <2>2 DEF InboundConsistent, MailSound, QueueSound, Proceed
  <2>3. QED
    BY <2>1, <2>2 DEF QueueSound
<1>4. WorkersSound'
  <2>1. ASSUME NEW v \in Workers, NEW o, o = work'[v],
               NEW letter, letter = content'[o.delivery[1]]
        PROVE  /\ o.step # "idle" => Holds(o, letter)'
               /\ o.step \in Past => o.delivery[1] \in claims'
               /\ o.step \in Claimed => kept'[o.delivery[1]] = {}
    <3>1. CASE v = w
      BY <1>1, <2>1, <3>1
    <3>2. CASE v # w
      <4>1. o = work[v] /\ Unharmed(o)
        BY <1>1, <2>1, <3>2
      <4>2. o.step \in Claimed => kept'[o.delivery[1]] = kept[o.delivery[1]]
        BY <3>2, <4>1, AtWork DEF Claimed
      <4>3. QED
        BY <2>1, <4>1, <4>2, OtherStays
    <3>3. QED
      BY <3>1, <3>2
  <2>2. QED
    BY <2>1, AllHold
<1>5. WorkersApart'
  <2>1. ASSUME NEW u \in Workers, NEW v \in Workers, u # v
        PROVE  Clear(work'[u], work'[v])
    <3>1. Clear(work[u], work[v])
      BY <2>1 DEF InboundConsistent, MailSound, WorkersApart
    <3>2. CASE u = w
      BY <1>1, <2>1, <3>2 DEF Clear
    <3>3. CASE v = w
      BY <1>1, <2>1, <3>3
    <3>4. CASE u # w /\ v # w
      BY <1>1, <3>1, <3>4
    <3>5. QED
      BY <3>2, <3>3, <3>4
  <2>2. QED
    BY <2>1 DEF WorkersApart, Clear
<1>6. QED
  BY <1>2, <1>3, <1>4, <1>5 DEF InboundConsistent, MailSound

\* A worker past its claim goes on to a further step, and the agents' resolvers
\* could have done what it does to the tables.
LEMMA WorkerGoesOn ==
  ASSUME InboundConsistent, NEW w \in Workers, NEW q, q = work[w], q.step \in Past,
         NEW p \in Worker, Proceed(w, p), p.delivery = q.delivery,
         p.step \in Past \ {"open", "stamp"}, p.step \in Claimed => q.step \in Claimed,
         Onward, UNCHANGED <<content, receives, claims, kept, refused>>,
         NEW mail, mail = content[q.delivery[1]], Holds(p, mail)'
  PROVE  InboundConsistent'
<1>1. q.step # "idle" /\ p.step # "idle"
  BY DEF Past, Claimed, Stored
<1>2. \A v \in Workers \ {w} : \A o : o = work[v] => Unharmed(o)
  BY OnwardUnharmed
<1>3. KeptSound'
  BY KeptStays DEF Onward, Kept, InboundConsistent, MailSound, KeptSound
<1>4. /\ q.delivery[1] \in claims'
      /\ p.step \in Claimed => kept'[q.delivery[1]] = {}
  BY <1>1, AtWork
<1>5. ASSUME NEW v \in Workers \ {w}
      PROVE  /\ Clear(work[v], p)
             /\ work[v].step \in Claimed => work[v].delivery[1] # q.delivery[1]
  <2>1. Clear(work[v], q)
    BY DEF InboundConsistent, MailSound, WorkersApart
  <2>2. QED
    BY <1>1, <2>1 DEF Clear, Past
<1>6. QED
  BY <1>1, <1>2, <1>3, <1>4, <1>5, WorkerGoes DEF Onward, Kept

\* A worker is done with its mail, or fails.
LEMMA WorkerLeaves ==
  ASSUME InboundConsistent, NEW w \in Workers, work[w].step # "idle",
         NEW place \in {"queued", "done"}, Leave(w, place), Onward,
         UNCHANGED <<content, receives, kept>>,
         claims \subseteq claims', claims' \subseteq Incoming, refused' \subseteq claims'
  PROVE  InboundConsistent'
<1>1. \A v \in Workers : work'[v] = IF v = w THEN Waiting ELSE work[v]
  BY DEF InboundConsistent, MailSound, QueueSound, Leave
<1>2. \A d \in Delivery : deliveries'[d] = IF d = work[w].delivery THEN place ELSE deliveries[d]
  BY DEF InboundConsistent, MailSound, QueueSound, Leave
<1>3. ContentSound'
  BY DEF InboundConsistent, MailSound, ContentSound
<1>4. KeptSound'
  BY KeptStays DEF Onward, Kept
<1>5. \A u, v \in Workers : u # v => Clear(work'[u], work'[v])
  <2>1. ASSUME NEW u \in Workers, NEW v \in Workers, u # v
        PROVE  Clear(work'[u], work'[v])
    <3>1. Clear(work[u], work[v])
      BY <2>1 DEF InboundConsistent, MailSound, WorkersApart
    <3>2. CASE u = w \/ v = w
      BY <1>1, <3>2 DEF Clear, Waiting, Past, Claimed, Stored
    <3>3. CASE u # w /\ v # w
      BY <1>1, <3>1, <3>3
    <3>4. QED
      BY <3>2, <3>3
  <2>2. QED
    BY <2>1
<1>6. WorkersApart'
  BY <1>5 DEF WorkersApart, Clear
<1>7. QueueSound'
  <2>1. Waiting \in Worker
    BY DEF Waiting, Worker, WorkSteps
  <2>2. /\ deliveries' \in [Delivery -> {"unsent", "queued", "held", "done", "dead"}]
        /\ receives' \in [Delivery -> 0..MaxReceives]
        /\ work' \in [Workers -> Worker]
    BY <2>1 DEF InboundConsistent, MailSound, QueueSound, Leave
  <2>3. ASSUME NEW d \in Delivery, deliveries'[d] # "unsent" PROVE content'[d[1]] # None
    <3>1. deliveries[d] # "unsent"
      BY <1>2, <2>3 DEF InboundConsistent, MailSound, QueueSound
    <3>2. QED
      BY <3>1 DEF InboundConsistent, MailSound, QueueSound
  <2>4. ASSUME NEW v \in Workers, work'[v].step # "idle"
        PROVE  work'[v].delivery \in Delivery /\ deliveries'[work'[v].delivery] = "held"
    <3>1. v # w /\ work'[v] = work[v]
      BY <1>1, <2>4 DEF Waiting
    <3>2. work[v].delivery # work[w].delivery
      BY <2>4, <3>1 DEF InboundConsistent, MailSound, WorkersApart, Clear
    <3>3. QED
      BY <1>2, <2>4, <3>1, <3>2 DEF InboundConsistent, MailSound, QueueSound
  <2>5. QED
    BY <2>2, <2>3, <2>4 DEF QueueSound
<1>8. WorkersSound'
  <2>1. ASSUME NEW v \in Workers, NEW o, o = work'[v],
               NEW letter, letter = content'[o.delivery[1]]
        PROVE  /\ o.step # "idle" => Holds(o, letter)'
               /\ o.step \in Past => o.delivery[1] \in claims'
               /\ o.step \in Claimed => kept'[o.delivery[1]] = {}
    <3>1. CASE v = w
      BY <1>1, <2>1, <3>1 DEF Waiting, Past, Claimed, Stored
    <3>2. CASE v # w
      <4>1. o = work[v] /\ Unharmed(o)
        BY <1>1, <2>1, <3>2, OnwardUnharmed
      <4>2. QED
        BY <2>1, <4>1, OtherStays DEF Onward, Kept
    <3>3. QED
      BY <3>1, <3>2
  <2>2. QED
    BY <2>1, AllHold
<1>9. QED
  BY <1>3, <1>4, <1>6, <1>7, <1>8 DEF InboundConsistent, MailSound, Onward

-----------------------------------------------------------------------------
(* Mail arrives and is handed out.                                         *)

\* The workers are not concerned.
LEMMA WorkersWait ==
  ASSUME InboundConsistent, Onward, UNCHANGED <<work, kept, claims, refused>>,
         \A s \in Incoming : content[s] # None => content'[s] = content[s],
         ContentSound', QueueSound'
  PROVE  InboundConsistent'
<1>1. KeptSound'
  BY KeptStays DEF Onward, Kept, InboundConsistent, MailSound, KeptSound
<1>2. WorkersSound'
  <2>1. ASSUME NEW v \in Workers, NEW o, o = work'[v],
               NEW letter, letter = content'[o.delivery[1]]
        PROVE  /\ o.step # "idle" => Holds(o, letter)'
               /\ o.step \in Past => o.delivery[1] \in claims'
               /\ o.step \in Claimed => kept'[o.delivery[1]] = {}
    <3>1. o = work[v] /\ Unharmed(o)
      BY <2>1, OnwardUnharmed
    <3>2. QED
      BY <2>1, <3>1, OtherStays DEF Onward, Kept
  <2>2. QED
    BY <2>1, AllHold
<1>3. WorkersApart'
  BY DEF InboundConsistent, MailSound, WorkersApart, Clear
<1>4. QED
  BY <1>1, <1>2, <1>3 DEF InboundConsistent, MailSound, Onward

\* Nothing is written to the ticket tables.
LEMMA TablesUntouched ==
  ASSUME InboundConsistent, UNCHANGED vars
  PROVE  Onward
BY NextConsistent DEF InboundConsistent

\* A mail of its own id, or from an address of ours, arrives under a new SES id.
LEMMA ArriveConsistent ==
  ASSUME InboundConsistent, NEW s \in Incoming, NEW mail \in ReceivedMail, Arrive(s, mail),
         mail.id \in Incoming \/ Match(Routes, mail.from) # None
  PROVE  InboundConsistent'
<1>1. Onward
  BY TablesUntouched DEF Arrive
<1>2. \A r \in Incoming : content'[r] = IF r = s THEN mail ELSE content[r]
  BY DEF Arrive, InboundConsistent, MailSound, ContentSound
<1>3. \A r \in Incoming : content[r] # None => content'[r] = content[r]
  BY <1>2 DEF Arrive
<1>4. ContentSound'
  <2>1. content' \in [Incoming -> ReceivedMail \cup {None}]
    BY DEF Arrive, InboundConsistent, MailSound, ContentSound
  <2>2. QED
    BY <1>2, <2>1 DEF InboundConsistent, MailSound, ContentSound
<1>5. QueueSound'
  <2>1. <<s, 1>> \in Delivery
    BY InboundAssumption, SMT DEF Delivery
  <2>2. \A d \in Delivery : deliveries'[d] = IF d = <<s, 1>> THEN "queued" ELSE deliveries[d]
    BY DEF Arrive, InboundConsistent, MailSound, QueueSound
  <2>3. /\ deliveries' \in [Delivery -> {"unsent", "queued", "held", "done", "dead"}]
        /\ receives' \in [Delivery -> 0..MaxReceives]
        /\ work' \in [Workers -> Worker]
    BY <2>1 DEF Arrive, InboundConsistent, MailSound, QueueSound
  <2>4. ASSUME NEW d \in Delivery, deliveries'[d] # "unsent" PROVE content'[d[1]] # None
    <3>1. d[1] \in Incoming
      BY DEF Delivery
    <3>2. CASE d[1] = s
      BY <1>2, <3>2, LettersAssumption
    <3>3. CASE d[1] # s
      <4>1. deliveries[d] # "unsent"
        BY <2>2, <2>4, <3>3
      <4>2. QED
        BY <1>2, <3>1, <3>3, <4>1 DEF InboundConsistent, MailSound, QueueSound
    <3>4. QED
      BY <3>2, <3>3
  <2>5. ASSUME NEW v \in Workers, work'[v].step # "idle"
        PROVE  work'[v].delivery \in Delivery /\ deliveries'[work'[v].delivery] = "held"
    <3>1. /\ work'[v] = work[v] /\ work[v].delivery \in Delivery
          /\ deliveries[work[v].delivery] = "held"
      BY <2>5 DEF Arrive, InboundConsistent, MailSound, QueueSound
    <3>2. content[work[v].delivery[1]] # None
      BY <3>1 DEF InboundConsistent, MailSound, QueueSound
    <3>3. work[v].delivery # <<s, 1>>
      BY <3>2 DEF Arrive
    <3>4. QED
      BY <2>2, <3>1, <3>3
  <2>6. QED
    BY <2>3, <2>4, <2>5 DEF QueueSound
<1>6. QED
  BY <1>1, <1>3, <1>4, <1>5, WorkersWait DEF Arrive

\* Topic or queue delivers a mail once more.
LEMMA RepublishConsistent ==
  ASSUME InboundConsistent, NEW s \in Incoming, NEW k \in 2..MaxCopies, Republish(s, k)
  PROVE  InboundConsistent'
<1>1. Onward
  BY TablesUntouched DEF Republish
<1>2. PICK e : e = <<s, k>>
  OBVIOUS
<1>3. e \in Delivery /\ e[1] = s
  BY <1>2, InboundAssumption, SMT DEF Delivery
<1>4. /\ deliveries[e] = "unsent" /\ content[s] # None
      /\ deliveries' = [deliveries EXCEPT ![e] = "queued"]
      /\ UNCHANGED <<vars, content, receives, claims, work, kept, refused>>
  BY <1>2 DEF Republish
<1>5. QueueSound'
  BY <1>3, <1>4 DEF InboundConsistent, MailSound, QueueSound
<1>6. ContentSound'
  BY <1>4 DEF InboundConsistent, MailSound, ContentSound
<1>7. QED
  BY <1>1, <1>4, <1>5, <1>6, WorkersWait

\* A message is moved to the dead-letter queue.
LEMMA ToDlqConsistent ==
  ASSUME InboundConsistent, NEW d \in Delivery, ToDlq(d)
  PROVE  InboundConsistent'
<1>1. Onward
  BY TablesUntouched DEF ToDlq
<1>2. QueueSound'
  BY DEF ToDlq, InboundConsistent, MailSound, QueueSound
<1>3. ContentSound'
  BY DEF ToDlq, InboundConsistent, MailSound, ContentSound
<1>4. QED
  BY <1>1, <1>2, <1>3, WorkersWait DEF ToDlq

\* The agents' resolvers go on, or nothing happens.
LEMMA ElsewhereConsistent ==
  ASSUME InboundConsistent, [Next]_vars, UNCHANGED inbound
  PROVE  InboundConsistent'
<1>1. Onward
  BY NextConsistent DEF InboundConsistent
<1>2. ContentSound' /\ QueueSound'
  BY DEF inbound, InboundConsistent, MailSound, QueueSound, ContentSound
<1>3. QED
  BY <1>1, <1>2, WorkersWait DEF inbound

-----------------------------------------------------------------------------
(* The mails that arrive are mails.                                        *)

\* One recipient.
LEMMA OneRecipient ==
  ASSUME NEW r \in Recipient
  PROVE  <<r>> \in Seq(Recipient)
OBVIOUS

\* The headers that are told apart.
LEMMA HeadersTyped ==
  Plain \in Headers /\ Automatic \in Headers /\ Ours \in Headers
<1>1. Plain \in Headers
  BY DEF Plain, Headers
<1>2. ASSUME NEW h \in Headers, NEW b \in BOOLEAN
      PROVE  [h EXCEPT !.autoSubmitted = b] \in Headers /\ [h EXCEPT !.loop = b] \in Headers
  BY Zenon DEF Headers
<1>3. QED
  BY <1>1, <1>2 DEF Automatic, Ours

\* People write.
LEMMA WriteConsistent ==
  ASSUME InboundConsistent, NEW s \in Incoming, Write(s)
  PROVE  InboundConsistent'
<1>1. PICK mail \in Fresh : Arrive(s, [mail EXCEPT !.id = s])
  BY DEF Write
<1>2. mail \in ReceivedMail
  BY LettersAssumption
<1>3. PICK letter : letter = [mail EXCEPT !.id = s]
  OBVIOUS
<1>4. s \in MessageId
  BY DEF MessageId
<1>5. letter \in ReceivedMail
  BY <1>2, <1>3, <1>4, SMT DEF ReceivedMail
<1>6. letter.id = s
  BY <1>2, <1>3, SMT DEF ReceivedMail
<1>7. QED
  BY <1>1, <1>3, <1>5, <1>6, ArriveConsistent

\* The envelope of a mail that was sent, and its number.
LEMMA SentTyped ==
  ASSUME InboundConsistent, NEW i \in DOMAIN mails, NEW e, e = mails[i].envelope
  PROVE  /\ e \in Envelope /\ i \in MessageId
         /\ Match(Routes, e.replyTo) # None
<1>1. i \in 1..Len(mails) /\ i \in Nat
  BY TablesHaveRows, SMT DEF InboundConsistent
<1>2. mails[i] \in Mail
  BY <1>1, RowsTyped DEF InboundConsistent, Consistent
<1>3. e \in Envelope
  BY <1>2, SMT DEF Mail
<1>4. QED
  BY <1>1, <1>3 DEF InboundConsistent, Consistent, TablesSound, MailsSound, MessageId

\* People answer.
LEMMA AnswerConsistent ==
  ASSUME InboundConsistent, NEW s \in Incoming, Answer(s)
  PROVE  InboundConsistent'
<1>1. PICK i \in DOMAIN mails, from \in Customers, keep \in Keeps,
           headers \in {Plain, Automatic} :
         Arrive(s, AnswerTo(s, i, from, keep, headers))
  BY DEF Answer
<1>2. PICK e : e = mails[i].envelope
  OBVIOUS
<1>3. e \in Envelope /\ i \in MessageId
  BY <1>2, SentTyped
<1>4. PICK r : r = [e.replyTo EXCEPT !.tag = IfKept(keep, "tag", @, None)]
  OBVIOUS
<1>5. PICK inReplyTo : inReplyTo = IfKept(keep, "ids", i, None)
  OBVIOUS
<1>6. PICK references : references = IfKept(keep, "ids", Append(e.references, i), <<>>)
  OBVIOUS
<1>7. PICK subject : subject = IfKept(keep, "subject", e.subject, None)
  OBVIOUS
<1>8. r \in Recipient
  <2>1. e.replyTo \in [local : Locals \cup {Support}, domain : Domains,
                       tag : [ticket : Nat, token : Nat]]
    BY <1>3, SMT DEF Envelope
  <2>2. PICK tag : tag = IfKept(keep, "tag", e.replyTo.tag, None)
    OBVIOUS
  <2>3. tag \in [ticket : Nat, token : Nat] \cup {None}
    BY <2>1, <2>2, SMT DEF IfKept
  <2>4. r = [e.replyTo EXCEPT !.tag = tag]
    BY <1>4, <2>2
  <2>5. QED
    BY <2>1, <2>3, <2>4, SMT DEF Recipient
<1>9. inReplyTo \in MessageId \cup {None}
  BY <1>3, <1>5 DEF IfKept
<1>10. references \in Seq(MessageId)
  <2>1. e.references \in Seq(MessageId)
    BY <1>3, SMT DEF Envelope
  <2>2. QED
    BY <1>3, <1>6, <2>1, EmptySeq, AppendProperties DEF IfKept
<1>11. subject \in SubjectTag
  BY <1>3, <1>7, SMT DEF IfKept, Envelope, SubjectTag
<1>12. from \in Address /\ headers \in Headers /\ s \in MessageId
  BY HeadersTyped, PeopleAssumption DEF MessageId
<1>13. PICK mail : mail = AnswerTo(s, i, from, keep, headers)
  OBVIOUS
<1>14. mail = [from |-> from, to |-> <<r>>, headers |-> headers, id |-> s,
               inReplyTo |-> inReplyTo, references |-> references, subject |-> subject,
               files |-> FALSE]
  BY <1>2, <1>4, <1>5, <1>6, <1>7, <1>13 DEF AnswerTo
<1>15. mail \in ReceivedMail /\ mail.id = s
  BY <1>8, <1>9, <1>10, <1>11, <1>12, <1>14, OneRecipient, SMT DEF ReceivedMail
<1>16. QED
  BY <1>1, <1>13, <1>15, ArriveConsistent

\* A mail is sent to two instances.
LEMMA CopyConsistent ==
  ASSUME InboundConsistent, NEW s \in Incoming, Copy(s)
  PROVE  InboundConsistent'
<1>0. PICK other \in Incoming, i \in Instances :
        LET p == primary_inbound_address(AddressesOf(Routes, i)) IN
        /\ content[other] # None /\ p # None
        /\ Arrive(s, [content[other] EXCEPT
                        !.to = << [local |-> p.local, domain |-> p.domain, tag |-> None] >>])
  BY DEF Copy
<1>1. PICK p :
        /\ content[other] # None
        /\ p = primary_inbound_address(AddressesOf(Routes, i)) /\ p # None
        /\ Arrive(s, [content[other] EXCEPT
                        !.to = << [local |-> p.local, domain |-> p.domain, tag |-> None] >>])
  BY <1>0
<1>2. p.local \in Locals \cup {Support} /\ p.domain \in Domains
  BY <1>1, PrimaryIsAddress
<1>3. PICK r : r = [local |-> p.local, domain |-> p.domain, tag |-> None]
  OBVIOUS
<1>4. r \in Recipient
  BY <1>2, <1>3 DEF Recipient
<1>5. PICK letter : letter = content[other]
  OBVIOUS
<1>6. letter \in ReceivedMail /\ (letter.id \in Incoming \/ Match(Routes, letter.from) # None)
  BY <1>1, <1>5 DEF InboundConsistent, MailSound, ContentSound
<1>7. PICK to \in Seq(Recipient) : to = <<r>>
  BY <1>4, OneRecipient
<1>8. PICK mail : mail = [letter EXCEPT !.to = to]
  OBVIOUS
<1>9. mail \in ReceivedMail
  BY <1>6, <1>8, Zenon DEF ReceivedMail
<1>10. mail.id = letter.id /\ mail.from = letter.from
  BY <1>6, <1>8, SMT DEF ReceivedMail
<1>11. Arrive(s, mail)
  BY <1>1, <1>3, <1>5, <1>7, <1>8
<1>12. QED
  BY <1>6, <1>9, <1>10, <1>11, ArriveConsistent

\* A mail of ours is sent on to us: it comes from an address of ours.
LEMMA EchoConsistent ==
  ASSUME InboundConsistent, NEW s \in Incoming, Echo(s)
  PROVE  InboundConsistent'
<1>1. PICK i \in DOMAIN mails, headers \in {Plain, Ours} :
         Arrive(s, EchoOf(i, mails[i].envelope.replyTo, headers))
  BY DEF Echo
<1>2. PICK e : e = mails[i].envelope
  OBVIOUS
<1>3. e \in Envelope /\ i \in MessageId /\ Match(Routes, e.replyTo) # None
  BY <1>2, SentTyped
<1>4. PICK a : a = e.replyTo
  OBVIOUS
<1>5. a \in [local : Locals \cup {Support}, domain : Domains, tag : [ticket : Nat, token : Nat]]
  BY <1>3, <1>4, SMT DEF Envelope
<1>6. PICK r : r = [local |-> a.local, domain |-> a.domain, tag |-> None]
  OBVIOUS
<1>7. r \in Recipient
  BY <1>5, <1>6 DEF Recipient
<1>8. AddressOf(a) \in Address
  BY <1>5 DEF AddressOf, Address
<1>9. PICK mail : mail = EchoOf(i, a, headers)
  OBVIOUS
<1>10. mail = [from |-> AddressOf(a), to |-> <<r>>, headers |-> headers, id |-> i,
               inReplyTo |-> e.inReplyTo, references |-> e.references, subject |-> e.subject,
               files |-> FALSE]
  BY <1>2, <1>4, <1>6, <1>9 DEF EchoOf
<1>11. headers \in Headers
  BY HeadersTyped
<1>12. /\ e.inReplyTo \in MessageId \cup {None} /\ e.references \in Seq(MessageId)
       /\ e.subject \in SubjectTag
  BY <1>3, SMT DEF Envelope
<1>13. mail \in ReceivedMail /\ mail.from = AddressOf(a)
  BY <1>3, <1>7, <1>8, <1>10, <1>11, <1>12, OneRecipient, SMT DEF ReceivedMail
<1>14. Match(Routes, mail.from) = Match(Routes, a)
  <2>1. /\ AddressOf(mail.from) = AddressOf(a)
        /\ mail.from.domain = a.domain
    BY <1>13 DEF AddressOf
  <2>2. lookup_keys(mail.from) = lookup_keys(a)
    BY <2>1 DEF lookup_keys
  <2>3. QED
    BY <2>2 DEF Match
<1>15. QED
  BY <1>1, <1>2, <1>3, <1>4, <1>9, <1>13, <1>14, ArriveConsistent

\* Whatever arrives.
LEMMA MailingConsistent ==
  ASSUME InboundConsistent, Mailing
  PROVE  InboundConsistent'
BY WriteConsistent, AnswerConsistent, CopyConsistent, EchoConsistent DEF Mailing

\* The queue hands a message to a worker that has none.
LEMMA ReceiveConsistent ==
  ASSUME InboundConsistent, NEW w \in Workers, NEW d \in Delivery, Receive(w, d)
  PROVE  InboundConsistent'
<1>1. PICK p : p = [Waiting EXCEPT !.step = "claim", !.delivery = d]
  OBVIOUS
<1>2. /\ p \in Worker /\ p.step = "claim" /\ p.delivery = d
  BY <1>1, Zenon DEF Waiting, Worker, WorkSteps
<1>3. \A v \in Workers : work'[v] = IF v = w THEN p ELSE work[v]
  BY <1>1 DEF InboundConsistent, MailSound, QueueSound, Receive
<1>4. \A e \in Delivery : deliveries'[e] = IF e = d THEN "held" ELSE deliveries[e]
  BY DEF InboundConsistent, MailSound, QueueSound, Receive
<1>5. Onward
  BY TablesUntouched DEF Receive
<1>6. ContentSound'
  BY DEF InboundConsistent, MailSound, ContentSound, Receive
<1>7. KeptSound'
  BY <1>5, KeptStays DEF Onward, Kept, Receive, InboundConsistent, MailSound, KeptSound
<1>8. QueueSound'
  <2>1. receives' \in [Delivery -> 0..MaxReceives]
    <3>1. receives[d] \in Nat /\ receives[d] + 1 \in 0..MaxReceives
      BY InboundAssumption, SMT DEF InboundConsistent, MailSound, QueueSound, Receive
    <3>2. QED
      BY <3>1 DEF InboundConsistent, MailSound, QueueSound, Receive
  <2>2. /\ deliveries' \in [Delivery -> {"unsent", "queued", "held", "done", "dead"}]
        /\ work' \in [Workers -> Worker]
    BY <1>1, <1>2 DEF InboundConsistent, MailSound, QueueSound, Receive
  <2>3. \A e \in Delivery : deliveries'[e] # "unsent" => content'[e[1]] # None
    BY <1>4 DEF InboundConsistent, MailSound, QueueSound, Receive
  <2>4. \A v \in Workers : work'[v].step # "idle" =>
          work'[v].delivery \in Delivery /\ deliveries'[work'[v].delivery] = "held"
    BY <1>2, <1>3, <1>4 DEF InboundConsistent, MailSound, QueueSound
  <2>5. QED
    BY <2>1, <2>2, <2>3, <2>4 DEF QueueSound
<1>9. WorkersSound'
  <2>1. ASSUME NEW v \in Workers, NEW o, o = work'[v],
               NEW letter, letter = content'[o.delivery[1]]
        PROVE  /\ o.step # "idle" => Holds(o, letter)'
               /\ o.step \in Past => o.delivery[1] \in claims'
               /\ o.step \in Claimed => kept'[o.delivery[1]] = {}
    <3>1. CASE v = w
      BY <1>2, <1>3, <2>1, <3>1 DEF Past, Claimed, Stored, OnTicket, Holds
    <3>2. CASE v # w
      <4>1. o = work[v] /\ Unharmed(o)
        BY <1>3, <1>5, <2>1, <3>2, OnwardUnharmed
      <4>2. QED
        BY <1>5, <2>1, <4>1, OtherStays DEF Onward, Kept, Receive
    <3>3. QED
      BY <3>1, <3>2
  <2>2. QED
    BY <2>1, AllHold
<1>10. WorkersApart'
  <2>1. ASSUME NEW u \in Workers, NEW v \in Workers, u # v
        PROVE  Clear(work'[u], work'[v])
    <3>1. Clear(work[u], work[v])
      BY <2>1 DEF InboundConsistent, MailSound, WorkersApart
    <3>2. \A x \in Workers : work[x].step # "idle" => work[x].delivery # d
      BY DEF Receive, InboundConsistent, MailSound, QueueSound
    <3>3. CASE u = w \/ v = w
      BY <1>2, <1>3, <2>1, <3>2, <3>3 DEF Clear, Past, Claimed, Stored
    <3>4. CASE u # w /\ v # w
      BY <1>3, <3>1, <3>4
    <3>5. QED
      BY <3>3, <3>4
  <2>2. QED
    BY <2>1 DEF WorkersApart, Clear
<1>11. QED
  BY <1>5, <1>6, <1>7, <1>8, <1>9, <1>10 DEF InboundConsistent, MailSound, Onward

-----------------------------------------------------------------------------
(* Claim, refuse, resolve.                                                 *)

\* A worker at another step.
LEMMA StepsOn ==
  ASSUME NEW q \in Worker, NEW step \in WorkSteps, NEW p, p = [q EXCEPT !.step = step]
  PROVE  /\ p \in Worker /\ p.step = step
         /\ p.delivery = q.delivery /\ p.instance = q.instance /\ p.ticket = q.ticket
         /\ p.row = q.row /\ p.message = q.message /\ p.sent = q.sent
<1>1. p \in Worker
  BY Zenon DEF Worker
<1>2. p.step = step
  BY Zenon DEF Worker
<1>3. p.delivery = q.delivery /\ p.instance = q.instance /\ p.ticket = q.ticket
  BY Zenon DEF Worker
<1>4. p.row = q.row /\ p.message = q.message /\ p.sent = q.sent
  BY Zenon DEF Worker
<1>5. QED
  BY <1>1, <1>2, <1>3, <1>4

\* claim_processed_message: nobody else has the mail's row.
LEMMA ClaimConsistent ==
  ASSUME InboundConsistent, NEW w \in Workers, Claim(w)
  PROVE  InboundConsistent'
<1>1. Onward
  BY TablesUntouched DEF Claim
<1>2. PICK q : q = work[w]
  OBVIOUS
<1>3. q.step = "claim" /\ q \in Worker /\ q.delivery[1] \in Incoming
  BY <1>2, AtWork DEF Claim
<1>4. /\ claims' = claims \cup {q.delivery[1]} /\ claims \subseteq Incoming /\ refused \subseteq claims
      /\ UNCHANGED <<content, receives, kept, refused>>
  BY <1>2 DEF Claim, InboundConsistent, MailSound, KeptSound
<1>5. CASE Finish(w)
  BY <1>1, <1>2, <1>3, <1>4, <1>5, WorkerLeaves DEF Finish
<1>6. CASE q.delivery[1] \notin claims /\ At(w, "resolve")
  <2>1. PICK p : p = [q EXCEPT !.step = "resolve"]
    OBVIOUS
  <2>2. p \in Worker /\ p.step = "resolve" /\ p.delivery = q.delivery
    BY <1>3, <2>1, StepsOn DEF WorkSteps
  <2>3. Proceed(w, p)
    BY <1>2, <1>6, <2>1 DEF At
  <2>4. PICK mail : mail = content[q.delivery[1]]
    OBVIOUS
  <2>5. Holds(p, mail)'
    BY <2>2 DEF Holds, Past, Claimed, Stored, OnTicket
  <2>6. kept'[q.delivery[1]] = {}
    BY <1>3, <1>4, <1>6 DEF InboundConsistent, MailSound, KeptSound
  <2>7. KeptSound'
    BY <1>1, <1>3, <1>4, KeptStays DEF Onward, Kept
  <2>8. ASSUME NEW v \in Workers \ {w}
        PROVE  /\ Clear(work[v], p)
               /\ work[v].step \in Claimed => work[v].delivery[1] # q.delivery[1]
    <3>1. Clear(work[v], q)
      BY <1>2 DEF InboundConsistent, MailSound, WorkersApart
    <3>2. work[v].step \in Past => work[v].delivery[1] \in claims
      BY DEF InboundConsistent, MailSound, WorkersSound
    <3>3. QED
      BY <1>3, <1>6, <2>2, <3>1, <3>2 DEF Clear, Past
  <2>9. \A v \in Workers \ {w} : \A o : o = work[v] => Unharmed(o)
    BY <1>1, OnwardUnharmed
  <2>10. QED
    BY <1>1, <1>2, <1>3, <1>4, <2>2, <2>3, <2>4, <2>5, <2>6, <2>7, <2>8, <2>9, WorkerGoes
    DEF Onward, Kept
<1>7. QED
  BY <1>2, <1>5, <1>6 DEF Claim

\* The mail is refused, after its claim.
LEMMA RefuseConsistent ==
  ASSUME InboundConsistent, NEW w \in Workers, Refuse(w)
  PROVE  InboundConsistent'
<1>1. Onward
  BY TablesUntouched DEF Refuse
<1>2. work[w].delivery[1] \in claims
  BY AtWork DEF Refuse, Past, Claimed
<1>3. claims \subseteq Incoming /\ refused \subseteq claims
  BY DEF InboundConsistent, MailSound, KeptSound
<1>4. QED
  BY <1>1, <1>2, <1>3, WorkerLeaves DEF Refuse, Finish

\* The invocation fails, at whatever step.
LEMMA FailConsistent ==
  ASSUME InboundConsistent, NEW w \in Workers, Fail(w)
  PROVE  InboundConsistent'
<1>1. Onward
  BY TablesUntouched DEF Fail
<1>2. claims \subseteq Incoming /\ refused \subseteq claims
  BY DEF InboundConsistent, MailSound, KeptSound
<1>3. QED
  BY <1>1, <1>2, WorkerLeaves DEF Fail

\* The lookups come to tickets there are.
LEMMA FoundExist ==
  ASSUME NEW plan, NEW i, NEW t \in Found(plan, i)
  PROVE  t \in DOMAIN tickets
BY DEF Found, TicketsNamed

\* A ticket of another instance is not taken, and one of this one is read.
LEMMA ResolveConsistent ==
  ASSUME InboundConsistent, NEW w \in Workers, Resolve(w)
  PROVE  InboundConsistent'
<1>1. Onward
  BY TablesUntouched DEF Resolve
<1>2. PICK q : q = work[w]
  OBVIOUS
<1>3. /\ q.step = "resolve" /\ q \in Worker /\ q.delivery[1] \in Incoming /\ q.step \in Claimed
      /\ q.delivery[1] \in claims /\ q.step \in Past
  BY <1>2, AtWork DEF Resolve, Past, Claimed
<1>4. PICK mail : mail = content[q.delivery[1]]
  OBVIOUS
<1>5. PICK i : i = AddressedTo(mail)
  OBVIOUS
<1>6. Got(w) = mail /\ i = resolve_instance_id(Routes, mail.to)
  BY <1>2, <1>4, <1>5 DEF Got, AddressedTo
<1>7. ~Refuses(mail) /\ i \in Instances
  BY <1>5, <1>6, Accepted DEF Resolve
<1>8. claims \subseteq Incoming /\ refused \subseteq claims
  BY DEF InboundConsistent, MailSound, KeptSound
<1>9. PICK t \in resolve_ticket(mail, i) :
        CASE t = None ->
                Finish(w) /\ refused' = refused \cup {q.delivery[1]}
          [] t = 0 ->
                Proceed(w, [q EXCEPT !.step = "number", !.instance = i, !.opened = TRUE])
                /\ UNCHANGED refused
          [] OTHER ->
                /\ \E row \in ticketSeen[t] :
                     Proceed(w, [q EXCEPT
                        !.instance = i, !.ticket = t, !.row = row,
                        !.step = IF mail.from \in row.requesters \cup row.ccs
                                 THEN "reopen" ELSE "addSender"])
                /\ UNCHANGED refused
  BY <1>2, <1>6, ZenonT(60) DEF Resolve
<1>10. CASE t = None
  <2>1. Finish(w) /\ refused' = refused \cup {q.delivery[1]}
    <3>1. t # 0
      BY <1>10, IncomingAssumption
    <3>2. QED
      BY <1>9, <1>10, <3>1, Zenon
  <2>2. QED
    BY <1>1, <1>2, <1>3, <1>8, <2>1, WorkerLeaves DEF Finish, Resolve
<1>11. CASE t = 0
  <2>1. PICK p : p = [q EXCEPT !.step = "number", !.instance = i, !.opened = TRUE]
    OBVIOUS
  <2>2. Proceed(w, p) /\ UNCHANGED refused
    BY <1>9, <1>11, <2>1, IncomingAssumption
  <2>3. p \in Worker
    BY <1>3, <1>7, <2>1, Zenon DEF Worker, WorkSteps
  <2>4. p.step = "number" /\ p.instance = i
    BY <1>3, <2>1, Zenon DEF Worker
  <2>5. p.delivery = q.delivery
    BY <1>3, <2>1, Zenon DEF Worker
  <2>6. Holds(p, mail)'
    BY <1>5, <1>7, <2>4 DEF Holds, Past, Claimed, Stored, OnTicket
  <2>7. QED
    BY <1>1, <1>2, <1>3, <1>4, <2>2, <2>3, <2>4, <2>5, <2>6, WorkerGoesOn
    DEF Resolve, Past, Claimed
<1>12. CASE t # None /\ t # 0
  <2>1. PICK row \in ticketSeen[t], step \in {"reopen", "addSender"} :
          Proceed(w, [q EXCEPT !.instance = i, !.ticket = t, !.row = row, !.step = step])
          /\ UNCHANGED refused
    BY <1>9, <1>12
  <2>2. t \in DOMAIN tickets /\ tickets[t].instance = i
    BY <1>12, FoundExist DEF resolve_ticket
  <2>3. t \in 1..Len(tickets) /\ t \in Nat /\ row \in Ticket
    <3>1. t \in 1..Len(tickets)
      BY <2>2, TablesHaveRows DEF InboundConsistent
    <3>2. ticketSeen[t] \in SUBSET Ticket /\ Len(tickets) \in Nat
      BY <3>1, RowsTyped DEF InboundConsistent, Consistent
    <3>3. QED
      BY <3>1, <3>2, SMT
  <2>4. PICK p : p = [q EXCEPT !.instance = i, !.ticket = t, !.row = row, !.step = step]
    OBVIOUS
  <2>5. p \in Worker
    BY <1>3, <1>7, <2>3, <2>4, Zenon DEF Worker, WorkSteps
  <2>6. p.step = step /\ p.instance = i
    BY <1>3, <2>4, Zenon DEF Worker
  <2>7. p.ticket = t /\ p.row = row
    BY <1>3, <2>4, Zenon DEF Worker
  <2>8. p.delivery = q.delivery
    BY <1>3, <2>4, Zenon DEF Worker
  <2>9. UNCHANGED tickets
    BY DEF Resolve, vars
  <2>10. Holds(p, mail)'
    BY <1>5, <1>7, <2>2, <2>3, <2>6, <2>7, <2>9 DEF Holds, Past, Claimed, Stored, OnTicket
  <2>11. p.step \in Claimed /\ p.step \in Past \ {"open", "stamp"}
    BY <2>6 DEF Past, Claimed
  <2>12. QED
    BY <1>1, <1>2, <1>3, <1>4, <2>1, <2>4, <2>5, <2>8, <2>10, <2>11, WorkerGoesOn, ZenonT(60) DEF Resolve
<1>13. QED
  BY <1>10, <1>11, <1>12

-----------------------------------------------------------------------------
(* What a worker writes, beside the resolvers in flight.                   *)

\* The resolvers wait: what they refer to is there.
LEMMA RequestsWait ==
  ASSUME Consistent, TablesSound', Grown, UNCHANGED requests,
         \A i \in 1..Len(mails') : \/ i \in 1..Len(mails)
                                   \/ mails'[i].message = 0
  PROVE  RequestsReady' /\ RepliesApart'
<1>1. RequestsReady'
  <2>1. ASSUME NEW r \in Requests, NEW q, q = requests[r]
        PROVE  Ready(q, Len(tickets'), messages', mails')
    <3>1. Ready(q, Len(tickets), messages, mails)
      BY <2>1 DEF Consistent, RequestsReady
    <3>2. QED
      BY <3>1, ReadyKept DEF Grown, TicketsKept, Longer
  <2>2. QED
    BY <2>1 DEF Consistent, RequestsReady
<1>2. RepliesApart'
  <2>1. ASSUME NEW r \in Requests, requests[r].step \in ToSend, NEW i \in 1..Len(mails')
        PROVE  mails'[i].message # requests[r].message
    <3>1. CASE i \in 1..Len(mails)
      BY <2>1, <3>1 DEF Consistent, RepliesApart, Grown, MailsKept
    <3>2. CASE mails'[i].message = 0
      <4>1. requests[r].message \in 1..Len(messages) /\ Len(messages) \in Nat
        BY <2>1, RowsTyped DEF Consistent, RequestsReady, Ready, Written
      <4>2. QED
        BY <3>2, <4>1, SMT
    <3>3. QED
      BY <3>1, <3>2
  <2>2. QED
    BY <2>1 DEF Consistent, RepliesApart
<1>3. QED
  BY <1>1, <1>2

\* No ticket is created or renumbered, and no number taken.
LEMMA NumbersWait ==
  ASSUME Consistent, UNCHANGED <<requests, lastNumber>>, Len(tickets') = Len(tickets),
         \A t \in 1..Len(tickets) : /\ tickets'[t].instance = tickets[t].instance
                                    /\ tickets'[t].number = tickets[t].number
  PROVE  NumbersHandedOut' /\ FreeStays
<1>1. NumbersHandedOut'
  BY DEF Consistent, NumbersHandedOut, Pending
<1>2. FreeStays
  BY DEF FreeStays, Free, Pending
<1>3. QED
  BY <1>1, <1>2

\* A write that creates no ticket leaves everything consistent if it does so
\* with the tables.
LEMMA BesideRequests ==
  ASSUME Consistent, TablesSound', Grown,
         UNCHANGED <<lastNumber, notices, settings, requests>>,
         Len(tickets') = Len(tickets),
         \A t \in 1..Len(tickets) : /\ tickets'[t].instance = tickets[t].instance
                                    /\ tickets'[t].number = tickets[t].number,
         \A i \in 1..Len(mails') : \/ i \in 1..Len(mails)
                                   \/ mails'[i].message = 0
  PROVE  Consistent' /\ FreeStays
<1>1. RequestsReady' /\ RepliesApart'
  BY RequestsWait
<1>2. NumbersHandedOut' /\ FreeStays
  BY NumbersWait
<1>3. SettingsTyped' /\ NoticesConcernTheReader'
  BY DEF Consistent, SettingsTyped, NoticesConcernTheReader
<1>4. QED
  BY <1>1, <1>2, <1>3 DEF Consistent

-----------------------------------------------------------------------------
(* Onto the ticket.                                                        *)

\* What a worker on a ticket has.
LEMMA HasTicket ==
  ASSUME InboundConsistent, NEW w \in Workers, NEW q, q = work[w], q.step \in OnTicket
  PROVE  /\ q.step # "idle" /\ q.step \in Past \ {"resolve"} /\ q \in Worker
         /\ q.ticket \in 1..Len(tickets) /\ q.row \in Ticket
         /\ tickets[q.ticket] \in Ticket /\ Agrees(tickets[q.ticket])
         /\ tickets[q.ticket].instance = q.instance
         /\ q.instance = AddressedTo(content[q.delivery[1]])
         /\ ~Refuses(content[q.delivery[1]])
<1>1. q.step # "idle" /\ q.step \in Past \ {"resolve"}
  BY DEF OnTicket, Past, Claimed, Stored
<1>2. q \in Worker /\ Holds(q, content[q.delivery[1]])
  BY <1>1, AtWork
<1>3. /\ q.ticket \in 1..Len(tickets) /\ q.row \in Ticket
      /\ tickets[q.ticket].instance = q.instance
      /\ q.instance = AddressedTo(content[q.delivery[1]])
      /\ ~Refuses(content[q.delivery[1]])
  BY <1>1, <1>2 DEF Holds
<1>4. tickets[q.ticket] \in Ticket
  BY <1>3, RowsTyped DEF InboundConsistent, Consistent
<1>5. Agrees(tickets[q.ticket])
  BY <1>3 DEF InboundConsistent, Consistent, TablesSound, TicketsSound
<1>6. QED
  BY <1>1, <1>2, <1>3, <1>4, <1>5

\* A worker writes its ticket's row.
LEMMA WorkerWrites ==
  ASSUME InboundConsistent, NEW t \in 1..Len(tickets), NEW row \in Ticket, WriteTicket(t, row),
         Agrees(row), row.instance = tickets[t].instance, row.number = tickets[t].number,
         row.hasAttachments => \/ tickets[t].hasAttachments
                               \/ \E m \in 1..Len(messages) :
                                    messages[m].ticket = t /\ messages[m].attachments,
         UNCHANGED <<lastNumber, messages, sent, settings, reported, requests, calls>>
  PROVE  Onward
<1>1. /\ TablesSound' /\ Kept
      /\ Len(tickets') = Len(tickets)
      /\ \A s \in 1..Len(tickets) : /\ tickets'[s].instance = tickets[s].instance
                                    /\ tickets'[s].number = tickets[s].number
  BY TicketWritten DEF sent, InboundConsistent, Consistent
<1>2. Consistent' /\ FreeStays
  BY <1>1, BesideRequests DEF sent, InboundConsistent, Kept
<1>3. QED
  BY <1>1, <1>2 DEF Onward

\* A worker on a ticket goes on to a step that needs no more.
LEMMA GoesOnOnTicket ==
  ASSUME InboundConsistent, NEW w \in Workers, NEW q, q = work[w], q.step \in OnTicket,
         NEW step \in {"store", "reopen", "files", "others", "staff"},
         step \in Claimed => q.step \in Claimed, step \in Stored => q.step \in Stored,
         At(w, step), Onward, UNCHANGED <<content, receives, claims, kept, refused>>
  PROVE  InboundConsistent'
<1>1. /\ q.step # "idle" /\ q.step \in Past \ {"resolve"} /\ q \in Worker
      /\ q.ticket \in 1..Len(tickets) /\ q.row \in Ticket
      /\ tickets[q.ticket].instance = q.instance
      /\ q.instance = AddressedTo(content[q.delivery[1]])
      /\ ~Refuses(content[q.delivery[1]])
  BY HasTicket
<1>2. PICK p : p = [q EXCEPT !.step = step]
  OBVIOUS
<1>3. /\ p \in Worker /\ p.step = step
      /\ p.delivery = q.delivery /\ p.instance = q.instance /\ p.ticket = q.ticket
      /\ p.row = q.row /\ p.message = q.message
  BY <1>1, <1>2, StepsOn DEF WorkSteps
<1>4. Proceed(w, p)
  BY <1>2 DEF At
<1>5. PICK mail : mail = content[q.delivery[1]]
  OBVIOUS
<1>6. p.ticket \in 1..Len(tickets') /\ tickets'[p.ticket].instance = p.instance
  BY <1>1, <1>3, SMT DEF Onward, Kept, Grown, TicketsKept, Longer
<1>7. step \in Stored => p.message \in 1..Len(messages') /\ messages'[p.message].ticket = p.ticket
  <2> SUFFICES ASSUME step \in Stored
               PROVE  p.message \in 1..Len(messages') /\ messages'[p.message].ticket = p.ticket
    OBVIOUS
  <2>1. q.message \in 1..Len(messages) /\ messages[q.message].ticket = q.ticket
    BY <1>1, AtWork DEF Holds
  <2>2. QED
    BY <1>3, <2>1, SMT DEF Onward, Kept, Grown, MessagesKept, Longer
<1>8. Holds(p, mail)'
  BY <1>1, <1>3, <1>5, <1>6, <1>7 DEF Holds
<1>9. p.step \in Past \ {"open", "stamp"}
  BY <1>3 DEF Past, Claimed, Stored
<1>10. QED
  BY <1>1, <1>3, <1>4, <1>5, <1>8, <1>9, WorkerGoesOn

\* The sender joins.
LEMMA AddSenderConsistent ==
  ASSUME InboundConsistent, NEW w \in Workers, AddSender(w)
  PROVE  InboundConsistent' /\ Onward
<1>1. PICK q : q = work[w]
  OBVIOUS
<1>2. q.step = "addSender" /\ q.step \in OnTicket /\ q.step \in Claimed
  BY <1>1 DEF AddSender, OnTicket, Claimed
<1>3. PICK from : from = Got(w).from
  OBVIOUS
<1>4. from \in Address
  <2>1. Got(w) \in ReceivedMail
    BY <1>1, <1>2, AtWork
  <2>2. QED
    BY <1>3, <2>1, SMT DEF ReceivedMail
<1>5. PICK t : t = q.ticket
  OBVIOUS
<1>6. t \in 1..Len(tickets) /\ tickets[t] \in Ticket /\ Agrees(tickets[t])
  BY <1>1, <1>2, <1>5, HasTicket
<1>7. PICK x : x = tickets[t]
  OBVIOUS
<1>8. PICK people \in SUBSET Address : people = x.ccs \cup {from}
  <2>1. x.ccs \in SUBSET Address
    BY <1>6, <1>7, SMT DEF Ticket
  <2>2. x.ccs \cup {from} \in SUBSET Address
    BY <1>4, <2>1
  <2>3. QED
    BY <2>2
<1>9. PICK row : row = [x EXCEPT !.ccs = people]
  OBVIOUS
<1>10. WriteTicket(t, row)
  BY <1>1, <1>3, <1>5, <1>7, <1>8, <1>9 DEF AddSender, AddCc
<1>11. /\ row \in Ticket /\ Agrees(row)
       /\ row.instance = x.instance /\ row.number = x.number
       /\ row.hasAttachments = x.hasAttachments
  <2>1. x \in Ticket /\ Agrees(x)
    BY <1>6, <1>7
  <2>2. QED
    BY <1>9, <2>1, ListsWritten
<1>12. Onward
  BY <1>6, <1>7, <1>10, <1>11, WorkerWrites DEF AddSender
<1>13. InboundConsistent'
  BY <1>1, <1>2, <1>12, GoesOnOnTicket DEF AddSender, Stored
<1>14. QED
  BY <1>12, <1>13

\* The ticket is opened again, or touched, and read again.
LEMMA ReopenConsistent ==
  ASSUME InboundConsistent, NEW w \in Workers, Reopen(w)
  PROVE  InboundConsistent' /\ Onward
<1>1. PICK q : q = work[w]
  OBVIOUS
<1>2. q.step = "reopen" /\ q.step \in OnTicket /\ q.step \in Claimed
  BY <1>1 DEF Reopen, OnTicket, Claimed
<1>3. /\ q \in Worker /\ q.ticket \in 1..Len(tickets) /\ q.row \in Ticket
      /\ q.step \in Past
      /\ tickets[q.ticket].instance = q.instance
      /\ q.instance = AddressedTo(content[q.delivery[1]])
      /\ ~Refuses(content[q.delivery[1]])
  BY <1>1, <1>2, HasTicket
<1>4. Onward
  <2>1. CASE q.row.status = "closed"
    <3>1. PICK status : status = "open"
      OBVIOUS
    <3>2. PICK assignee : assignee = q.row.assignee
      OBVIOUS
    <3>3. SetStatusAndAssignee(q.ticket, status, assignee)
      BY <1>1, <2>1, <3>1, <3>2 DEF Reopen
    <3>4. status \in Statuses /\ assignee \in Users \cup {Nobody}
      BY <1>3, <3>1, <3>2, SMT DEF Statuses, Ticket
    <3>5. PICK row \in Ticket :
           /\ WriteTicket(q.ticket, row) /\ Agrees(row)
           /\ row.instance = tickets[q.ticket].instance /\ row.number = tickets[q.ticket].number
           /\ row.hasAttachments = tickets[q.ticket].hasAttachments
      BY <1>3, <3>3, <3>4, StatusAndAssignee DEF InboundConsistent
    <3>6. QED
      BY <1>3, <3>5, WorkerWrites DEF Reopen
  <2>2. CASE q.row.status # "closed"
    BY <1>1, <2>2, TablesUntouched DEF Reopen, vars, sent
  <2>3. QED
    BY <2>1, <2>2
<1>5. PICK row \in ticketSeen'[q.ticket] : Proceed(w, [q EXCEPT !.step = "store", !.row = row])
  BY <1>1 DEF Reopen
<1>6. q.ticket \in 1..Len(tickets') /\ tickets'[q.ticket].instance = q.instance
  BY <1>3, <1>4, SMT DEF Onward, Kept, Grown, TicketsKept, Longer
<1>7. row \in Ticket
  <2>1. ticketSeen' \in Seq(SUBSET Ticket) /\ Len(ticketSeen') = Len(tickets')
    BY <1>4 DEF Onward, Consistent, TablesSound, TicketsSound
  <2>2. ticketSeen'[q.ticket] \in SUBSET Ticket
    BY <1>6, <2>1, ElementOfSeq
  <2>3. QED
    BY <2>2
<1>8. PICK p : p = [q EXCEPT !.step = "store", !.row = row]
  OBVIOUS
<1>9. p \in Worker
  BY <1>3, <1>7, <1>8, Zenon DEF Worker, WorkSteps
<1>10. p.step = "store" /\ p.row = row
  BY <1>3, <1>8, Zenon DEF Worker
<1>11. p.ticket = q.ticket /\ p.instance = q.instance
  BY <1>3, <1>8, Zenon DEF Worker
<1>12. p.delivery = q.delivery
  BY <1>3, <1>8, Zenon DEF Worker
<1>13. PICK mail : mail = content[q.delivery[1]]
  OBVIOUS
<1>14. Holds(p, mail)'
  BY <1>3, <1>6, <1>7, <1>10, <1>11, <1>13 DEF Holds, Past, Claimed, Stored, OnTicket
<1>15. p.step \in Claimed /\ p.step \in Past \ {"open", "stamp"}
  BY <1>10 DEF Past, Claimed
<1>16. InboundConsistent'
  BY <1>1, <1>2, <1>3, <1>4, <1>5, <1>8, <1>9, <1>12, <1>13, <1>14, <1>15, WorkerGoesOn
  DEF Reopen
<1>17. QED
  BY <1>4, <1>16

\* A ticket's number is taken.
LEMMA NumberConsistent ==
  ASSUME InboundConsistent, NEW w \in Workers, Number(w)
  PROVE  InboundConsistent' /\ Onward
<1>1. PICK q : q = work[w]
  OBVIOUS
<1>2. PICK mail : mail = content[q.delivery[1]]
  OBVIOUS
<1>3. /\ q.step = "number" /\ q \in Worker /\ q.delivery[1] \in Incoming /\ mail \in ReceivedMail
      /\ Got(w) = mail /\ Holds(q, mail)
      /\ q.delivery[1] \in claims /\ kept[q.delivery[1]] = {}
  BY <1>1, <1>2, AtWork DEF Number, Past, Claimed
<1>4. PICK i : i = q.instance
  OBVIOUS
<1>5. i \in Instances /\ i = AddressedTo(mail) /\ ~Refuses(mail)
  BY <1>3, <1>4, Accepted DEF Holds, Past, Claimed
<1>6. PICK n : n = lastNumber[i] + 1
  OBVIOUS
<1>7. /\ lastNumber \in [Instances -> Nat]
      /\ lastNumber' = [lastNumber EXCEPT ![i] = n]
      /\ n \in Nat /\ lastNumber[i] \in Nat /\ lastNumber[i] < n
  <2>1. lastNumber \in [Instances -> Nat]
    BY DEF InboundConsistent, Consistent, NumbersHandedOut
  <2>2. lastNumber[i] \in Nat
    BY <1>5, <2>1
  <2>3. n \in Nat /\ lastNumber[i] < n
    BY <1>6, <2>2, SMT
  <2>4. lastNumber' = [lastNumber EXCEPT ![i] = n]
    BY <1>1, <1>4, <1>6 DEF Number, TakeNumber
  <2>5. QED
    BY <2>1, <2>2, <2>3, <2>4
<1>8. \A j \in Instances : /\ lastNumber[j] \in Nat /\ lastNumber'[j] \in Nat
                           /\ lastNumber[j] <= lastNumber'[j]
                           /\ j = i => lastNumber'[j] = n
  BY <1>5, <1>7, SMT
<1>9. UNCHANGED <<tickets, ticketSeen, messages, mails, notices, settings, reported, requests, calls>>
  BY DEF Number, sent
<1>10. Kept /\ TablesSound'
  BY <1>9, TablesLeft DEF InboundConsistent, Consistent
<1>11. /\ \A t \in 1..Len(tickets) : tickets[t].instance \in Instances /\ tickets[t].number \in Nat
       /\ \A r \in Requests : Pending(r) =>
            requests[r].row.instance \in Instances /\ requests[r].row.number \in Nat
  <2>1. ASSUME NEW t \in 1..Len(tickets)
        PROVE  tickets[t].instance \in Instances /\ tickets[t].number \in Nat
    BY RowsTyped, SMT DEF InboundConsistent, Consistent, Ticket
  <2>2. ASSUME NEW r \in Requests, Pending(r)
        PROVE  requests[r].row.instance \in Instances /\ requests[r].row.number \in Nat
    <3>1. requests[r].row \in Ticket
      BY <2>2 DEF InboundConsistent, Consistent, RequestsReady, Ready, Pending
    <3>2. QED
      BY <3>1, SMT DEF Ticket
  <2>3. QED
    BY <2>1, <2>2
<1>12. NumbersHandedOut'
  <2>1. lastNumber' \in [Instances -> Nat]
    BY <1>7
  <2>2. ASSUME NEW t \in 1..Len(tickets)
        PROVE  tickets[t].number <= lastNumber'[tickets[t].instance]
    <3>1. PICK j \in Instances : j = tickets[t].instance
      BY <1>11
    <3>2. tickets[t].number <= lastNumber[j]
      BY <3>1 DEF InboundConsistent, Consistent, NumbersHandedOut
    <3>3. QED
      BY <1>8, <1>11, <3>1, <3>2, SMT
  <2>3. ASSUME NEW r \in Requests, Pending(r)
        PROVE  requests[r].row.number <= lastNumber'[requests[r].row.instance]
    <3>1. PICK j \in Instances : j = requests[r].row.instance
      BY <1>11, <2>3
    <3>2. requests[r].row.number <= lastNumber[j]
      BY <2>3, <3>1 DEF InboundConsistent, Consistent, NumbersHandedOut
    <3>3. PICK k \in Nat : k = requests[r].row.number
      BY <1>11, <2>3
    <3>4. k <= lastNumber'[j]
      BY <1>8, <3>2, <3>3, SMT
    <3>5. QED
      BY <3>1, <3>3, <3>4
  <2>4. QED
    BY <1>9, <2>1, <2>2, <2>3 DEF InboundConsistent, Consistent, NumbersHandedOut, Pending
<1>13. FreeStays
  <2>1. ASSUME NEW j \in Instances, NEW k \in Nat, Free(j, k) PROVE Free(j, k)'
    <3>1. k <= lastNumber'[j]
      BY <1>8, <2>1, SMT DEF Free
    <3>2. QED
      BY <1>9, <2>1, <3>1 DEF Free, Pending
  <2>2. QED
    BY <2>1 DEF FreeStays
<1>14. Consistent'
  <2>1. RequestsReady' /\ RepliesApart'
    BY <1>9, <1>10, RequestsWait DEF Kept, InboundConsistent
  <2>2. SettingsTyped' /\ NoticesConcernTheReader'
    BY <1>9 DEF InboundConsistent, Consistent, SettingsTyped, NoticesConcernTheReader
  <2>3. QED
    BY <1>10, <1>12, <2>1, <2>2 DEF Consistent
<1>15. Onward
  BY <1>10, <1>13, <1>14 DEF Onward
<1>16. Free(i, n)'
  <2>1. n <= lastNumber'[i]
    BY <1>5, <1>7, <1>8, SMT
  <2>2. ASSUME NEW t \in 1..Len(tickets), tickets[t].instance = i PROVE tickets[t].number # n
    <3>1. tickets[t].number <= lastNumber[i]
      BY <2>2 DEF InboundConsistent, Consistent, NumbersHandedOut
    <3>2. QED
      BY <1>7, <1>11, <3>1, SMT
  <2>3. ASSUME NEW r \in Requests, Pending(r), requests[r].row.instance = i
        PROVE  requests[r].row.number # n
    <3>1. requests[r].row.number <= lastNumber[i]
      BY <2>3 DEF InboundConsistent, Consistent, NumbersHandedOut
    <3>2. PICK k \in Nat : k = requests[r].row.number
      BY <1>11, <2>3
    <3>3. k # n
      BY <1>7, <3>1, <3>2, SMT
    <3>4. QED
      BY <3>2, <3>3
  <2>4. QED
    BY <1>9, <2>1, <2>2, <2>3 DEF Free, Pending
<1>17. PICK ccs : ccs = strip_own_addresses(AddressesOf(Routes, i), mail.to, mail.from)
  OBVIOUS
<1>18. PICK row : row = NewTicket(0, i, n, mail.subject, {mail.from}, ccs)
  OBVIOUS
<1>19. row \in Ticket /\ Agrees(row) /\ ~row.hasAttachments /\ row.instance = i /\ row.number = n
  <2>1. mail.from \in Address /\ mail.subject \in SubjectTag /\ mail.to \in Seq(Recipient)
    BY <1>3, SMT DEF ReceivedMail
  <2>2. ccs \in SUBSET Address
    <3>1. \A k \in DOMAIN mail.to : mail.to[k] \in Recipient
      BY <2>1, ElementOfSeq, LenProperties
    <3>2. \A r \in Recipient : AddressOf(r) \in Address
      BY SMT DEF Recipient, AddressOf, Address
    <3>3. QED
      BY <1>17, <3>1, <3>2 DEF strip_own_addresses
  <2>3. {mail.from} \in SUBSET Address /\ 0 \in Nat
    BY <2>1
  <2>4. QED
    BY <1>5, <1>7, <1>18, <2>1, <2>2, <2>3, NewTicketTyped
<1>20. mail.from \in row.requesters
  BY <1>18, Zenon DEF NewTicket
<1>21. PICK p : p = [q EXCEPT !.step = "open", !.row = row]
  OBVIOUS
<1>22. Proceed(w, p)
  <2>1. Proceed(w, [q EXCEPT !.step = "open",
                     !.row = NewTicket(0, i, lastNumber'[i], mail.subject, {mail.from}, ccs)])
    BY <1>1, <1>3, <1>4, <1>17 DEF Number
  <2>2. lastNumber'[i] = n
    BY <1>5, <1>8
  <2>3. QED
    BY <1>18, <1>21, <2>1, <2>2
<1>23. p \in Worker
  BY <1>3, <1>19, <1>21, Zenon DEF Worker, WorkSteps
<1>24. p.step = "open" /\ p.row = row
  BY <1>3, <1>21, Zenon DEF Worker
<1>25. p.instance = i /\ p.delivery = q.delivery
  BY <1>3, <1>4, <1>21, Zenon DEF Worker
<1>26. Holds(p, mail)'
  BY <1>5, <1>16, <1>19, <1>20, <1>24, <1>25 DEF Holds, Past, Claimed, Stored, OnTicket
<1>27. ASSUME NEW v \in Workers \ {w}
       PROVE  /\ Clear(work[v], p)
              /\ work[v].step \in Claimed => work[v].delivery[1] # q.delivery[1]
  <2>1. PICK o : o = work[v]
    OBVIOUS
  <2>2. Clear(o, q)
    BY <1>1, <2>1 DEF InboundConsistent, MailSound, WorkersApart
  <2>3. o.step = "open" /\ o.instance = i => o.row.number # n
    <3> SUFFICES ASSUME o.step = "open", o.instance = i PROVE o.row.number # n
      OBVIOUS
    <3>1. Holds(o, content[o.delivery[1]])
      BY <2>1, AtWork
    <3>2. o.row \in Ticket /\ o.row.number <= lastNumber[i]
      BY <3>1 DEF Holds, Free
    <3>3. o.row.number \in Nat
      BY <3>2, SMT DEF Ticket
    <3>4. QED
      BY <1>7, <3>2, <3>3, SMT
  <2>4. QED
    BY <1>3, <1>19, <1>24, <1>25, <2>1, <2>2, <2>3 DEF Clear, Past, Claimed
<1>28. KeptSound'
  BY <1>10, KeptStays DEF Kept, Number, InboundConsistent, MailSound, KeptSound
<1>29. \A v \in Workers \ {w} : \A o : o = work[v] => Unharmed(o)
  BY <1>15, OnwardUnharmed
<1>30. InboundConsistent'
  BY <1>1, <1>2, <1>3, <1>10, <1>14, <1>22, <1>23, <1>24, <1>25, <1>26, <1>27, <1>28, <1>29,
     WorkerGoes DEF Kept, Number
<1>31. QED
  BY <1>15, <1>30

\* The ticket is opened, with the number the worker took.
LEMMA OpenConsistent ==
  ASSUME InboundConsistent, NEW w \in Workers, Open(w)
  PROVE  InboundConsistent' /\ Consistent' /\ Kept
<1>1. PICK q : q = work[w]
  OBVIOUS
<1>2. PICK mail : mail = content[q.delivery[1]]
  OBVIOUS
<1>3. /\ q.step = "open" /\ q \in Worker /\ q.delivery[1] \in Incoming
      /\ Holds(q, mail) /\ q.delivery[1] \in claims /\ kept[q.delivery[1]] = {}
  BY <1>1, <1>2, AtWork DEF Open, Past, Claimed
<1>4. PICK t : t = Len(tickets) + 1
  OBVIOUS
<1>5. t \in Nat /\ Len(tickets) \in Nat
  BY <1>4, RowsTyped, SMT DEF InboundConsistent, Consistent
<1>6. PICK x : x = q.row
  OBVIOUS
<1>7. /\ x \in Ticket /\ Agrees(x) /\ ~x.hasAttachments
      /\ x.instance = q.instance /\ Free(q.instance, x.number)
      /\ q.instance = AddressedTo(mail) /\ ~Refuses(mail)
  BY <1>3, <1>6 DEF Holds, Past, Claimed
<1>8. PICK row : row = [x EXCEPT !.token = t]
  OBVIOUS
<1>9. row \in Ticket
  BY <1>5, <1>7, <1>8, SMT DEF Ticket
<1>10. /\ row.instance = x.instance /\ row.number = x.number
       /\ row.hasAttachments = x.hasAttachments
  BY <1>7, <1>8, SMT DEF Ticket
<1>11. row.status = x.status /\ row.assignee = x.assignee /\ row.markers = x.markers
  BY <1>7, <1>8, SMT DEF Ticket
<1>12. Agrees(row) /\ ~row.hasAttachments
  BY <1>7, <1>10, <1>11 DEF Agrees
<1>13. CreateTicket(row)
  BY <1>1, <1>4, <1>6, <1>8 DEF Open
<1>14. UNCHANGED <<lastNumber, messages, mails, notices, settings, reported, requests, calls,
                   content, receives, claims, kept, refused>>
  BY DEF Open, sent
<1>15. /\ TablesSound' /\ Kept /\ Len(tickets') = t
       /\ \A s \in 1..Len(tickets) : tickets'[s] = tickets[s]
       /\ tickets'[t] = row
  BY <1>4, <1>9, <1>12, <1>13, <1>14, TicketCreated DEF InboundConsistent, Consistent
<1>16. \A s \in 1..Len(tickets') : s \in 1..Len(tickets) \/ s = t
  BY <1>4, <1>5, <1>15, SMT
<1>17. NumbersHandedOut'
  <2>1. ASSUME NEW s \in 1..Len(tickets')
        PROVE  tickets'[s].number <= lastNumber'[tickets'[s].instance]
    <3>1. CASE s \in 1..Len(tickets)
      BY <1>14, <1>15, <3>1 DEF InboundConsistent, Consistent, NumbersHandedOut
    <3>2. CASE s = t
      BY <1>7, <1>10, <1>14, <1>15, <3>2 DEF Free
    <3>3. QED
      BY <1>16, <3>1, <3>2
  <2>2. ASSUME NEW s \in 1..Len(tickets), tickets[s].instance = row.instance
        PROVE  tickets[s].number # row.number
    BY <1>7, <1>10, <2>2 DEF Free
  <2>3. ASSUME NEW r \in 1..Len(tickets'), NEW s \in 1..Len(tickets'), r # s,
               tickets'[r].instance = tickets'[s].instance
        PROVE  tickets'[r].number # tickets'[s].number
    <3>1. CASE r \in 1..Len(tickets) /\ s \in 1..Len(tickets)
      BY <1>15, <2>3, <3>1 DEF InboundConsistent, Consistent, NumbersHandedOut
    <3>2. CASE r = t /\ s \in 1..Len(tickets)
      BY <1>15, <2>2, <2>3, <3>2
    <3>3. CASE s = t /\ r \in 1..Len(tickets)
      BY <1>15, <2>2, <2>3, <3>3
    <3>4. QED
      BY <1>16, <2>3, <3>1, <3>2, <3>3
  <2>4. ASSUME NEW r \in Requests, Pending(r)
        PROVE  /\ requests[r].row.number <= lastNumber[requests[r].row.instance]
               /\ \A s \in 1..Len(tickets') : tickets'[s].instance = requests[r].row.instance
                                            => tickets'[s].number # requests[r].row.number
    <3>1. \A s \in 1..Len(tickets) : tickets'[s].instance = requests[r].row.instance
                                            => tickets'[s].number # requests[r].row.number
      BY <1>15, <2>4 DEF InboundConsistent, Consistent, NumbersHandedOut
    <3>2. row.instance = requests[r].row.instance => row.number # requests[r].row.number
      BY <1>7, <1>10, <2>4 DEF Free
    <3>3. requests[r].row.number <= lastNumber[requests[r].row.instance]
      BY <2>4 DEF InboundConsistent, Consistent, NumbersHandedOut
    <3>4. QED
      BY <1>15, <1>16, <3>1, <3>2, <3>3
  <2>5. QED
    BY <1>14, <2>1, <2>3, <2>4 DEF InboundConsistent, Consistent, NumbersHandedOut, Pending
<1>18. Consistent'
  <2>1. RequestsReady' /\ RepliesApart'
    BY <1>14, <1>15, RequestsWait DEF Kept, InboundConsistent
  <2>2. SettingsTyped' /\ NoticesConcernTheReader'
    BY <1>14 DEF InboundConsistent, Consistent, SettingsTyped, NoticesConcernTheReader
  <2>3. QED
    BY <1>15, <1>17, <2>1, <2>2 DEF Consistent
<1>19. ASSUME NEW v \in Workers \ {w}, NEW o, o = work[v]
       PROVE  Unharmed(o) /\ Clear(o, q)
  <2>1. Clear(o, q)
    BY <1>1, <1>19 DEF InboundConsistent, MailSound, WorkersApart
  <2>2. ASSUME o.step = "open" PROVE Free(o.instance, o.row.number)'
    <3>1. Holds(o, content[o.delivery[1]])
      BY <1>19, <2>2, AtWork
    <3>2. Free(o.instance, o.row.number)
      BY <2>2, <3>1 DEF Holds
    <3>3. row.instance = o.instance => row.number # o.row.number
      BY <1>3, <1>6, <1>7, <1>10, <2>1, <2>2 DEF Clear
    <3>4. \A s \in 1..Len(tickets') : tickets'[s].instance = o.instance
                                        => tickets'[s].number # o.row.number
      BY <1>15, <1>16, <3>2, <3>3 DEF Free
    <3>5. QED
      BY <1>14, <3>2, <3>4 DEF Free, Pending
  <2>3. QED
    BY <1>14, <2>1, <2>2 DEF Unharmed
<1>20. PICK p : p = [q EXCEPT !.step = "store", !.ticket = t, !.row = row]
  OBVIOUS
<1>21. Proceed(w, p)
  BY <1>1, <1>4, <1>6, <1>8, <1>20 DEF Open
<1>22. p \in Worker
  BY <1>3, <1>5, <1>9, <1>20, Zenon DEF Worker, WorkSteps
<1>23. p.step = "store" /\ p.ticket = t
  BY <1>3, <1>20, Zenon DEF Worker
<1>24. p.row = row /\ p.instance = q.instance
  BY <1>3, <1>20, Zenon DEF Worker
<1>25. p.delivery = q.delivery
  BY <1>3, <1>20, Zenon DEF Worker
<1>26. t \in 1..Len(tickets')
  BY <1>4, <1>5, <1>15, SMT
<1>27. Holds(p, mail)'
  BY <1>7, <1>9, <1>10, <1>15, <1>23, <1>24, <1>26 DEF Holds, Past, Claimed, Stored, OnTicket
<1>28. ASSUME NEW v \in Workers \ {w}
       PROVE  /\ Clear(work[v], p)
              /\ work[v].step \in Claimed => work[v].delivery[1] # q.delivery[1]
  <2>1. Clear(work[v], q)
    BY <1>19
  <2>2. QED
    BY <1>3, <1>23, <1>25, <2>1 DEF Clear, Past, Claimed
<1>29. KeptSound'
  BY <1>14, <1>15, KeptStays DEF Kept, InboundConsistent, MailSound, KeptSound
<1>30. InboundConsistent'
  BY <1>1, <1>2, <1>3, <1>14, <1>15, <1>18, <1>19, <1>21, <1>22, <1>23, <1>25, <1>27, <1>28, <1>29,
     WorkerGoes DEF Kept
<1>31. QED
  BY <1>15, <1>18, <1>30

\* The mail becomes a row.
LEMMA StoreConsistent ==
  ASSUME InboundConsistent, NEW w \in Workers, Store(w)
  PROVE  /\ InboundConsistent' /\ Consistent' /\ Grown
         /\ kept[work[w].delivery[1]] = {}
         /\ kept'[work[w].delivery[1]] = {Len(messages) + 1}
<1>1. PICK q : q = work[w]
  OBVIOUS
<1>2. PICK mail : mail = content[q.delivery[1]]
  OBVIOUS
<1>3. /\ q.step = "store" /\ q \in Worker /\ q.delivery[1] \in Incoming /\ mail \in ReceivedMail
      /\ Got(w) = mail
      /\ Holds(q, mail) /\ q.delivery[1] \in claims /\ kept[q.delivery[1]] = {}
  BY <1>1, <1>2, AtWork DEF Store, Past, Claimed
<1>4. PICK s : s = q.delivery[1]
  OBVIOUS
<1>5. /\ q.ticket \in 1..Len(tickets) /\ tickets[q.ticket].instance = q.instance
      /\ q.row \in Ticket /\ q.instance = AddressedTo(mail) /\ ~Refuses(mail)
  BY <1>3 DEF Holds, Past, Claimed, OnTicket
<1>6. PICK to : to = {AddressOf(r) : r \in Range(mail.to)}
  OBVIOUS
<1>7. PICK row : row = NewMessage(q.ticket, "inbound", mail.from, to, {}, mail.references)
  OBVIOUS
<1>8. mail.from \in Address /\ mail.to \in Seq(Recipient) /\ mail.references \in Seq(MessageId)
  BY <1>3, SMT DEF ReceivedMail
<1>9. to \in SUBSET Address
  <2>1. \A k \in DOMAIN mail.to : mail.to[k] \in Recipient
    BY <1>8, ElementOfSeq, LenProperties
  <2>2. \A r \in Range(mail.to) : r \in Recipient
    BY <2>1 DEF Range
  <2>3. \A r \in Recipient : AddressOf(r) \in Address
    BY SMT DEF Recipient, AddressOf, Address
  <2>4. QED
    BY <1>6, <2>2, <2>3
<1>10. /\ row.ticket = q.ticket /\ row.kind = "inbound" /\ row.rfc = None /\ ~row.attachments
       /\ row \in TicketMessage
  <2>1. row.ticket = q.ticket /\ row.kind = "inbound" /\ row.rfc = None /\ ~row.attachments
    BY <1>7 DEF NewMessage
  <2>2. q.ticket \in Nat
    BY <1>3, SMT DEF Worker
  <2>3. row \in TicketMessage
    BY <1>7, <1>8, <1>9, <2>2 DEF NewMessage, TicketMessage, Kinds
  <2>4. QED
    BY <2>1, <2>3
<1>11. CreateTicketMessage(row)
  BY <1>1, <1>3, <1>6, <1>7 DEF Store
<1>12. PICK n : n = Len(messages) + 1
  OBVIOUS
<1>13. UNCHANGED <<tickets, ticketSeen, lastNumber, mails, notices, settings, reported, requests,
                   calls, content, receives, claims, refused>>
  BY DEF Store, sent
<1>14. /\ TablesSound' /\ Grown
       /\ Len(messages') = n /\ Len(messages) \in Nat
       /\ \A m \in 1..Len(messages) : messages'[m] = messages[m]
       /\ messages'[n] = row
  BY <1>5, <1>10, <1>11, <1>12, <1>13, MessageCreated DEF InboundConsistent, Consistent
<1>15. n \in Nat /\ n \in 1..n /\ n \notin 1..Len(messages)
  BY <1>12, <1>14, SMT
<1>16. Consistent' /\ FreeStays
  BY <1>13, <1>14, BesideRequests DEF InboundConsistent
<1>17. /\ kept \in [Incoming -> SUBSET (1..Len(messages))]
       /\ kept' = [kept EXCEPT ![s] = {n}]
  <2>1. kept \in [Incoming -> SUBSET (1..Len(messages))]
    BY DEF InboundConsistent, MailSound, KeptSound
  <2>2. kept' = [kept EXCEPT ![s] = @ \cup {n}]
    BY <1>1, <1>4, <1>12 DEF Store
  <2>3. kept[s] \cup {n} = {n}
    BY <1>3, <1>4
  <2>4. QED
    BY <1>3, <1>4, <2>1, <2>2, <2>3
<1>18. \A r \in Incoming : kept'[r] = IF r = s THEN {n} ELSE kept[r]
  BY <1>3, <1>4, <1>17
<1>19. KeptSound'
  <2>1. kept' \in [Incoming -> SUBSET (1..Len(messages'))]
    <3>1. 1..Len(messages) \subseteq 1..n
      BY <1>12, <1>14, SMT
    <3>2. QED
      BY <1>14, <1>15, <1>17, <3>1
  <2>2. ASSUME NEW r \in Incoming, NEW m \in kept'[r]
        PROVE  /\ r \in claims /\ content[r] # None /\ ~Refuses(content[r])
               /\ tickets[messages'[m].ticket].instance = AddressedTo(content[r])
               /\ kept'[r] = {m}
    <3>1. CASE r = s
      <4>1. m = n /\ kept'[r] = {m}
        BY <1>18, <2>2, <3>1
      <4>2. messages'[m].ticket = q.ticket
        BY <1>10, <1>14, <4>1
      <4>3. content[r] = mail
        BY <1>2, <1>4, <3>1
      <4>4. QED
        BY <1>3, <1>4, <1>5, <3>1, <4>1, <4>2, <4>3, LettersAssumption
    <3>2. CASE r # s
      <4>1. m \in kept[r] /\ kept'[r] = kept[r]
        BY <1>18, <2>2, <3>2
      <4>2. /\ m \in 1..Len(messages) /\ r \in claims /\ content[r] # None /\ ~Refuses(content[r])
            /\ tickets[messages[m].ticket].instance = AddressedTo(content[r])
            /\ kept[r] = {m}
        BY <4>1 DEF InboundConsistent, MailSound, KeptSound
      <4>3. QED
        BY <1>14, <4>1, <4>2
    <3>3. QED
      BY <3>1, <3>2
  <2>3. claims' \subseteq Incoming /\ refused' \subseteq claims'
    BY <1>13 DEF InboundConsistent, MailSound, KeptSound
  <2>4. QED
    BY <1>13, <2>1, <2>2, <2>3 DEF KeptSound
<1>20. ASSUME NEW v \in Workers \ {w}, NEW o, o = work[v]
       PROVE  Unharmed(o) /\ Clear(o, q) /\ (o.step = "stamp" => o.message # n)
  <2>1. Clear(o, q)
    BY <1>1, <1>20 DEF InboundConsistent, MailSound, WorkersApart
  <2>2. o.step # "idle" => Holds(o, content[o.delivery[1]])
    BY <1>20, AtWork
  <2>3. o.step = "open" => Free(o.instance, o.row.number)'
    <3> SUFFICES ASSUME o.step = "open" PROVE Free(o.instance, o.row.number)'
      OBVIOUS
    <3>1. Free(o.instance, o.row.number)
      BY <2>2 DEF Holds
    <3>2. QED
      BY <1>13, <3>1 DEF Free, Pending
  <2>4. o.step = "stamp" => o.message \in 1..Len(messages)
    BY <2>2 DEF Holds, Stored
  <2>5. QED
    BY <1>14, <1>15, <2>1, <2>3, <2>4 DEF Unharmed
<1>21. PICK p : p = [q EXCEPT !.step = "stamp", !.message = n]
  OBVIOUS
<1>22. Proceed(w, p)
  BY <1>1, <1>12, <1>21 DEF Store
<1>23. p \in Worker
  BY <1>3, <1>15, <1>21, Zenon DEF Worker, WorkSteps
<1>24. p.step = "stamp" /\ p.message = n
  BY <1>3, <1>21, Zenon DEF Worker
<1>25. p.ticket = q.ticket /\ p.instance = q.instance
  BY <1>3, <1>21, Zenon DEF Worker
<1>26. p.row = q.row /\ p.delivery = q.delivery
  BY <1>3, <1>21, Zenon DEF Worker
<1>27. Holds(p, mail)'
  BY <1>5, <1>10, <1>13, <1>14, <1>15, <1>24, <1>25, <1>26
  DEF Holds, Past, Claimed, Stored, OnTicket
<1>28. ASSUME NEW v \in Workers \ {w}
       PROVE  /\ Clear(work[v], p)
              /\ work[v].step \in Claimed => work[v].delivery[1] # q.delivery[1]
  <2>1. Clear(work[v], q) /\ (work[v].step = "stamp" => work[v].message # n)
    BY <1>20
  <2>2. QED
    BY <1>3, <1>24, <1>26, <2>1 DEF Clear, Past, Claimed
<1>29. p.step \notin Claimed
  BY <1>24 DEF Claimed
<1>30. InboundConsistent'
  BY <1>1, <1>2, <1>3, <1>4, <1>13, <1>14, <1>16, <1>18, <1>19, <1>20, <1>22, <1>23, <1>24, <1>26,
     <1>27, <1>28, <1>29, WorkerGoes, SMTT(60)
<1>31. QED
  BY <1>1, <1>3, <1>4, <1>12, <1>14, <1>16, <1>18, <1>30

\* A row of a received mail gets the Message-ID its sender gave it.
LEMMA ReceivedStamped ==
  ASSUME TablesSound, NEW k \in 1..Len(messages), NEW rfc \in Incoming, SetRfcMessageId(k, rfc),
         messages[k].kind = "inbound", messages[k].rfc = None,
         UNCHANGED <<tickets, ticketSeen, mails, reported>>
  PROVE  /\ TablesSound' /\ Grown /\ Len(messages') = Len(messages)
         /\ \A m \in 1..Len(messages) : m # k => messages'[m] = messages[m]
<1>1. PICK x : x = messages[k]
  OBVIOUS
<1>2. x \in TicketMessage
  BY <1>1, RowsTyped
<1>3. PICK row : row = [x EXCEPT !.rfc = rfc]
  OBVIOUS
<1>4. row \in TicketMessage
  <2>1. rfc \in MessageId \cup {None}
    BY DEF MessageId
  <2>2. QED
    BY <1>2, <1>3, <2>1, SMT DEF TicketMessage
<1>5. row.ticket = x.ticket /\ row.kind = x.kind /\ row.to = x.to /\ row.cc = x.cc
  BY <1>2, <1>3, SMT DEF TicketMessage
<1>6. row.references = x.references /\ row.attachments = x.attachments /\ row.rfc = rfc
  BY <1>2, <1>3, SMT DEF TicketMessage
<1>7. messages' = [messages EXCEPT ![k] = row]
  BY <1>1, <1>3 DEF SetRfcMessageId
<1>8. x.kind = "inbound" /\ x.rfc \notin Incoming
  BY <1>1, IncomingAssumption
<1>9. /\ TicketsSound' /\ MessagesSound' /\ MailsSound' /\ Grown
      /\ Len(messages') = Len(messages)
      /\ \A m \in 1..Len(messages) : messages'[m] = IF m = k THEN row ELSE messages[m]
  <2>1. /\ row.ticket = messages[k].ticket /\ row.kind = messages[k].kind
        /\ row.to = messages[k].to /\ row.cc = messages[k].cc
        /\ row.references = messages[k].references
        /\ messages[k].attachments => row.attachments
    BY <1>1, <1>5, <1>6
  <2>2. messages[k].rfc \in Incoming => row.rfc = messages[k].rfc
    BY <1>1, <1>8
  <2>3. row.rfc \in (IF row.kind = "inbound" THEN Incoming ELSE 1..Len(mails)) \cup {None}
    BY <1>5, <1>6, <1>8
  <2>4. QED
    BY <1>4, <1>7, <2>1, <2>2, <2>3, MessageWritten, ZenonT(60)
<1>10. RecordSound'
  <2>1. ASSUME NEW i \in 1..Len(mails), mails[i].message # 0
        PROVE  SentAs(mails[i], messages'[mails[i].message]) /\ OneSend(i, mails)
    <3>1. SentAs(mails[i], messages[mails[i].message]) /\ OneSend(i, mails)
      BY <2>1 DEF TablesSound, RecordSound
    <3>2. mails[i].message \in 1..Len(messages)
      BY <2>1, RowsTyped, SMT DEF TablesSound, MailsSound
    <3>3. mails[i].message # k
      BY <3>1 DEF SentAs
    <3>4. messages'[mails[i].message] = messages[mails[i].message]
      BY <1>9, <3>2, <3>3
    <3>5. QED
      BY <3>1, <3>4
  <2>2. ASSUME NEW m \in 1..Len(messages), messages'[m].kind # "inbound", messages'[m].rfc # None
        PROVE  /\ m # k
               /\ mails[messages[m].rfc].ticket = messages[m].ticket
               /\ mails[messages[m].rfc].envelope.to = messages[m].to
               /\ mails[messages[m].rfc].envelope.cc = messages[m].cc
               /\ mails[messages[m].rfc].message = (IF messages[m].kind = "reply" THEN m ELSE 0)
    <3>1. m # k
      BY <1>5, <1>8, <1>9, <2>2
    <3>2. messages'[m] = messages[m]
      BY <1>9, <3>1
    <3>3. QED
      BY <2>2, <3>1, <3>2 DEF TablesSound, RecordSound, StampedAs
  <2>3. reported' \subseteq 1..Len(messages')
    BY <1>9 DEF TablesSound, RecordSound
  <2>4. ASSUME NEW m \in reported
        PROVE  messages'[m].kind = "reply" /\ messages'[m].rfc # None
    <3>1. m \in 1..Len(messages) /\ messages[m].kind = "reply" /\ messages[m].rfc # None
      BY DEF TablesSound, RecordSound
    <3>2. QED
      BY <1>9, <3>1
  <2>5. ASSUME NEW m \in 1..Len(messages'), messages'[m].kind # "inbound", messages'[m].rfc # None
        PROVE  /\ mails'[messages'[m].rfc].ticket = messages'[m].ticket
               /\ mails'[messages'[m].rfc].envelope.to = messages'[m].to
               /\ mails'[messages'[m].rfc].envelope.cc = messages'[m].cc
               /\ mails'[messages'[m].rfc].message = (IF messages'[m].kind = "reply" THEN m ELSE 0)
    <3>1. m \in 1..Len(messages)
      BY <1>9
    <3>2. messages'[m] = messages[m]
      BY <1>9, <2>2, <2>5, <3>1
    <3>3. QED
      BY <2>2, <2>5, <3>1, <3>2
  <2>6. QED
    BY <1>9, <2>1, <2>3, <2>4, <2>5 DEF RecordSound, StampedAs
<1>11. PaperclipsSound'
  <2>1. ASSUME NEW t \in 1..Len(tickets), tickets[t].hasAttachments
        PROVE  \E m \in 1..Len(messages') : messages'[m].ticket = t /\ messages'[m].attachments
    <3>1. PICK m \in 1..Len(messages) : messages[m].ticket = t /\ messages[m].attachments
      BY <2>1 DEF TablesSound, PaperclipsSound
    <3>2. messages'[m].ticket = t /\ messages'[m].attachments
      BY <1>1, <1>5, <1>6, <1>9, <3>1
    <3>3. QED
      BY <1>9, <3>2
  <2>2. QED
    BY <2>1 DEF PaperclipsSound
<1>12. QED
  BY <1>9, <1>10, <1>11 DEF TablesSound

\* The mail's row is stamped, by the one worker that has it.
LEMMA StampConsistent ==
  ASSUME InboundConsistent, NEW w \in Workers, Stamp(w)
  PROVE  InboundConsistent' /\ Consistent' /\ Grown
<1>1. PICK q : q = work[w]
  OBVIOUS
<1>2. PICK mail : mail = content[q.delivery[1]]
  OBVIOUS
<1>3. /\ q.step = "stamp" /\ q \in Worker /\ q.delivery[1] \in Incoming /\ mail \in ReceivedMail
      /\ Got(w) = mail
      /\ Holds(q, mail) /\ q.delivery[1] \in claims
  BY <1>1, <1>2, AtWork DEF Stamp, Past, Stored
<1>4. PICK k : k = q.message
  OBVIOUS
<1>5. /\ q.ticket \in 1..Len(tickets) /\ tickets[q.ticket].instance = q.instance
      /\ q.row \in Ticket /\ q.instance = AddressedTo(mail) /\ ~Refuses(mail)
      /\ k \in 1..Len(messages) /\ messages[k].ticket = q.ticket
      /\ messages[k].kind = "inbound" /\ messages[k].rfc = None
  BY <1>3, <1>4 DEF Holds, Past, Stored, OnTicket
<1>6. PICK rfc : rfc = mail.id
  OBVIOUS
<1>7. rfc \in Incoming
  <2>1. Match(Routes, mail.from) = None
    BY <1>5, Accepted
  <2>2. mail # None
    BY <1>3, LettersAssumption
  <2>3. QED
    BY <1>2, <1>3, <1>6, <2>1, <2>2 DEF InboundConsistent, MailSound, ContentSound
<1>8. UNCHANGED <<tickets, ticketSeen, lastNumber, mails, notices, settings, reported, requests,
                  calls, content, receives, claims, kept, refused>>
  BY DEF Stamp, sent
<1>9. SetRfcMessageId(k, rfc)
  BY <1>1, <1>3, <1>4, <1>6 DEF Stamp
<1>10. /\ TablesSound' /\ Grown /\ Len(messages') = Len(messages)
       /\ \A m \in 1..Len(messages) : m # k => messages'[m] = messages[m]
  BY <1>5, <1>7, <1>8, <1>9, ReceivedStamped DEF InboundConsistent, Consistent
<1>11. Consistent' /\ FreeStays
  BY <1>8, <1>10, BesideRequests DEF InboundConsistent
<1>12. ASSUME NEW v \in Workers \ {w}, NEW o, o = work[v]
       PROVE  Unharmed(o) /\ Clear(o, q)
  <2>1. Clear(o, q)
    BY <1>1, <1>12 DEF InboundConsistent, MailSound, WorkersApart
  <2>2. o.step # "idle" => Holds(o, content[o.delivery[1]])
    BY <1>12, AtWork
  <2>3. o.step = "open" => Free(o.instance, o.row.number)'
    <3> SUFFICES ASSUME o.step = "open" PROVE Free(o.instance, o.row.number)'
      OBVIOUS
    <3>1. Free(o.instance, o.row.number)
      BY <2>2 DEF Holds
    <3>2. QED
      BY <1>8, <3>1 DEF Free, Pending
  <2>4. o.step = "stamp" => o.message \in 1..Len(messages) /\ o.message # k
    BY <1>3, <1>4, <2>1, <2>2 DEF Holds, Stored, Clear
  <2>5. QED
    BY <1>10, <2>1, <2>3, <2>4 DEF Unharmed
<1>13. PICK step \in {"files", "others"} : At(w, step)
  BY DEF Stamp
<1>14. PICK p : p = [q EXCEPT !.step = step]
  OBVIOUS
<1>15. /\ p \in Worker /\ p.step = step
       /\ p.delivery = q.delivery /\ p.instance = q.instance /\ p.ticket = q.ticket
       /\ p.row = q.row /\ p.message = q.message
  BY <1>3, <1>14, StepsOn DEF WorkSteps
<1>16. Proceed(w, p)
  BY <1>1, <1>13, <1>14 DEF At
<1>17. messages'[k].ticket = q.ticket
  BY <1>5, <1>10 DEF Grown, MessagesKept
<1>18. Holds(p, mail)'
  BY <1>4, <1>5, <1>8, <1>10, <1>15, <1>17 DEF Holds, Past, Claimed, Stored, OnTicket
<1>19. ASSUME NEW v \in Workers \ {w}
       PROVE  /\ Clear(work[v], p)
              /\ work[v].step \in Claimed => work[v].delivery[1] # q.delivery[1]
  <2>1. Clear(work[v], q)
    BY <1>12
  <2>2. QED
    BY <1>3, <1>15, <2>1 DEF Clear, Past, Stored
<1>20. KeptSound'
  BY <1>8, <1>10, KeptStays DEF InboundConsistent, MailSound, KeptSound
<1>21. p.step \notin Claimed
  BY <1>15 DEF Claimed
<1>22. InboundConsistent'
  BY <1>1, <1>2, <1>3, <1>8, <1>10, <1>11, <1>12, <1>15, <1>16, <1>18, <1>19, <1>20, <1>21,
     WorkerGoes
<1>23. QED
  BY <1>10, <1>11, <1>22

\* The files are recorded on the row.
LEMMA FilesConsistent ==
  ASSUME InboundConsistent, NEW w \in Workers, Files(w)
  PROVE  InboundConsistent' /\ Onward
<1>1. PICK q : q = work[w]
  OBVIOUS
<1>2. q.step = "files" /\ q.step \in OnTicket /\ q.step \in Stored
  BY <1>1 DEF Files, OnTicket, Stored
<1>3. PICK mail : mail = content[q.delivery[1]]
  OBVIOUS
<1>4. /\ q \in Worker /\ q.ticket \in 1..Len(tickets) /\ q.row \in Ticket /\ q.step \in Past
      /\ tickets[q.ticket].instance = q.instance
      /\ q.instance = AddressedTo(mail) /\ ~Refuses(mail)
  BY <1>1, <1>2, <1>3, HasTicket
<1>5. q.message \in 1..Len(messages) /\ messages[q.message].ticket = q.ticket
  BY <1>1, <1>2, <1>3, <1>4, AtWork DEF Holds
<1>6. CASE At(w, "others") /\ UNCHANGED messages
  <2>1. Onward
    BY <1>6, TablesUntouched DEF Files, vars, sent
  <2>2. QED
    BY <1>1, <1>2, <1>6, <2>1, GoesOnOnTicket DEF Files, Claimed
<1>7. CASE SetAttachments(q.message) /\ At(w, "flag")
  <2>1. /\ TablesSound' /\ Kept /\ Len(messages') = Len(messages)
        /\ messages'[q.message].attachments
    BY <1>5, <1>7, FilesAttached DEF Files, sent, InboundConsistent, Consistent
  <2>2. Consistent' /\ FreeStays
    BY <2>1, BesideRequests DEF Files, sent, InboundConsistent, Kept
  <2>3. Onward
    BY <2>1, <2>2 DEF Onward
  <2>4. PICK p : p = [q EXCEPT !.step = "flag"]
    OBVIOUS
  <2>5. /\ p \in Worker /\ p.step = "flag"
        /\ p.delivery = q.delivery /\ p.instance = q.instance /\ p.ticket = q.ticket
        /\ p.row = q.row /\ p.message = q.message
    BY <1>4, <2>4, StepsOn DEF WorkSteps
  <2>6. Proceed(w, p)
    BY <1>1, <1>7, <2>4 DEF At
  <2>7. messages'[q.message].ticket = q.ticket
    BY <1>5, <2>1 DEF Kept, Grown, MessagesKept
  <2>8. UNCHANGED tickets
    BY DEF Files
  <2>9. Holds(p, mail)'
    BY <1>4, <1>5, <2>1, <2>5, <2>7, <2>8 DEF Holds, Past, Claimed, Stored, OnTicket
  <2>10. p.step \in Past \ {"open", "stamp"} /\ p.step \notin Claimed
    BY <2>5 DEF Past, Claimed, Stored
  <2>11. InboundConsistent'
    BY <1>1, <1>3, <1>4, <2>3, <2>5, <2>6, <2>9, <2>10, WorkerGoesOn DEF Files
  <2>12. QED
    BY <2>3, <2>11
<1>8. QED
  BY <1>1, <1>6, <1>7 DEF Files

\* The ticket is flagged, after its row has the files.
LEMMA FlagConsistent ==
  ASSUME InboundConsistent, NEW w \in Workers, Flag(w)
  PROVE  InboundConsistent' /\ Onward
<1>1. PICK q : q = work[w]
  OBVIOUS
<1>2. q.step = "flag" /\ q.step \in OnTicket /\ q.step \in Stored
  BY <1>1 DEF Flag, OnTicket, Stored
<1>3. PICK t : t = q.ticket
  OBVIOUS
<1>4. t \in 1..Len(tickets) /\ tickets[t] \in Ticket /\ Agrees(tickets[t]) /\ q.step \in Past
  BY <1>1, <1>2, <1>3, HasTicket
<1>5. /\ q.message \in 1..Len(messages) /\ messages[q.message].ticket = t
      /\ messages[q.message].attachments
  BY <1>1, <1>2, <1>3, <1>4, AtWork DEF Holds
<1>6. PICK x : x = tickets[t]
  OBVIOUS
<1>7. PICK row : row = [x EXCEPT !.hasAttachments = TRUE]
  OBVIOUS
<1>8. WriteTicket(t, row)
  BY <1>1, <1>3, <1>6, <1>7 DEF Flag, MarkHasAttachments
<1>9. row \in Ticket
  <2>1. x \in Ticket
    BY <1>4, <1>6
  <2>2. \A b \in BOOLEAN : [x EXCEPT !.hasAttachments = b] \in Ticket
    BY <2>1, Zenon DEF Ticket
  <2>3. QED
    BY <1>7, <2>2
<1>10. row.instance = x.instance /\ row.number = x.number
  BY <1>4, <1>6, <1>7, SMT DEF Ticket
<1>11. row.status = x.status /\ row.assignee = x.assignee /\ row.markers = x.markers
  BY <1>4, <1>6, <1>7, SMT DEF Ticket
<1>12. Agrees(row)
  BY <1>4, <1>6, <1>10, <1>11 DEF Agrees
<1>13. Onward
  BY <1>4, <1>5, <1>6, <1>8, <1>9, <1>10, <1>12, WorkerWrites DEF Flag
<1>14. InboundConsistent'
  BY <1>1, <1>2, <1>13, GoesOnOnTicket DEF Flag, Claimed
<1>15. QED
  BY <1>13, <1>14

-----------------------------------------------------------------------------
(* Who is told.                                                            *)

\* The mail to the others on the ticket is in its thread.
LEMMA RelayTyped ==
  ASSUME InboundConsistent, NEW w \in Workers, NEW q, q = work[w], q.step = "others",
         NEW threadings, threadings = threading_for({messages[m] : m \in DOMAIN messages}, q.ticket),
         NEW threading \in threadings, NEW relay, relay = Relay(w, threading)
  PROVE  /\ relay \in Request /\ relay.row \in Ticket
         /\ relay.ticket = q.ticket /\ relay.message = 0 /\ relay.row.ccs = {}
         /\ \A id \in Named(relay.threading) : Known(id, q.ticket, messages, mails)
<1>1. q \in Worker /\ q.row \in Ticket
  BY HasTicket DEF OnTicket, Stored
<1>2. PICK from : from = Got(w).from
  OBVIOUS
<1>3. PICK x : x = q.row
  OBVIOUS
<1>4. PICK people \in SUBSET Address : people = (x.requesters \cup x.ccs) \ {from}
  <2>1. x.requesters \in SUBSET Address /\ x.ccs \in SUBSET Address
    BY <1>1, <1>3, SMT DEF Ticket
  <2>2. (x.requesters \cup x.ccs) \ {from} \in SUBSET Address
    BY <2>1
  <2>3. QED
    BY <2>2
<1>5. PICK row : row = [x EXCEPT !.requesters = people, !.ccs = {}]
  OBVIOUS
<1>6. PICK nobody \in SUBSET Address : nobody = {}
  OBVIOUS
<1>7. row = [x EXCEPT !.requesters = people, !.ccs = nobody]
  BY <1>5, <1>6
<1>8. row \in Ticket
  BY <1>1, <1>3, <1>7, Zenon DEF Ticket
<1>9. row.ccs = {}
  BY <1>1, <1>3, <1>5, Zenon DEF Ticket
<1>10. /\ threading \in [inReplyTo : MessageId \cup {None}, references : Seq(MessageId)]
       /\ \A id \in Named(threading) : Known(id, q.ticket, messages, mails)
  BY ThreadingKnown DEF InboundConsistent
<1>11. PICK event : event = Event("customerMessage")
  OBVIOUS
<1>12. event \in [kind : Updates \cup {"newTicket", "assigned"},
                  old  : Users \cup {Nobody} \cup Statuses,
                  new  : Users \cup {Nobody} \cup Statuses]
  BY <1>11 DEF Event, Updates
<1>13. PICK t : t = q.ticket
  OBVIOUS
<1>14. t \in Nat
  BY <1>1, <1>13, SMT DEF Worker
<1>15. relay = [Idle EXCEPT !.ticket = t, !.row = row, !.threading = threading, !.event = event]
  <2>1. [x EXCEPT !.requesters = (@ \cup x.ccs) \ {from}, !.ccs = {}] = row
    BY <1>1, <1>3, <1>4, <1>5, Zenon
  <2>2. QED
    BY <1>2, <1>3, <1>11, <1>13, <2>1 DEF Relay
<1>16. Idle \in Request /\ Idle.message = 0
  BY IdleIsReady DEF Idle
<1>17. relay \in Request
  BY <1>8, <1>10, <1>12, <1>14, <1>15, <1>16, ZenonT(60) DEF Request
<1>18. relay.row = row /\ relay.ticket = t
  BY <1>15, <1>16, Zenon DEF Request
<1>19. relay.message = Idle.message /\ relay.threading = threading
  BY <1>15, <1>16, Zenon DEF Request
<1>20. QED
  BY <1>8, <1>9, <1>10, <1>13, <1>16, <1>17, <1>18, <1>19

\* The others are sent the mail, or are not.
LEMMA OthersConsistent ==
  ASSUME InboundConsistent, NEW w \in Workers, Others(w)
  PROVE  InboundConsistent' /\ Onward
<1>1. PICK q : q = work[w]
  OBVIOUS
<1> DEFINE theThreadings == threading_for({messages[m] : m \in DOMAIN messages}, q.ticket)
<1>0. PICK threadings : threadings = theThreadings
  OBVIOUS
<1>2. PICK threading \in threadings :
        /\ q.step = "others"
        /\ \/ At(w, "staff") /\ UNCHANGED mails
           \/ /\ Built(Relay(w, threading)) # None
              /\ \E k \in 1..Attempts : Accept(Relay(w, threading), k)
              /\ \/ At(w, "staff")
                 \/ Proceed(w, [q EXCEPT !.step = "othersRow", !.sent = Len(mails')])
        /\ UNCHANGED <<rows, notices, settings, reported, requests, calls,
                       content, receives, claims, kept, refused>>
  BY <1>0, <1>1 DEF Others
<1>3. q.step \in OnTicket /\ q.step \in Stored
  BY <1>2 DEF OnTicket, Stored
<1>4. CASE At(w, "staff") /\ UNCHANGED mails
  <2>1. Onward
    BY <1>2, <1>4, TablesUntouched DEF vars, rows
  <2>2. QED
    BY <1>1, <1>2, <1>3, <1>4, <2>1, GoesOnOnTicket DEF Claimed
<1>5. CASE /\ Built(Relay(w, threading)) # None
           /\ \E k \in 1..Attempts : Accept(Relay(w, threading), k)
           /\ \/ At(w, "staff")
              \/ Proceed(w, [q EXCEPT !.step = "othersRow", !.sent = Len(mails')])
  <2>1. PICK relay : relay = Relay(w, threading)
    OBVIOUS
  <2>2. /\ relay \in Request /\ relay.row \in Ticket
        /\ relay.ticket = q.ticket /\ relay.message = 0 /\ relay.row.ccs = {}
        /\ \A id \in Named(relay.threading) : Known(id, q.ticket, messages, mails)
    <3>1. q.step = "others"
      BY <1>2
    <3>2. QED
      BY <1>0, <1>1, <2>1, <3>1, RelayTyped, SMTT(60)
  <2>3. Built(relay) # None /\ \E k \in 1..Attempts : Accept(relay, k)
    BY <1>5, <2>1
  <2>4. PICK mail \in Mail, k \in 1..Attempts :
           /\ Attempted(mail, k)
           /\ mail.ticket = relay.ticket /\ mail.message = relay.message
           /\ mail.envelope = Built(relay)
           /\ Named(mail.envelope) = Named(relay.threading)
           /\ Match(Routes, mail.envelope.replyTo) # None
    BY <2>2, <2>3, AcceptedMail DEF InboundConsistent, Consistent
  <2>5. mail.envelope.cc = {}
    <3>1. Built(relay).cc = {}
      BY <2>2, <2>3 DEF Built, build_outbound
    <3>2. QED
      BY <2>4, <3>1
  <2>6. /\ q.ticket \in 1..Len(tickets) /\ q.row \in Ticket /\ q \in Worker /\ q.step \in Past
        /\ tickets[q.ticket].instance = q.instance
        /\ q.instance = AddressedTo(content[q.delivery[1]])
        /\ ~Refuses(content[q.delivery[1]])
    BY <1>1, <1>3, HasTicket
  <2>7. mail.message \in 0..Len(messages)
    BY <2>2, <2>4, RowsTyped, SMT DEF InboundConsistent, Consistent
  <2> DEFINE n == Len(mails')
  <2>8. /\ TablesSound' /\ Kept /\ n \in Nat /\ n \in 1..n
        /\ \A i \in 1..n : i \in 1..Len(mails) \/ mails'[i].message = mail.message
        /\ mails'[n].ticket = mail.ticket /\ mails'[n].message = mail.message
        /\ mails'[n].envelope = mail.envelope
    BY <1>2, <2>2, <2>4, <2>6, <2>7, MailSent DEF rows, InboundConsistent, Consistent
  <2>9. Consistent' /\ FreeStays
    <3>1. \A i \in 1..Len(mails') : i \in 1..Len(mails) \/ mails'[i].message = 0
      BY <2>2, <2>4, <2>8
    <3>2. QED
      BY <1>2, <2>8, <3>1, BesideRequests DEF rows, InboundConsistent, Kept
  <2>10. Onward
    BY <2>8, <2>9 DEF Onward
  <2>11. CASE At(w, "staff")
    BY <1>1, <1>2, <1>3, <2>10, <2>11, GoesOnOnTicket DEF Claimed
  <2>12. CASE Proceed(w, [q EXCEPT !.step = "othersRow", !.sent = Len(mails')])
    <3>1. PICK last : last = Len(mails')
      OBVIOUS
    <3>2. last \in Nat /\ last \in 1..Len(mails')
      BY <2>8, <3>1
    <3>3. PICK p : p = [q EXCEPT !.step = "othersRow", !.sent = last]
      OBVIOUS
    <3>4. p \in Worker
      BY <2>6, <3>2, <3>3, Zenon DEF Worker, WorkSteps
    <3>5. p.step = "othersRow" /\ p.sent = last
      BY <2>6, <3>3, Zenon DEF Worker
    <3>6. p.ticket = q.ticket /\ p.row = q.row
      BY <2>6, <3>3, Zenon DEF Worker
    <3>7. p.instance = q.instance /\ p.message = q.message
      BY <2>6, <3>3, Zenon DEF Worker
    <3>8. p.delivery = q.delivery
      BY <2>6, <3>3, Zenon DEF Worker
    <3>9. q.message \in 1..Len(messages) /\ messages[q.message].ticket = q.ticket
      BY <1>1, <1>3, <2>6, AtWork, SMTT(60) DEF Holds, Past, Stored
    <3>10. mails'[last].ticket = q.ticket /\ mails'[last].message = 0 /\ mails'[last].envelope.cc = {}
      BY <2>2, <2>4, <2>5, <2>8, <3>1
    <3>11. PICK letter : letter = content[q.delivery[1]]
      OBVIOUS
    <3>12. UNCHANGED <<tickets, messages>>
      BY <1>2 DEF rows
    <3>13. Holds(p, letter)'
      BY <2>6, <3>2, <3>5, <3>6, <3>7, <3>9, <3>10, <3>11, <3>12
      DEF Holds, Past, Claimed, Stored, OnTicket
    <3>14. Proceed(w, p)
      BY <2>12, <3>1, <3>3
    <3>15. p.step \in Past \ {"open", "stamp"} /\ p.step \notin Claimed
      BY <3>5 DEF Past, Claimed, Stored
    <3>16. InboundConsistent'
      BY <1>1, <1>2, <2>6, <2>10, <3>4, <3>8, <3>11, <3>13, <3>14, <3>15, WorkerGoesOn
    <3>17. QED
      BY <2>10, <3>16
  <2>13. QED
    BY <1>5, <2>11, <2>12
<1>6. QED
  BY <1>2, <1>4, <1>5


\* The row of the mail to the others: its thread is the ticket's.
LEMMA OthersRowConsistent ==
  ASSUME InboundConsistent, NEW w \in Workers, OthersRow(w)
  PROVE  InboundConsistent' /\ Onward
<1>1. PICK q : q = work[w]
  OBVIOUS
<1>2. q.step = "othersRow" /\ q.step \in OnTicket /\ q.step \in Stored
  BY <1>1 DEF OthersRow, OnTicket, Stored
<1>3. /\ q.ticket \in 1..Len(tickets) /\ q.row \in Ticket /\ q \in Worker /\ q.step \in Past
      /\ tickets[q.ticket].instance = q.instance
      /\ q.instance = AddressedTo(content[q.delivery[1]])
      /\ ~Refuses(content[q.delivery[1]])
  BY <1>1, <1>2, HasTicket
<1>4. /\ q.message \in 1..Len(messages) /\ messages[q.message].ticket = q.ticket
      /\ q.sent \in 1..Len(mails)
      /\ mails[q.sent].ticket = q.ticket /\ mails[q.sent].message = 0
      /\ mails[q.sent].envelope.cc = {}
  BY <1>1, <1>2, <1>3, AtWork, ZenonT(60) DEF Holds, Past
<1>5. PICK e : e = mails[q.sent].envelope
  OBVIOUS
<1>6. UNCHANGED <<tickets, ticketSeen, lastNumber, mails, notices, settings, reported, requests,
                  calls, content, receives, claims, kept, refused>>
  BY DEF OthersRow, sent
<1>7. CASE At(w, "staff") /\ UNCHANGED messages
  <2>1. Onward
    BY <1>6, <1>7, TablesUntouched DEF vars, rows, sent
  <2>2. QED
    BY <1>1, <1>2, <1>6, <1>7, <2>1, GoesOnOnTicket DEF Claimed
<1>8. CASE /\ CreateTicketMessage(NewMessage(q.ticket, "system", None, e.to, {}, e.references))
           /\ Proceed(w, [q EXCEPT !.step = "othersStamp", !.message = Len(messages) + 1])
  <2>1. PICK row : row = NewMessage(q.ticket, "system", None, e.to, {}, e.references)
    OBVIOUS
  <2>2. e \in Envelope /\ \A id \in Named(e) : Known(id, q.ticket, messages, mails)
    <3>1. mails[q.sent] \in Mail
      BY <1>4, RowsTyped DEF InboundConsistent, Consistent
    <3>2. e \in Envelope
      BY <1>5, <3>1, SMT DEF Mail
    <3>3. \A id \in Named(mails[q.sent].envelope) : Known(id, mails[q.sent].ticket, messages, mails)
      BY <1>4 DEF InboundConsistent, Consistent, TablesSound, MailsSound
    <3>4. QED
      BY <1>4, <1>5, <3>2, <3>3
  <2>3. e.to \in SUBSET Address /\ e.references \in Seq(MessageId)
    BY <2>2, Zenon DEF Envelope
  <2>4. /\ row.ticket = q.ticket /\ row.kind = "system" /\ row.rfc = None /\ ~row.attachments
        /\ row.to = e.to /\ row.cc = {} /\ row.references = e.references
    BY <2>1 DEF NewMessage
  <2>5. row \in TicketMessage
    <3>1. "system" \in Kinds /\ None \in Users \cup Address \cup {None}
      BY Zenon DEF Kinds
    <3>2. q.ticket \in Nat
      BY <1>3, SMT DEF Worker
    <3>3. {} \in SUBSET Address
      OBVIOUS
    <3>4. QED
      BY <2>1, <2>3, <3>1, <3>2, <3>3, Zenon DEF NewMessage, TicketMessage
  <2>6. \A id \in Range(row.references) : Known(id, row.ticket, messages, mails)
    BY <2>2, <2>4 DEF Named
  <2>7. CreateTicketMessage(row)
    BY <1>8, <2>1
  <2>8. PICK n : n = Len(messages) + 1
    OBVIOUS
  <2>9. /\ TablesSound' /\ Kept
        /\ Len(messages') = n /\ Len(messages) \in Nat
        /\ \A m \in 1..Len(messages) : messages'[m] = messages[m]
        /\ messages'[n] = row
    BY <1>3, <1>6, <2>4, <2>5, <2>6, <2>7, <2>8, MessageCreated DEF InboundConsistent, Consistent
  <2>10. Consistent' /\ FreeStays
    BY <1>6, <2>9, BesideRequests DEF InboundConsistent, Kept
  <2>11. Onward
    BY <2>9, <2>10 DEF Onward
  <2>12. n \in Nat /\ n \in 1..Len(messages')
    BY <2>8, <2>9, SMT
  <2>13. PICK p : p = [q EXCEPT !.step = "othersStamp", !.message = n]
    OBVIOUS
  <2>14. p \in Worker
    BY <1>3, <2>12, <2>13, Zenon DEF Worker, WorkSteps
  <2>15. p.step = "othersStamp" /\ p.message = n
    BY <1>3, <2>13, Zenon DEF Worker
  <2>16. p.ticket = q.ticket /\ p.row = q.row
    BY <1>3, <2>13, Zenon DEF Worker
  <2>17. p.instance = q.instance /\ p.sent = q.sent
    BY <1>3, <2>13, Zenon DEF Worker
  <2>18. p.delivery = q.delivery
    BY <1>3, <2>13, Zenon DEF Worker
  <2>19. PICK letter : letter = content[q.delivery[1]]
    OBVIOUS
  <2>20. Holds(p, letter)'
    BY <1>3, <1>4, <1>5, <1>6, <2>4, <2>9, <2>12, <2>15, <2>16, <2>17, <2>19
    DEF Holds, Past, Claimed, Stored, OnTicket
  <2>21. Proceed(w, p)
    BY <1>8, <2>8, <2>13
  <2>22. p.step \in Past \ {"open", "stamp"} /\ p.step \notin Claimed
    BY <2>15 DEF Past, Claimed, Stored
  <2>23. InboundConsistent'
    BY <1>1, <1>3, <1>6, <2>11, <2>14, <2>18, <2>19, <2>20, <2>21, <2>22, WorkerGoesOn
  <2>24. QED
    BY <2>11, <2>23
<1>9. QED
  BY <1>1, <1>5, <1>7, <1>8 DEF OthersRow

\* The row of the mail to the others gets that mail's Message-ID.
LEMMA OthersStampConsistent ==
  ASSUME InboundConsistent, NEW w \in Workers, OthersStamp(w)
  PROVE  InboundConsistent' /\ Onward
<1>1. PICK q : q = work[w]
  OBVIOUS
<1>2. q.step = "othersStamp" /\ q.step \in OnTicket /\ q.step \in Stored
  BY <1>1 DEF OthersStamp, OnTicket, Stored
<1>3. q.step \in Past
  BY <1>1, <1>2, HasTicket
<1>4. PICK k : k = q.message
  OBVIOUS
<1>5. PICK rfc : rfc = q.sent
  OBVIOUS
<1>6. /\ k \in 1..Len(messages) /\ messages[k].ticket = q.ticket
      /\ rfc \in 1..Len(mails)
      /\ mails[rfc].ticket = q.ticket /\ mails[rfc].message = 0
      /\ mails[rfc].envelope.cc = {}
      /\ messages[k].kind = "system"
      /\ messages[k].to = mails[rfc].envelope.to /\ messages[k].cc = {}
  <2>1. Holds(q, content[q.delivery[1]])
    BY <1>1, <1>2, <1>3, HasTicket, AtWork
  <2>2. QED
    BY <1>2, <1>4, <1>5, <2>1 DEF Holds
<1>7. StampedAs(k, mails[rfc])
  BY <1>6 DEF StampedAs
<1>8. UNCHANGED <<tickets, ticketSeen, lastNumber, mails, notices, settings, reported, requests,
                  calls, content, receives, claims, kept, refused>>
  BY DEF OthersStamp, sent
<1>9. Onward
  <2>1. CASE UNCHANGED messages
    BY <1>8, <2>1, TablesUntouched DEF vars, rows, sent
  <2>2. CASE SetRfcMessageId(k, rfc)
    <3>1. TablesSound' /\ Kept /\ Len(messages') = Len(messages)
      BY <1>6, <1>7, <1>8, <2>2, MessageStamped DEF InboundConsistent, Consistent
    <3>2. Consistent' /\ FreeStays
      BY <1>8, <3>1, BesideRequests DEF InboundConsistent, Kept
    <3>3. QED
      BY <3>1, <3>2 DEF Onward
  <2>3. QED
    BY <1>1, <1>4, <1>5, <2>1, <2>2 DEF OthersStamp
<1>10. At(w, "staff")
  BY DEF OthersStamp
<1>11. InboundConsistent'
  BY <1>1, <1>2, <1>8, <1>9, <1>10, GoesOnOnTicket DEF Claimed
<1>12. QED
  BY <1>9, <1>11

\* Staff are told, and the work on the mail is done.
LEMMA StaffConsistent ==
  ASSUME InboundConsistent, NEW w \in Workers, Staff(w)
  PROVE  InboundConsistent' /\ Onward
<1>1. UNCHANGED <<tickets, ticketSeen, lastNumber, messages, mails, settings, reported, requests,
                  calls, content, receives, claims, kept, refused>>
  BY DEF Staff, rows
<1>2. NoticesConcernTheReader'
  <2>1. PICK q : q = work[w]
    OBVIOUS
  <2>2. PICK event : event = Event(IF q.opened THEN "newTicket" ELSE "customerMessage")
    OBVIOUS
  <2>3. notify_staff(q.ticket, q.row, q.row.assignee, event, Got(w).from)
    BY <2>1, <2>2 DEF Staff
  <2>4. QED
    BY <2>3, NotifiedRightly DEF InboundConsistent, Consistent
<1>3. TablesSound' /\ Kept
  BY <1>1, TablesLeft DEF InboundConsistent, Consistent
<1>4. RequestsReady' /\ RepliesApart'
  BY <1>1, <1>3, RequestsWait DEF InboundConsistent, Kept
<1>5. NumbersHandedOut' /\ FreeStays
  BY <1>1, NumbersWait DEF InboundConsistent
<1>6. SettingsTyped'
  BY <1>1 DEF InboundConsistent, Consistent, SettingsTyped
<1>7. Onward
  BY <1>2, <1>3, <1>4, <1>5, <1>6 DEF Consistent, Onward
<1>8. work[w].step # "idle" /\ Leave(w, "done")
  BY DEF Staff, Finish
<1>9. claims' \subseteq Incoming /\ refused' \subseteq claims'
  BY <1>1 DEF InboundConsistent, MailSound, KeptSound
<1>10. InboundConsistent'
  BY <1>1, <1>7, <1>8, <1>9, WorkerLeaves
<1>11. QED
  BY <1>7, <1>10

-----------------------------------------------------------------------------
(* The invariant.                                                          *)

\* No mail has arrived.
LEMMA InboundInitConsistent == InboundInit => InboundConsistent
<1> SUFFICES ASSUME InboundInit PROVE InboundConsistent
  OBVIOUS
<1>1. Consistent
  BY InitConsistent DEF InboundInit
<1>2. ContentSound
  BY DEF InboundInit, ContentSound
<1>3. Waiting \in Worker /\ Waiting.step = "idle"
  BY DEF Waiting, Worker, WorkSteps
<1>4. QueueSound
  <2>1. 0 \in 0..MaxReceives
    BY InboundAssumption, SMT
  <2>2. QED
    BY <1>3, <2>1, Zenon DEF InboundInit, QueueSound
<1>5. KeptSound
  BY DEF InboundInit, KeptSound
<1>6. WorkersSound
  BY <1>3 DEF InboundInit, WorkersSound, Past, Claimed, Stored
<1>7. WorkersApart
  BY <1>3 DEF InboundInit, WorkersApart, Clear, Past, Claimed, Stored
<1>8. QED
  BY <1>1, <1>2, <1>4, <1>5, <1>6, <1>7 DEF InboundConsistent, MailSound

\* A worker's step.
LEMMA WorkConsistent ==
  ASSUME InboundConsistent, NEW w \in Workers, Work(w)
  PROVE  InboundConsistent'
<1>1. ASSUME Claim(w) \/ Refuse(w) \/ Resolve(w) PROVE InboundConsistent'
  BY <1>1, ClaimConsistent, RefuseConsistent, ResolveConsistent
<1>2. ASSUME AddSender(w) \/ Reopen(w) \/ Number(w) \/ Open(w) PROVE InboundConsistent'
  BY <1>2, AddSenderConsistent, ReopenConsistent, NumberConsistent, OpenConsistent
<1>3. ASSUME Store(w) \/ Stamp(w) \/ Files(w) \/ Flag(w) PROVE InboundConsistent'
  BY <1>3, StoreConsistent, StampConsistent, FilesConsistent, FlagConsistent
<1>4. ASSUME Others(w) \/ OthersRow(w) \/ OthersStamp(w) \/ Staff(w) PROVE InboundConsistent'
  BY <1>4, OthersConsistent, OthersRowConsistent, OthersStampConsistent, StaffConsistent
<1>5. QED
  BY <1>1, <1>2, <1>3, <1>4 DEF Work

\* A step of anyone.
LEMMA InboundNextConsistent ==
  ASSUME InboundConsistent, [InboundNext]_allVars
  PROVE  InboundConsistent'
<1>1. CASE (Next \/ UNCHANGED vars) /\ UNCHANGED inbound
  BY <1>1, ElsewhereConsistent
<1>2. CASE Mailing
  BY <1>2, MailingConsistent
<1>3. ASSUME NEW s \in Incoming, NEW k \in 2..MaxCopies, Republish(s, k) PROVE InboundConsistent'
  BY <1>3, RepublishConsistent
<1>4. ASSUME NEW d \in Delivery, NEW w \in Workers, Receive(w, d) PROVE InboundConsistent'
  BY <1>4, ReceiveConsistent
<1>5. ASSUME NEW d \in Delivery, ToDlq(d) PROVE InboundConsistent'
  BY <1>5, ToDlqConsistent
<1>6. ASSUME NEW w \in Workers, Work(w) \/ Fail(w) PROVE InboundConsistent'
  BY <1>6, WorkConsistent, FailConsistent
<1>7. QED
  BY <1>1, <1>2, <1>3, <1>4, <1>5, <1>6 DEF InboundNext, Queue, allVars

\* In every state there is: the queue, the claims, the workers and the rows they
\* have stored agree, whatever fails and however often a mail is delivered.
THEOREM InboundAlwaysConsistent == InboundSpec => []InboundConsistent
<1>1. InboundConsistent /\ [InboundNext]_allVars => InboundConsistent'
  BY InboundNextConsistent
<1>2. QED
  BY <1>1, InboundInitConsistent, PTL DEF InboundSpec

-----------------------------------------------------------------------------
(* What follows.                                                           *)

\* Type correctness: mails, deliveries and workers are well formed, a worker's
\* delivery is held, and the row and mail it is to write about exist.
THEOREM InboundTypeCorrect == InboundSpec => []InboundTypeOK
<1>1. InboundConsistent => InboundTypeOK
  <2> SUFFICES ASSUME InboundConsistent PROVE InboundTypeOK
    OBVIOUS
  <2>1. TypeOK
    BY ConsistentTyped DEF InboundConsistent
  <2>2. 1..Len(messages) = DOMAIN messages /\ 1..Len(mails) = DOMAIN mails
    BY TablesHaveRows DEF InboundConsistent
  <2>3. ASSUME NEW w \in Workers, NEW q, q = work[w]
        PROVE  /\ q.step # "idle" => deliveries[q.delivery] = "held"
               /\ q.step \in {"stamp", "files", "flag", "others", "othersRow", "othersStamp", "staff"}
                   => q.message \in DOMAIN messages /\ messages[q.message].ticket = q.ticket
               /\ q.step \in {"othersRow", "othersStamp"} => q.sent \in DOMAIN mails
    <3> SUFFICES ASSUME q.step # "idle"
                 PROVE  /\ deliveries[q.delivery] = "held"
                        /\ q.step \in Stored
                            => q.message \in DOMAIN messages /\ messages[q.message].ticket = q.ticket
                        /\ q.step \in {"othersRow", "othersStamp"} => q.sent \in DOMAIN mails
      BY DEF Stored
    <3>1. deliveries[q.delivery] = "held" /\ Holds(q, content[q.delivery[1]])
      BY <2>3, AtWork
    <3>2. QED
      BY <2>2, <3>1 DEF Holds
  <2>4. /\ content \in [Incoming -> ReceivedMail \cup {None}]
        /\ deliveries \in [Delivery -> {"unsent", "queued", "held", "done", "dead"}]
        /\ receives \in [Delivery -> 0..MaxReceives]
        /\ claims \subseteq Incoming /\ refused \subseteq claims
        /\ work \in [Workers -> Worker]
        /\ kept \in [Incoming -> SUBSET DOMAIN messages]
    BY <2>2 DEF InboundConsistent, MailSound, ContentSound, QueueSound, KeptSound
  <2>5. QED
    BY <2>1, <2>3, <2>4 DEF InboundTypeOK
<1>2. QED
  BY <1>1, InboundAlwaysConsistent, PTL

\* check_structural and the own-address guard: nothing that a machine sent and
\* nothing this program sent, echoed by a server that dropped the loop header
\* or not, is ever put on a ticket.
THEOREM LoopsAlwaysEnd == InboundSpec => []NoLoops
<1>1. InboundConsistent => NoLoops
  <2> SUFFICES ASSUME InboundConsistent, NEW s \in Incoming, kept[s] # {}
               PROVE  content[s].headers = Plain /\ content[s].id \notin DOMAIN mails
    BY DEF NoLoops
  <2>1. PICK mail : mail = content[s]
    OBVIOUS
  <2>2. mail # None /\ ~Refuses(mail)
    BY <2>1 DEF InboundConsistent, MailSound, KeptSound
  <2>3. mail \in ReceivedMail /\ (mail.id \in Incoming \/ Match(Routes, mail.from) # None)
    BY <2>1, <2>2 DEF InboundConsistent, MailSound, ContentSound
  <2>4. ~check_structural(mail.headers) /\ mail.id \in Incoming
    BY <2>2, <2>3, Accepted
  <2>5. PICK h : h = mail.headers
    OBVIOUS
  <2>6. h \in Headers
    BY <2>3, <2>5, SMT DEF ReceivedMail
  <2>7. h.autoSubmitted = FALSE /\ h.bulk = FALSE /\ h.loop = FALSE
    BY <2>4, <2>5, <2>6, SMT DEF check_structural, Headers
  <2>8. h = Plain
    BY <2>6, <2>7, SMT DEF Headers, Plain
  <2>9. DOMAIN mails \subseteq Nat
    BY TablesHaveRows, SMT DEF InboundConsistent
  <2>10. QED
    BY <2>1, <2>4, <2>5, <2>8, <2>9, IncomingAssumption
<1>2. QED
  BY <1>1, InboundAlwaysConsistent, PTL

\* With mail coming in, too, threading headers name only what is of the ticket or
\* its customers put there, no two tickets of an instance share a number, and
\* the record, the mails, the reports and the paperclips of a ticket agree.
THEOREM TicketsAlwaysHoldTogether ==
  InboundSpec => [](ThreadsAsReceived /\ NumbersUnique /\ RepliesAsRecorded)
<1>1. InboundConsistent => ThreadsAsReceived /\ NumbersUnique /\ RepliesAsRecorded
  <2> SUFFICES ASSUME InboundConsistent PROVE ThreadsAsReceived /\ NumbersUnique /\ RepliesAsRecorded
    OBVIOUS
  <2>1. RepliesAsRecorded
    BY ConsistentRecorded DEF InboundConsistent
  <2>2. NumbersUnique
    BY TablesHaveRows DEF InboundConsistent, Consistent, NumbersHandedOut, NumbersUnique
  <2>3. ASSUME NEW i \in DOMAIN mails, NEW id \in Named(mails[i].envelope)
        PROVE  \/ id \in 1..(i - 1) /\ mails[id].ticket = mails[i].ticket
               \/ \E m \in DOMAIN messages :
                    /\ messages[m].kind = "inbound" /\ messages[m].ticket = mails[i].ticket
                    /\ id = messages[m].rfc \/ id \in Range(messages[m].references)
    <3>1. /\ Known(id, mails[i].ticket, messages, mails)
          /\ id \in Nat => id < i \/ Heard(id, mails[i].ticket, messages)
      BY TablesHaveRows DEF InboundConsistent, Consistent, TablesSound, MailsSound
    <3>2. CASE Heard(id, mails[i].ticket, messages)
      BY <3>2, TablesHaveRows DEF InboundConsistent, Heard
    <3>3. CASE /\ ~Heard(id, mails[i].ticket, messages)
               /\ id \in 1..Len(mails) /\ mails[id].ticket = mails[i].ticket
      <4>1. id \in 1..(i - 1)
        BY <3>1, <3>3, TablesHaveRows, SMT DEF InboundConsistent
      <4>2. QED
        BY <3>3, <4>1
    <3>4. CASE id \in Incoming /\ \E m \in 1..Len(messages) :
                    messages[m].rfc = id /\ messages[m].ticket = mails[i].ticket
      <4>1. PICK m \in 1..Len(messages) :
               messages[m].rfc = id /\ messages[m].ticket = mails[i].ticket
        BY <3>4
      <4>2. messages[m].rfc \in (IF messages[m].kind = "inbound" THEN Incoming ELSE 1..Len(mails))
                                  \cup {None}
        BY DEF InboundConsistent, Consistent, TablesSound, MessagesSound
      <4>3. 1..Len(mails) \subseteq Nat
        BY TablesHaveRows, SMT DEF InboundConsistent
      <4>4. messages[m].kind = "inbound"
        BY <3>4, <4>1, <4>2, <4>3, IncomingAssumption
      <4>5. QED
        BY <4>1, <4>4, TablesHaveRows DEF InboundConsistent
    <3>5. QED
      BY <3>1, <3>2, <3>3, <3>4 DEF Known
  <2>4. ThreadsAsReceived
    BY <2>3 DEF ThreadsAsReceived, Named
  <2>5. QED
    BY <2>1, <2>2, <2>4
<1>2. QED
  BY <1>1, InboundAlwaysConsistent, PTL

-----------------------------------------------------------------------------
(* Inbound mail implements Inbox.                                          *)

\* What Boxes is: a mail has one row, of its instance, or none.
BoxesRight ==
    /\ Boxes = [s \in Incoming |-> Boxes[s]]
    /\ \A s \in Incoming :
        /\ kept[s] = {} => Boxes[s] = [place  |-> IF s \in claims /\ ~Underway(s)
                                                  THEN "gone" ELSE "waiting",
                                       homes  |-> {}, copies |-> 0]
        /\ kept[s] # {} => Boxes[s] = [place  |-> "kept", homes |-> {AddressedTo(content[s])},
                                       copies |-> 1]

\* It is so in every consistent state.
LEMMA BoxesAreRight == InboundConsistent => BoxesRight
<1> SUFFICES ASSUME InboundConsistent PROVE BoxesRight
  OBVIOUS
<1>1. Boxes = [s \in Incoming |-> Boxes[s]]
  BY DEF Boxes
<1>2. ASSUME NEW s \in Incoming, kept[s] = {}
      PROVE  Boxes[s] = [place |-> IF s \in claims /\ ~Underway(s) THEN "gone" ELSE "waiting",
                         homes |-> {}, copies |-> 0]
  <2>1. PlaceOf(s) = IF s \in claims /\ ~Underway(s) THEN "gone" ELSE "waiting"
    BY <1>2 DEF PlaceOf
  <2>2. {tickets[messages[m].ticket].instance : m \in kept[s]} = {} /\ Cardinality(kept[s]) = 0
    BY <1>2, FS_EmptySet
  <2>3. QED
    BY <2>1, <2>2 DEF Boxes
<1>3. ASSUME NEW s \in Incoming, kept[s] # {}
      PROVE  Boxes[s] = [place |-> "kept", homes |-> {AddressedTo(content[s])}, copies |-> 1]
  <2>1. PICK m : m \in kept[s]
    BY <1>3
  <2>2. kept[s] = {m} /\ tickets[messages[m].ticket].instance = AddressedTo(content[s])
    BY <2>1 DEF InboundConsistent, MailSound, KeptSound
  <2>3. PlaceOf(s) = "kept"
    BY <1>3 DEF PlaceOf
  <2>4. {tickets[messages[k].ticket].instance : k \in kept[s]} = {AddressedTo(content[s])}
    BY <2>2
  <2>5. Cardinality(kept[s]) = 1
    BY <2>2, FS_Singleton
  <2>6. QED
    BY <2>3, <2>4, <2>5 DEF Boxes
<1>4. QED
  BY <1>1, <1>2, <1>3 DEF BoxesRight

\* And in the next.
LEMMA BoxesAreRightNext == InboundConsistent' => BoxesRight'
BY BoxesAreRight, PTL

\* No mail that is stored is moved.
LEMMA BoxesStay ==
  ASSUME InboundConsistent, InboundConsistent', UNCHANGED kept,
         \A s \in Incoming : content[s] # None => content'[s] = content[s],
         \A s \in Incoming : kept[s] = {} =>
            ((s \in claims' /\ ~Underway(s)') <=> (s \in claims /\ ~Underway(s)))
  PROVE  UNCHANGED Boxes
<1>1. BoxesRight /\ BoxesRight'
  BY BoxesAreRight, BoxesAreRightNext
<1>2. ASSUME NEW s \in Incoming PROVE Boxes'[s] = Boxes[s]
  <2>1. CASE kept[s] = {}
    BY <1>1, <2>1 DEF BoxesRight
  <2>2. CASE kept[s] # {}
    <3>1. content'[s] = content[s]
      BY <2>2 DEF InboundConsistent, MailSound, KeptSound
    <3>2. QED
      BY <1>1, <2>2, <3>1, ZenonT(60) DEF BoxesRight
  <2>3. QED
    BY <2>1, <2>2
<1>3. QED
  BY <1>1, <1>2 DEF BoxesRight

\* A worker goes on among the steps before the row, or among the others.
LEMMA WorkerStutters ==
  ASSUME InboundConsistent, InboundConsistent', NEW w \in Workers, NEW q, q = work[w],
         NEW p, work' = [work EXCEPT ![w] = p],
         p.step \in Claimed <=> q.step \in Claimed,
         p.step \in Claimed => p.delivery = q.delivery,
         UNCHANGED <<content, claims, kept>>
  PROVE  UNCHANGED <<content, Boxes>>
<1>1. \A v \in Workers : work'[v] = IF v = w THEN p ELSE work[v]
  BY DEF InboundConsistent, MailSound, QueueSound
<1>2. ASSUME NEW s \in Incoming PROVE Underway(s)' <=> Underway(s)
  BY <1>1 DEF Underway, Claimed
<1>3. QED
  BY <1>2, BoxesStay

\* The workers have nothing to do with it.
LEMMA QueueStutters ==
  ASSUME InboundConsistent, InboundConsistent', UNCHANGED <<content, claims, kept, work>>
  PROVE  UNCHANGED <<content, Boxes>>
<1>1. ASSUME NEW s \in Incoming PROVE Underway(s)' <=> Underway(s)
  BY DEF Underway
<1>2. QED
  BY <1>1, BoxesStay

\* Mail arrives.
LEMMA ArriveInBox ==
  ASSUME InboundConsistent, InboundConsistent', NEW s \in Incoming, NEW mail, Arrive(s, mail)
  PROVE  MailBox!Arrive(s)
<1>1. \A r \in Incoming : content'[r] = IF r = s THEN mail ELSE content[r]
  BY DEF Arrive, InboundConsistent, MailSound, ContentSound
<1>2. ASSUME NEW r \in Incoming PROVE Underway(r)' <=> Underway(r)
  BY DEF Arrive, Underway
<1>3. UNCHANGED Boxes
  BY <1>1, <1>2, BoxesStay DEF Arrive
<1>4. content'[s] # None
  <2>1. <<s, 1>> \in Delivery
    BY InboundAssumption, SMT DEF Delivery
  <2>2. deliveries'[<<s, 1>>] = "queued"
    BY <2>1 DEF Arrive, InboundConsistent, MailSound, QueueSound
  <2>3. QED
    BY <2>1, <2>2 DEF InboundConsistent, MailSound, QueueSound
<1>5. QED
  BY <1>1, <1>3, <1>4 DEF Arrive, MailBox!Arrive

\* A worker leaves its mail, with the mail's claim and without a row.
LEMMA GivenUp ==
  ASSUME InboundConsistent, InboundConsistent', NEW w \in Workers, NEW q, q = work[w],
         q.step # "idle", NEW place, Leave(w, place),
         q.step \in Claimed \/ (q.step = "claim" /\ q.delivery[1] \notin claims),
         claims' = claims \cup {q.delivery[1]}, UNCHANGED <<content, kept>>
  PROVE  MailBox!GiveUp(q.delivery[1])
<1>1. PICK s : s = q.delivery[1]
  OBVIOUS
<1>2. s \in Incoming /\ content[s] \in ReceivedMail /\ q \in Worker
  BY <1>1, AtWork
<1>3. kept[s] = {}
  <2>1. CASE q.step \in Claimed
    BY <1>1, <2>1, AtWork
  <2>2. CASE s \notin claims
    BY <1>2, <2>2 DEF InboundConsistent, MailSound, KeptSound
  <2>3. QED
    BY <1>1, <2>1, <2>2
<1>4. ASSUME NEW v \in Workers \ {w} PROVE ~(work[v].step \in Claimed /\ work[v].delivery[1] = s)
  <2>1. Clear(work[v], q)
    BY DEF InboundConsistent, MailSound, WorkersApart
  <2>2. work[v].step \in Past => work[v].delivery[1] \in claims
    BY DEF InboundConsistent, MailSound, WorkersSound
  <2>3. QED
    BY <1>1, <2>1, <2>2 DEF Clear, Past
<1>5. \A v \in Workers : work'[v] = IF v = w THEN Waiting ELSE work[v]
  BY DEF InboundConsistent, MailSound, QueueSound, Leave
<1>6. ~Underway(s)'
  BY <1>4, <1>5 DEF Underway, Claimed, Waiting
<1>7. ~(s \in claims /\ ~Underway(s))
  BY <1>1 DEF Underway, Claimed
<1>8. ASSUME NEW r \in Incoming \ {s}
      PROVE  (r \in claims' /\ ~Underway(r)') <=> (r \in claims /\ ~Underway(r))
  <2>1. Underway(r)' <=> Underway(r)
    BY <1>1, <1>5 DEF Underway, Waiting
  <2>2. QED
    BY <1>1, <2>1
<1>9. BoxesRight /\ BoxesRight'
  BY BoxesAreRight, BoxesAreRightNext
<1>10. Boxes[s] = MailBox!Waiting
  BY <1>2, <1>3, <1>7, <1>9 DEF BoxesRight, MailBox!Waiting
<1>11. Boxes'[s] = [MailBox!Waiting EXCEPT !.place = "gone"]
  <2>1. Boxes'[s] = [place |-> "gone", homes |-> {}, copies |-> 0]
    BY <1>1, <1>2, <1>3, <1>6, <1>9 DEF BoxesRight
  <2>2. QED
    BY <2>1 DEF MailBox!Waiting
<1>12. ASSUME NEW r \in Incoming \ {s} PROVE Boxes'[r] = Boxes[r]
  <2>1. CASE kept[r] = {}
    BY <1>8, <1>9, <2>1, ZenonT(60) DEF BoxesRight
  <2>2. CASE kept[r] # {}
    BY <1>9, <2>2 DEF BoxesRight
  <2>3. QED
    BY <2>1, <2>2
<1>13. Boxes' = [Boxes EXCEPT ![s] = [MailBox!Waiting EXCEPT !.place = "gone"]]
  BY <1>9, <1>11, <1>12 DEF BoxesRight
<1>14. Boxes' = [Boxes EXCEPT ![s].place = "gone"]
  BY <1>10, <1>13
<1>15. content[s] # None
  BY <1>2, LettersAssumption
<1>16. QED
  BY <1>1, <1>10, <1>14, <1>15 DEF MailBox!GiveUp

\* The mail's row is written.
LEMMA KeptInBox ==
  ASSUME InboundConsistent, NEW w \in Workers, Store(w)
  PROVE  \E s \in Incoming : MailBox!Keep(s)
<1>1. PICK q : q = work[w]
  OBVIOUS
<1>2. PICK s : s = q.delivery[1]
  OBVIOUS
<1>3. q.step = "store" /\ q \in Worker /\ s \in Incoming /\ content[s] \in ReceivedMail
  BY <1>1, <1>2, AtWork DEF Store
<1>4. PICK n : n = Len(messages) + 1
  OBVIOUS
<1>5. InboundConsistent' /\ kept[s] = {} /\ kept'[s] = {n}
  BY <1>1, <1>2, <1>4, StoreConsistent
<1>6. kept' = [kept EXCEPT ![s] = @ \cup {n}] /\ UNCHANGED <<content, claims>>
  BY <1>1, <1>2, <1>4 DEF Store
<1>7. PICK p : p = [q EXCEPT !.step = "stamp", !.message = n]
  OBVIOUS
<1>8. p.step = "stamp"
  BY <1>3, <1>7, Zenon DEF Worker
<1>9. \A v \in Workers : work'[v] = IF v = w THEN p ELSE work[v]
  BY <1>1, <1>4, <1>7 DEF Store, Proceed, InboundConsistent, MailSound, QueueSound
<1>10. \A r \in Incoming \ {s} : kept'[r] = kept[r]
  BY <1>6 DEF InboundConsistent, MailSound, KeptSound
<1>11. ASSUME NEW r \in Incoming \ {s} PROVE Underway(r)' <=> Underway(r)
  BY <1>1, <1>2, <1>8, <1>9 DEF Underway
<1>12. Underway(s)
  BY <1>1, <1>2, <1>3 DEF Underway
<1>13. BoxesRight /\ BoxesRight'
  BY <1>5, BoxesAreRight, BoxesAreRightNext
<1>14. Boxes[s] = MailBox!Waiting
  BY <1>3, <1>5, <1>12, <1>13 DEF BoxesRight, MailBox!Waiting
<1>15. Boxes'[s] = [place |-> "kept", homes |-> {AddressedTo(content[s])}, copies |-> 1]
  BY <1>3, <1>5, <1>6, <1>13 DEF BoxesRight
<1>16. ASSUME NEW r \in Incoming \ {s} PROVE Boxes'[r] = Boxes[r]
  <2>1. CASE kept[r] = {}
    BY <1>6, <1>10, <1>11, <1>13, <2>1 DEF BoxesRight
  <2>2. CASE kept[r] # {}
    BY <1>6, <1>10, <1>13, <2>2 DEF BoxesRight
  <2>3. QED
    BY <2>1, <2>2
<1>17. Boxes' = [Boxes EXCEPT ![s] = [place |-> "kept", homes |-> {AddressedTo(content[s])},
                                      copies |-> 1]]
  BY <1>13, <1>15, <1>16 DEF BoxesRight
<1>18. content[s] # None
  BY <1>3, LettersAssumption
<1>19. MailBox!Keep(s)
  BY <1>6, <1>14, <1>17, <1>18 DEF MailBox!Keep
<1>20. QED
  BY <1>3, <1>19

\* A worker only goes on to another step.
LEMMA StepStutters ==
  ASSUME InboundConsistent, InboundConsistent', NEW w \in Workers, NEW q, q = work[w],
         q.step # "idle", NEW step \in WorkSteps, At(w, step),
         step \in Claimed <=> q.step \in Claimed, UNCHANGED <<content, claims, kept>>
  PROVE  UNCHANGED <<content, Boxes>>
<1>1. PICK p : p = [q EXCEPT !.step = step]
  OBVIOUS
<1>2. p.step = step /\ p.delivery = q.delivery
  BY <1>1, AtWork, StepsOn
<1>3. QED
  BY <1>1, <1>2, WorkerStutters DEF At, Proceed

\* claim_processed_message.
LEMMA ClaimInBox ==
  ASSUME InboundConsistent, InboundConsistent', NEW w \in Workers, Claim(w)
  PROVE  MailBox!Next \/ UNCHANGED <<content, Boxes>>
<1>1. PICK q : q = work[w]
  OBVIOUS
<1>2. PICK s : s = q.delivery[1]
  OBVIOUS
<1>3. q.step = "claim" /\ q \in Worker /\ s \in Incoming
  BY <1>1, <1>2, AtWork DEF Claim
<1>4. claims' = claims \cup {s} /\ UNCHANGED <<content, kept>>
  BY <1>1, <1>2 DEF Claim
<1>5. CASE Finish(w) /\ s \in claims
  <2>1. work' = [work EXCEPT ![w] = Waiting] /\ claims' = claims
    BY <1>4, <1>5 DEF Finish, Leave
  <2>2. q.step \notin Claimed /\ Waiting.step \notin Claimed
    BY <1>3 DEF Claimed, Waiting
  <2>3. QED
    BY <1>1, <1>4, <2>1, <2>2, WorkerStutters
<1>6. CASE Finish(w) /\ s \notin claims
  <2>1. MailBox!GiveUp(s)
    BY <1>1, <1>2, <1>3, <1>4, <1>6, GivenUp DEF Finish
  <2>2. QED
    BY <1>3, <2>1 DEF MailBox!Next
<1>7. CASE s \notin claims /\ At(w, "resolve")
  <2>1. PICK p : p = [q EXCEPT !.step = "resolve"]
    OBVIOUS
  <2>2. p.step = "resolve" /\ p.delivery = q.delivery
    BY <1>3, <2>1, StepsOn DEF WorkSteps
  <2>3. \A v \in Workers : work'[v] = IF v = w THEN p ELSE work[v]
    BY <1>1, <1>7, <2>1 DEF At, Proceed, InboundConsistent, MailSound, QueueSound
  <2>4. Underway(s)'
    BY <1>2, <2>2, <2>3 DEF Underway
  <2>5. ASSUME NEW r \in Incoming \ {s} PROVE Underway(r)' <=> Underway(r)
    BY <1>1, <1>2, <1>3, <2>2, <2>3 DEF Underway
  <2>6. ASSUME NEW r \in Incoming
        PROVE  (r \in claims' /\ ~Underway(r)') <=> (r \in claims /\ ~Underway(r))
    BY <1>4, <1>7, <2>4, <2>5
  <2>7. QED
    BY <1>4, <2>6, BoxesStay
<1>8. QED
  BY <1>1, <1>2, <1>5, <1>6, <1>7 DEF Claim

\* A mail refused after its claim is given up, and so is one whose worker fails
\* before it has written the row.
LEMMA DroppedInBox ==
  ASSUME InboundConsistent, InboundConsistent', NEW w \in Workers, work[w].step \in Claimed,
         NEW place, Leave(w, place), UNCHANGED <<content, claims, kept>>
  PROVE  MailBox!Next
<1>1. PICK q : q = work[w]
  OBVIOUS
<1>2. q.step # "idle" /\ q.step \in Past
  BY <1>1 DEF Past, Claimed
<1>3. q.delivery[1] \in Incoming /\ q.delivery[1] \in claims
  BY <1>1, <1>2, AtWork
<1>4. claims' = claims \cup {q.delivery[1]}
  BY <1>3
<1>5. MailBox!GiveUp(q.delivery[1])
  BY <1>1, <1>2, <1>4, GivenUp
<1>6. QED
  BY <1>3, <1>5 DEF MailBox!Next

\* A worker leaves before its claim, or after its row.
LEMMA LeavesInBox ==
  ASSUME InboundConsistent, InboundConsistent', NEW w \in Workers, work[w].step \notin Claimed,
         NEW place, Leave(w, place), UNCHANGED <<content, claims, kept>>
  PROVE  UNCHANGED <<content, Boxes>>
<1>1. PICK q : q = work[w]
  OBVIOUS
<1>2. work' = [work EXCEPT ![w] = Waiting]
  BY DEF Leave
<1>3. Waiting.step \notin Claimed /\ q.step \notin Claimed
  BY <1>1 DEF Waiting, Claimed
<1>4. QED
  BY <1>1, <1>2, <1>3, WorkerStutters

\* Refused, or resolved.
LEMMA ResolveInBox ==
  ASSUME InboundConsistent, InboundConsistent', NEW w \in Workers, Refuse(w) \/ Resolve(w)
  PROVE  MailBox!Next \/ UNCHANGED <<content, Boxes>>
<1>1. PICK q : q = work[w]
  OBVIOUS
<1>2. q.step = "resolve" /\ UNCHANGED <<content, claims, kept>>
  BY <1>1 DEF Refuse, Resolve
<1>3. q \in Worker /\ q.step \in Claimed
  BY <1>1, <1>2, AtWork DEF Claimed
<1>4. CASE Finish(w)
  BY <1>1, <1>2, <1>3, <1>4, DroppedInBox DEF Finish
<1>5. ASSUME NEW i, Proceed(w, [q EXCEPT !.step = "number", !.instance = i, !.opened = TRUE])
      PROVE  UNCHANGED <<content, Boxes>>
  <2>1. PICK p : p = [q EXCEPT !.step = "number", !.instance = i, !.opened = TRUE]
    OBVIOUS
  <2>2. p.step = "number"
    BY <1>3, <2>1, Zenon DEF Worker
  <2>3. p.delivery = q.delivery
    BY <1>3, <2>1, Zenon DEF Worker
  <2>4. QED
    BY <1>1, <1>2, <1>3, <1>5, <2>1, <2>2, <2>3, WorkerStutters DEF Proceed, Claimed
<1>6. ASSUME NEW i, NEW t, NEW row, NEW step \in {"reopen", "addSender"},
             Proceed(w, [q EXCEPT !.instance = i, !.ticket = t, !.row = row, !.step = step])
      PROVE  UNCHANGED <<content, Boxes>>
  <2>1. PICK p : p = [q EXCEPT !.instance = i, !.ticket = t, !.row = row, !.step = step]
    OBVIOUS
  <2>2. p.step = step
    BY <1>3, <2>1, Zenon DEF Worker
  <2>3. p.delivery = q.delivery
    BY <1>3, <2>1, Zenon DEF Worker
  <2>4. QED
    BY <1>1, <1>2, <1>3, <1>6, <2>1, <2>2, <2>3, WorkerStutters DEF Proceed, Claimed
<1>7. CASE Refuse(w)
  BY <1>4, <1>7 DEF Refuse
<1>8. CASE Resolve(w)
  <2>1. PICK mail : mail = Got(w)
    OBVIOUS
  <2>2. PICK i : i = resolve_instance_id(Routes, mail.to)
    OBVIOUS
  <2>3. PICK t \in resolve_ticket(mail, i) :
          CASE t = None ->
                  Finish(w) /\ refused' = refused \cup {q.delivery[1]}
            [] t = 0 ->
                  Proceed(w, [q EXCEPT !.step = "number", !.instance = i, !.opened = TRUE])
                  /\ UNCHANGED refused
            [] OTHER ->
                  /\ \E row \in ticketSeen[t] :
                       Proceed(w, [q EXCEPT
                          !.instance = i, !.ticket = t, !.row = row,
                          !.step = IF mail.from \in row.requesters \cup row.ccs
                                   THEN "reopen" ELSE "addSender"])
                  /\ UNCHANGED refused
    BY <1>1, <1>8, <2>1, <2>2, ZenonT(60) DEF Resolve
  <2>4. CASE t = None
    <3>1. t # 0
      BY <2>4, IncomingAssumption
    <3>2. Finish(w)
      BY <2>3, <2>4, <3>1, Zenon
    <3>3. QED
      BY <1>4, <3>2
  <2>5. CASE t = 0
    <3>1. t # None
      BY <2>5, IncomingAssumption
    <3>2. Proceed(w, [q EXCEPT !.step = "number", !.instance = i, !.opened = TRUE])
      BY <2>3, <2>5, <3>1, Zenon
    <3>3. QED
      BY <1>5, <3>2
  <2>6. CASE t # None /\ t # 0
    <3>1. PICK row \in ticketSeen[t], step \in {"reopen", "addSender"} :
            Proceed(w, [q EXCEPT !.instance = i, !.ticket = t, !.row = row, !.step = step])
      BY <2>3, <2>6
    <3>2. QED
      BY <1>6, <3>1, ZenonT(60)
  <2>7. QED
    BY <2>4, <2>5, <2>6
<1>9. QED
  BY <1>7, <1>8

\* Onto the ticket, up to the row.
LEMMA ReopenInBox ==
  ASSUME InboundConsistent, InboundConsistent', NEW w \in Workers,
         AddSender(w) \/ Reopen(w) \/ Number(w) \/ Open(w)
  PROVE  UNCHANGED <<content, Boxes>>
<1>1. PICK q : q = work[w]
  OBVIOUS
<1>2. q.step \in {"addSender", "reopen", "number", "open"} /\ UNCHANGED <<content, claims, kept>>
  BY <1>1 DEF AddSender, Reopen, Number, Open
<1>3. q \in Worker /\ q.step \in Claimed /\ q.step # "idle"
  BY <1>1, <1>2, AtWork DEF Claimed
<1>4. CASE AddSender(w)
  BY <1>1, <1>2, <1>3, <1>4, StepStutters DEF AddSender, Claimed, WorkSteps
<1>5. CASE Reopen(w)
  <2>1. PICK row : Proceed(w, [q EXCEPT !.step = "store", !.row = row])
    BY <1>1, <1>5 DEF Reopen
  <2>2. PICK p : p = [q EXCEPT !.step = "store", !.row = row]
    OBVIOUS
  <2>3. p.step = "store"
    BY <1>3, <2>2, Zenon DEF Worker
  <2>4. p.delivery = q.delivery
    BY <1>3, <2>2, Zenon DEF Worker
  <2>5. QED
    BY <1>1, <1>2, <1>3, <2>1, <2>2, <2>3, <2>4, WorkerStutters DEF Proceed, Claimed
<1>6. CASE Number(w)
  <2>1. PICK row : Proceed(w, [q EXCEPT !.step = "open", !.row = row])
    BY <1>1, <1>6 DEF Number
  <2>2. PICK p : p = [q EXCEPT !.step = "open", !.row = row]
    OBVIOUS
  <2>3. p.step = "open"
    BY <1>3, <2>2, Zenon DEF Worker
  <2>4. p.delivery = q.delivery
    BY <1>3, <2>2, Zenon DEF Worker
  <2>5. QED
    BY <1>1, <1>2, <1>3, <2>1, <2>2, <2>3, <2>4, WorkerStutters DEF Proceed, Claimed
<1>7. CASE Open(w)
  <2>1. PICK t, row : Proceed(w, [q EXCEPT !.step = "store", !.ticket = t, !.row = row])
    BY <1>1, <1>7 DEF Open
  <2>2. PICK p : p = [q EXCEPT !.step = "store", !.ticket = t, !.row = row]
    OBVIOUS
  <2>3. p.step = "store"
    BY <1>3, <2>2, Zenon DEF Worker
  <2>4. p.delivery = q.delivery
    BY <1>3, <2>2, Zenon DEF Worker
  <2>5. QED
    BY <1>1, <1>2, <1>3, <2>1, <2>2, <2>3, <2>4, WorkerStutters DEF Proceed, Claimed
<1>8. QED
  BY <1>4, <1>5, <1>6, <1>7

\* After the row.
LEMMA TellInBox ==
  ASSUME InboundConsistent, InboundConsistent', NEW w \in Workers,
         \/ Stamp(w) \/ Files(w) \/ Flag(w)
         \/ Others(w) \/ OthersRow(w) \/ OthersStamp(w) \/ Staff(w)
  PROVE  UNCHANGED <<content, Boxes>>
<1>1. PICK q : q = work[w]
  OBVIOUS
<1>2. q.step \in Stored /\ UNCHANGED <<content, claims, kept>>
  BY <1>1 DEF Stamp, Files, Flag, Others, OthersRow, OthersStamp, Staff, Stored
<1>3. q \in Worker /\ q.step \notin Claimed /\ q.step # "idle"
  BY <1>1, <1>2, AtWork DEF Claimed, Stored
<1>4. ASSUME NEW step \in {"files", "flag", "others", "staff"}, At(w, step)
      PROVE  UNCHANGED <<content, Boxes>>
  BY <1>1, <1>2, <1>3, <1>4, StepStutters DEF Claimed, WorkSteps
<1>5. CASE Staff(w)
  BY <1>1, <1>2, <1>3, <1>5, LeavesInBox DEF Staff, Finish
<1>6. ASSUME NEW n, Proceed(w, [q EXCEPT !.step = "othersRow", !.sent = n])
      PROVE  UNCHANGED <<content, Boxes>>
  <2>1. PICK p : p = [q EXCEPT !.step = "othersRow", !.sent = n]
    OBVIOUS
  <2>2. p.step = "othersRow"
    BY <1>3, <2>1, Zenon DEF Worker
  <2>3. QED
    BY <1>1, <1>2, <1>3, <1>6, <2>1, <2>2, WorkerStutters DEF Proceed, Claimed
<1>7. ASSUME NEW n, Proceed(w, [q EXCEPT !.step = "othersStamp", !.message = n])
      PROVE  UNCHANGED <<content, Boxes>>
  <2>1. PICK p : p = [q EXCEPT !.step = "othersStamp", !.message = n]
    OBVIOUS
  <2>2. p.step = "othersStamp"
    BY <1>3, <2>1, Zenon DEF Worker
  <2>3. QED
    BY <1>1, <1>2, <1>3, <1>7, <2>1, <2>2, WorkerStutters DEF Proceed, Claimed
<1>8. CASE Stamp(w) \/ Files(w) \/ Flag(w) \/ OthersStamp(w)
  BY <1>4, <1>8 DEF Stamp, Files, Flag, OthersStamp
<1>9. CASE Others(w)
  BY <1>1, <1>4, <1>6, <1>9 DEF Others
<1>10. CASE OthersRow(w)
  BY <1>1, <1>4, <1>7, <1>10 DEF OthersRow
<1>11. QED
  BY <1>5, <1>8, <1>9, <1>10

\* A step of anyone is one of Inbox, or none.
LEMMA StepOfInbox ==
  ASSUME InboundConsistent, [InboundNext]_allVars
  PROVE  MailBox!Next \/ UNCHANGED <<content, Boxes>>
<1>1. InboundConsistent'
  BY InboundNextConsistent
<1>2. CASE UNCHANGED <<content, claims, kept, work>>
  BY <1>1, <1>2, QueueStutters
<1>3. CASE (Next \/ UNCHANGED vars) /\ UNCHANGED inbound
  BY <1>2, <1>3 DEF inbound
<1>4. CASE Mailing
  <2>0. PICK s \in Incoming : \E mail : Arrive(s, mail)
    BY <1>4 DEF Mailing, Write, Answer, Copy, Echo
  <2>1. PICK mail : Arrive(s, mail)
    BY <2>0
  <2>2. MailBox!Arrive(s)
    BY <1>1, <2>1, ArriveInBox
  <2>3. QED
    BY <2>2 DEF MailBox!Next
<1>5. CASE \E s \in Incoming, k \in 2..MaxCopies : Republish(s, k)
  BY <1>2, <1>5 DEF Republish
<1>6. CASE \E d \in Delivery : ToDlq(d)
  BY <1>2, <1>6 DEF ToDlq
<1>7. ASSUME NEW d \in Delivery, NEW w \in Workers, Receive(w, d)
      PROVE  UNCHANGED <<content, Boxes>>
  <2>1. PICK p : p = [Waiting EXCEPT !.step = "claim", !.delivery = d]
    OBVIOUS
  <2>2. p.step \notin Claimed
    BY <2>1 DEF Waiting, Claimed
  <2>3. work[w].step \notin Claimed
    BY <1>7 DEF Receive, Claimed
  <2>4. QED
    BY <1>1, <1>7, <2>1, <2>2, <2>3, WorkerStutters DEF Receive
<1>8. ASSUME NEW w \in Workers, Fail(w) PROVE MailBox!Next \/ UNCHANGED <<content, Boxes>>
  BY <1>1, <1>8, DroppedInBox, LeavesInBox DEF Fail
<1>9. ASSUME NEW w \in Workers, Work(w) PROVE MailBox!Next \/ UNCHANGED <<content, Boxes>>
  <2>1. CASE Store(w)
    BY <2>1, KeptInBox DEF MailBox!Next
  <2>2. CASE Claim(w) \/ Refuse(w) \/ Resolve(w)
    BY <1>1, <2>2, ClaimInBox, ResolveInBox
  <2>3. CASE AddSender(w) \/ Reopen(w) \/ Number(w) \/ Open(w)
    BY <1>1, <2>3, ReopenInBox
  <2>4. CASE \/ Stamp(w) \/ Files(w) \/ Flag(w)
             \/ Others(w) \/ OthersRow(w) \/ OthersStamp(w) \/ Staff(w)
    BY <1>1, <2>4, TellInBox
  <2>5. QED
    BY <1>9, <2>1, <2>2, <2>3, <2>4 DEF Work
<1>10. QED
  BY <1>3, <1>4, <1>5, <1>6, <1>7, <1>8, <1>9 DEF InboundNext, Queue, allVars

\* claim_processed_message and the tenant guard of resolve_ticket: however often
\* a mail is delivered, by however many workers at once, and whatever fails at
\* whatever point, it becomes at most one row, on a ticket of the instance it was
\* sent to, and a mail given up is never taken up again.
THEOREM InboxImplemented == InboundSpec => ImplementsInbox
<1>1. InboundInit => MailBox!Init
  <2> SUFFICES ASSUME InboundInit PROVE MailBox!Init
    OBVIOUS
  <2>1. BoxesRight
    BY InboundInitConsistent, BoxesAreRight
  <2>2. content = [s \in Incoming |-> None] /\ kept = [s \in Incoming |-> {}] /\ claims = {}
    BY DEF InboundInit
  <2>3. \A s \in Incoming : Boxes[s] = MailBox!Waiting
    BY <2>1, <2>2 DEF BoxesRight, MailBox!Waiting
  <2>4. Boxes = [s \in Incoming |-> MailBox!Waiting]
    BY <2>1, <2>3 DEF BoxesRight
  <2>5. QED
    BY <2>2, <2>4 DEF MailBox!Init
<1>2. InboundConsistent /\ [InboundNext]_allVars => [MailBox!Next]_(MailBox!vars)
  BY StepOfInbox DEF MailBox!vars
<1>3. QED
  BY <1>1, <1>2, InboundAlwaysConsistent, PTL DEF InboundSpec, ImplementsInbox, MailBox!Spec

-----------------------------------------------------------------------------
(* Nobody is taken off a ticket, while no agent asks for it.               *)

People(row) == row.requesters \cup row.ccs

\* No mutation that takes a requester or a CC off a ticket is called.
NoRemovals == Offered \cap {"removeTicketRequester", "removeTicketCc"} = {}

Removing == {"removeRequester", "removeCc"}

NobodyRemoved == \A r \in Requests : requests[r].step \notin Removing

\* Everyone on a row that a ticket has had is on the row it has now.
Listed == \A t \in 1..Len(tickets) : \A row \in ticketSeen[t] : People(row) \subseteq People(tickets[t])

PeopleStay ==
    /\ Longer(tickets, tickets')
    /\ \A t \in 1..Len(tickets) : People(tickets[t]) \subseteq People(tickets'[t])

\* A resolver that goes on, and not to take someone off a ticket.
LEMMA GoesOnToKeep ==
  ASSUME Consistent, NobodyRemoved, NEW r \in Requests, NEW q, q.step \notin Removing,
         requests' = [requests EXCEPT ![r] = q]
  PROVE  NobodyRemoved'
<1>1. \A p \in Requests : requests'[p] = IF p = r THEN q ELSE requests[p]
  BY DEF Consistent, RequestsReady
<1>2. QED
  BY <1>1 DEF NobodyRemoved

\* A step of its own name.
LEMMA GoesTo ==
  ASSUME Consistent, NobodyRemoved, NEW r \in Requests, NEW s \in Steps \ Removing, Goto(r, s)
  PROVE  NobodyRemoved'
<1>1. PICK p : p = [requests[r] EXCEPT !.step = s]
  OBVIOUS
<1>2. p.step = s
  BY <1>1, InFlight, Stepped
<1>3. requests' = [requests EXCEPT ![r] = p]
  BY <1>1 DEF Goto, Continue
<1>4. QED
  BY <1>2, <1>3, GoesOnToKeep

\* A call that returns takes nobody off a ticket.
LEMMA ReturnsToKeep ==
  ASSUME Consistent, NobodyRemoved, NEW r \in Requests, Return(r)
  PROVE  NobodyRemoved'
<1>1. Idle.step \notin Removing
  BY IdleAgain DEF Idle, Removing
<1>2. QED
  BY <1>1, GoesOnToKeep DEF Return, Continue

\* A record that is changed in other fields has the step it had.
LEMMA SameStep ==
  ASSUME NEW p \in Request
  PROVE  /\ \A x : [p EXCEPT !.status = x].step = p.step
         /\ \A x : [p EXCEPT !.assignee = x].step = p.step
         /\ \A x : [p EXCEPT !.email = x].step = p.step
         /\ \A x : [p EXCEPT !.event = x].step = p.step
         /\ \A x, y, z : [p EXCEPT !.attach = x, !.threading = y, !.event = z].step = p.step
<1>1. DOMAIN p = {"step", "actor", "ticket", "row", "status", "assignee", "email", "attach",
                  "threading", "message", "rfc", "event"}
  BY Zenon DEF Request
<1>2. QED
  BY <1>1

\* No read leads to a removal.
LEMMA ReadsToKeep ==
  ASSUME Consistent, NobodyRemoved, NoRemovals, NEW r \in Requests, Read(r)
  PROVE  NobodyRemoved'
<1>1. PICK u \in Users, t \in DOMAIN tickets :
        \/ \E status \in Statuses : SetTicketStatusRead(r, u, t, status)
        \/ \E assignee \in Users \cup {Nobody} : AssignTicketRead(r, u, t, assignee)
        \/ \E email \in Customers :
            \/ ListEditRead(r, u, t, "addTicketRequester", "addRequester", email)
            \/ RemoveTicketRequesterRead(r, u, t, email)
            \/ ListEditRead(r, u, t, "addTicketCc", "addCc", email)
            \/ ListEditRead(r, u, t, "removeTicketCc", "removeCc", email)
        \/ AddInternalNoteRead(r, u, t)
        \/ \E attach \in {"none", "pending", "foreign"} : ReplyToTicketRead(r, u, t, attach)
  BY DEF Read
<1>2. ASSUME NEW row \in TicketRead(u, t), NEW s \in Steps \ Removing, NEW q,
             q.step = s, requests' = [requests EXCEPT ![r] = q]
      PROVE  NobodyRemoved'
  BY <1>2, GoesOnToKeep
<1>3. {"setStatus", "assign", "addRequester", "addCc", "noteCreate", "replyCreate"}
        \subseteq Steps \ Removing
  BY DEF Steps, Removing
<1>4. ASSUME NEW row \in TicketRead(u, t), NEW s \in Steps \ Removing
      PROVE  About(u, t, row, s) \in Request /\ About(u, t, row, s).step = s
  BY <1>4, MemberRead
<1>5. ASSUME NEW status, SetTicketStatusRead(r, u, t, status) PROVE NobodyRemoved'
  <2>1. PICK row \in TicketRead(u, t) : requests' = [requests EXCEPT ![r] =
               [About(u, t, row, "setStatus") EXCEPT !.status = status]]
    BY <1>5 DEF SetTicketStatusRead, Begin
  <2>2. PICK a : a = About(u, t, row, "setStatus")
    OBVIOUS
  <2>3. a \in Request /\ a.step = "setStatus"
    BY <1>3, <1>4, <2>2
  <2>4. PICK q : q = [a EXCEPT !.status = status]
    OBVIOUS
  <2>5. q.step = "setStatus"
    BY <2>3, <2>4, SameStep
  <2>6. requests' = [requests EXCEPT ![r] = q]
    BY <2>1, <2>2, <2>4, Zenon
  <2>7. QED
    BY <1>2, <1>3, <2>5, <2>6
<1>6. ASSUME NEW assignee, AssignTicketRead(r, u, t, assignee) PROVE NobodyRemoved'
  <2>1. PICK row \in TicketRead(u, t) : requests' = [requests EXCEPT ![r] =
               [About(u, t, row, "assign") EXCEPT !.assignee = assignee]]
    BY <1>6 DEF AssignTicketRead, Begin
  <2>2. PICK a : a = About(u, t, row, "assign")
    OBVIOUS
  <2>3. a \in Request /\ a.step = "assign"
    BY <1>3, <1>4, <2>2
  <2>4. PICK q : q = [a EXCEPT !.assignee = assignee]
    OBVIOUS
  <2>5. q.step = "assign"
    BY <2>3, <2>4, SameStep
  <2>6. requests' = [requests EXCEPT ![r] = q]
    BY <2>1, <2>2, <2>4, Zenon
  <2>7. QED
    BY <1>2, <1>3, <2>5, <2>6
<1>7. ASSUME NEW op, NEW s \in Steps \ Removing, NEW email, ListEditRead(r, u, t, op, s, email)
      PROVE  NobodyRemoved'
  <2>1. PICK row \in TicketRead(u, t) : requests' = [requests EXCEPT ![r] =
               [About(u, t, row, s) EXCEPT !.email = email]]
    BY <1>7 DEF ListEditRead, Begin
  <2>2. PICK a : a = About(u, t, row, s)
    OBVIOUS
  <2>3. a \in Request /\ a.step = s
    BY <1>4, <2>2
  <2>4. PICK q : q = [a EXCEPT !.email = email]
    OBVIOUS
  <2>5. q.step = s
    BY <2>3, <2>4, SameStep
  <2>6. requests' = [requests EXCEPT ![r] = q]
    BY <2>1, <2>2, <2>4, Zenon
  <2>7. QED
    BY <1>2, <2>5, <2>6
<1>8. ASSUME NEW email PROVE /\ ~RemoveTicketRequesterRead(r, u, t, email)
                             /\ ~ListEditRead(r, u, t, "removeTicketCc", "removeCc", email)
  BY DEF RemoveTicketRequesterRead, ListEditRead, Begin, NoRemovals
<1>9. ASSUME AddInternalNoteRead(r, u, t) PROVE NobodyRemoved'
  <2>1. PICK row \in TicketRead(u, t) : requests' = [requests EXCEPT ![r] =
               [About(u, t, row, "noteCreate") EXCEPT !.event = Event("internalNote")]]
    BY <1>9 DEF AddInternalNoteRead, Begin
  <2>2. PICK a : a = About(u, t, row, "noteCreate")
    OBVIOUS
  <2>3. a \in Request /\ a.step = "noteCreate"
    BY <1>3, <1>4, <2>2
  <2>4. PICK q : q = [a EXCEPT !.event = Event("internalNote")]
    OBVIOUS
  <2>5. q.step = "noteCreate"
    BY <2>3, <2>4, SameStep
  <2>6. requests' = [requests EXCEPT ![r] = q]
    BY <2>1, <2>2, <2>4, Zenon
  <2>7. QED
    BY <1>2, <1>3, <2>5, <2>6
<1>10. ASSUME NEW attach, ReplyToTicketRead(r, u, t, attach) PROVE NobodyRemoved'
  <2>0. PICK row \in TicketRead(u, t) : \E threading : requests' = [requests EXCEPT ![r] =
               [About(u, t, row, "replyCreate") EXCEPT !.attach = attach, !.threading = threading, !.event = Event("agentReply")]]
    BY <1>10 DEF ReplyToTicketRead, Begin
  <2>1. PICK threading : requests' = [requests EXCEPT ![r] =
               [About(u, t, row, "replyCreate") EXCEPT !.attach = attach, !.threading = threading, !.event = Event("agentReply")]]
    BY <2>0
  <2>2. PICK a : a = About(u, t, row, "replyCreate")
    OBVIOUS
  <2>3. a \in Request /\ a.step = "replyCreate"
    BY <1>3, <1>4, <2>2
  <2>4. PICK q : q = [a EXCEPT !.attach = attach, !.threading = threading, !.event = Event("agentReply")]
    OBVIOUS
  <2>5. q.step = "replyCreate"
    BY <2>3, <2>4, SameStep
  <2>6. requests' = [requests EXCEPT ![r] = q]
    BY <2>1, <2>2, <2>4, Zenon
  <2>7. QED
    BY <1>2, <1>3, <2>5, <2>6
<1>11. QED
  BY <1>1, <1>3, <1>5, <1>6, <1>7, <1>8, <1>9, <1>10

\* No step of a resolver leads to a removal.
LEMMA StepsToKeep ==
  ASSUME Consistent, NobodyRemoved, NEW r \in Requests, Submit(r) \/ Step(r) \/ Stop(r)
  PROVE  NobodyRemoved'
<1>1. PICK q \in Request : q = requests[r]
  BY InFlight
<1>2. DOMAIN q = {"step", "actor", "ticket", "row", "status", "assignee", "email", "attach",
                  "threading", "message", "rfc", "event"}
  BY Zenon DEF Request
<1>3. DOMAIN Idle = {"step", "actor", "ticket", "row", "status", "assignee", "email", "attach",
                     "threading", "message", "rfc", "event"}
  BY DEF Idle
<1>4. {"notify", "noticeSend", "replyFlag", "replySend"} \subseteq Steps \ Removing
  BY DEF Steps, Removing
<1>5. ASSUME NEW p, p.step \in {"noticeSend", "notify", "noticeRow", "noticeStamp", "replySend",
                                "replyAttach", "replyStamp", "submitCreate", "submitMessage"},
             requests' = [requests EXCEPT ![r] = p]
      PROVE  NobodyRemoved'
  BY <1>5, GoesOnToKeep DEF Removing
<1>6. CASE Submit(r)
  <2>1. PICK op, i, subject, to, cc, from : Numbered(r, op, i, subject, to, cc, from, "submitCreate")
    BY <1>6 DEF Submit, SubmitTicket, SubmitVerifiedTicket
  <2>2. PICK row : requests' = [requests EXCEPT ![r] =
                     [Idle EXCEPT !.step = "submitCreate", !.actor = from, !.row = row]]
    BY <2>1 DEF Numbered, Begin
  <2>3. [Idle EXCEPT !.step = "submitCreate", !.actor = from, !.row = row].step = "submitCreate"
    BY <1>3
  <2>4. PICK p : p = [Idle EXCEPT !.step = "submitCreate", !.actor = from, !.row = row]
    OBVIOUS
  <2>5. p.step = "submitCreate" /\ requests' = [requests EXCEPT ![r] = p]
    BY <2>2, <2>3, <2>4, Zenon
  <2>6. QED
    BY <2>5, GoesOnToKeep DEF Removing
<1>7. CASE Stop(r) \/ Notify(r) \/ ListEditWrite(r)
  BY <1>7, ReturnsToKeep DEF Stop, Notify, ListEditWrite
<1>8. CASE SetTicketStatusWrite(r)
  <2>1. \A x, y, s : [[q EXCEPT !.row.status = x, !.event = y] EXCEPT !.step = s].step = s
    BY <1>2
  <2>2. PICK next : next = [q EXCEPT !.row.status = q.status,
                                     !.event = StatusChanged(q.row.status, q.status)]
    OBVIOUS
  <2>3. \A s : [next EXCEPT !.step = s].step = s
    BY <2>1, <2>2
  <2>4. \/ Continue(r, [next EXCEPT !.step = "noticeSend"])
        \/ Continue(r, [next EXCEPT !.step = "notify"])
        \/ Return(r)
    <3>1. LET old == status_notice_body(q.row.status, q.status) IN
          CASE old -> Continue(r, [next EXCEPT !.step = "noticeSend"])
            [] ~old /\ q.status # "deleted" -> Continue(r, [next EXCEPT !.step = "notify"])
            [] OTHER -> Return(r)
      BY <1>1, <1>8, <2>2, Zenon DEF SetTicketStatusWrite
    <3>2. QED
      BY <3>1
  <2>5. ASSUME NEW s \in {"noticeSend", "notify"}, Continue(r, [next EXCEPT !.step = s])
        PROVE  NobodyRemoved'
    <3>1. PICK p : p = [next EXCEPT !.step = s]
      OBVIOUS
    <3>2. p.step = s /\ requests' = [requests EXCEPT ![r] = p]
      BY <2>3, <2>5, <3>1, Zenon DEF Continue
    <3>3. QED
      BY <3>2, GoesOnToKeep DEF Removing
  <2>6. QED
    BY <2>4, <2>5, ReturnsToKeep
<1>9. CASE AssignTicketWrite(r)
  <2>1. \A x : [q EXCEPT !.step = "notify", !.event = x].step = "notify"
    BY <1>2
  <2>2. \/ Return(r)
        \/ Continue(r, [q EXCEPT !.step = "notify", !.event = Assigned(q.row.assignee, q.assignee)])
    BY <1>1, <1>9 DEF AssignTicketWrite
  <2>3. PICK p : p = [q EXCEPT !.step = "notify", !.event = Assigned(q.row.assignee, q.assignee)]
    OBVIOUS
  <2>4. p.step = "notify" /\ (Return(r) \/ requests' = [requests EXCEPT ![r] = p])
    BY <2>1, <2>2, <2>3, Zenon DEF Continue
  <2>5. QED
    BY <1>5, <2>4, ReturnsToKeep
<1>10. CASE \/ AddInternalNoteCreate(r) \/ ReplyToTicketAttach(r) \/ ReplyToTicketFlag(r)
            \/ ReplyToTicketStamp(r) \/ SubmittedMessage(r) \/ NoticeStamp(r)
  <2>1. \/ Goto(r, "notify") \/ Goto(r, "noticeSend") \/ Goto(r, "replyFlag") \/ Goto(r, "replySend")
    BY <1>10 DEF AddInternalNoteCreate, ReplyToTicketAttach, ReplyToTicketFlag,
                 ReplyToTicketStamp, SubmittedMessage, NoticeStamp
  <2>2. QED
    BY <1>4, <2>1, GoesTo
<1>11. CASE ReplyToTicketCreate(r)
  <2>1. \A x, s : [q EXCEPT !.message = x, !.step = s].step = s
    BY <1>2
  <2>2. PICK s \in {"replySend", "replyAttach"} :
          requests' = [requests EXCEPT ![r] = [q EXCEPT !.message = Len(messages) + 1, !.step = s]]
    BY <1>1, <1>11 DEF ReplyToTicketCreate, Continue
  <2>3. PICK p : p = [q EXCEPT !.message = Len(messages) + 1, !.step = s]
    OBVIOUS
  <2>4. p.step = s /\ requests' = [requests EXCEPT ![r] = p]
    BY <2>1, <2>2, <2>3, Zenon
  <2>5. QED
    BY <2>4, GoesOnToKeep DEF Removing
<1>12. CASE ReplyToTicketSend(r)
  <2>1. \A x : [q EXCEPT !.step = "replyStamp", !.rfc = x].step = "replyStamp"
    BY <1>2
  <2>2. \/ Return(r) \/ Continue(r, [q EXCEPT !.step = "replyStamp", !.rfc = Len(mails')])
    BY <1>1, <1>12 DEF ReplyToTicketSend
  <2>3. PICK p : p = [q EXCEPT !.step = "replyStamp", !.rfc = Len(mails')]
    OBVIOUS
  <2>4. p.step = "replyStamp" /\ (Return(r) \/ requests' = [requests EXCEPT ![r] = p])
    BY <2>1, <2>2, <2>3, Zenon DEF Continue
  <2>5. QED
    BY <1>5, <2>4, ReturnsToKeep
<1>13. CASE SubmittedCreate(r)
  <2>1. \A x, y : [q EXCEPT !.step = "submitMessage", !.ticket = x, !.row = y].step = "submitMessage"
    BY <1>2
  <2>2. PICK x, y : requests' = [requests EXCEPT ![r] =
                      [q EXCEPT !.step = "submitMessage", !.ticket = x, !.row = y]]
    BY <1>1, <1>13 DEF SubmittedCreate, Continue
  <2>3. PICK p : p = [q EXCEPT !.step = "submitMessage", !.ticket = x, !.row = y]
    OBVIOUS
  <2>4. p.step = "submitMessage" /\ requests' = [requests EXCEPT ![r] = p]
    BY <2>1, <2>2, <2>3, Zenon
  <2>5. QED
    BY <2>4, GoesOnToKeep DEF Removing
<1>14. CASE NoticeSend(r)
  <2>1. \A x : [q EXCEPT !.step = "noticeRow", !.rfc = x].step = "noticeRow"
    BY <1>2
  <2>2. \/ Goto(r, "notify") \/ Continue(r, [q EXCEPT !.step = "noticeRow", !.rfc = Len(mails')])
    BY <1>1, <1>14 DEF NoticeSend
  <2>3. PICK p : p = [q EXCEPT !.step = "noticeRow", !.rfc = Len(mails')]
    OBVIOUS
  <2>4. p.step = "noticeRow" /\ (Goto(r, "notify") \/ requests' = [requests EXCEPT ![r] = p])
    BY <2>1, <2>2, <2>3, Zenon DEF Continue
  <2>5. QED
    BY <1>4, <1>5, <2>4, GoesTo
<1>15. CASE NoticeRow(r)
  <2>1. \A x : [q EXCEPT !.step = "noticeStamp", !.message = x].step = "noticeStamp"
    BY <1>2
  <2>2. \/ Goto(r, "notify")
        \/ Continue(r, [q EXCEPT !.step = "noticeStamp", !.message = Len(messages) + 1])
    BY <1>1, <1>15 DEF NoticeRow
  <2>3. PICK p : p = [q EXCEPT !.step = "noticeStamp", !.message = Len(messages) + 1]
    OBVIOUS
  <2>4. p.step = "noticeStamp" /\ (Goto(r, "notify") \/ requests' = [requests EXCEPT ![r] = p])
    BY <2>1, <2>2, <2>3, Zenon DEF Continue
  <2>5. QED
    BY <1>4, <1>5, <2>4, GoesTo
<1>16. QED
  BY <1>6, <1>7, <1>8, <1>9, <1>10, <1>11, <1>12, <1>13, <1>14, <1>15 DEF Step

-----------------------------------------------------------------------------
(* Who is on a ticket stays on it.                                         *)

\* A row written with the people of the row before it, or more.
LEMMA RowKeepsPeople ==
  ASSUME Consistent, Listed, NEW t \in 1..Len(tickets), NEW row \in Ticket, WriteTicket(t, row),
         People(tickets[t]) \subseteq People(row)
  PROVE  Listed' /\ PeopleStay
<1>1. /\ tickets \in Seq(Ticket) /\ ticketSeen \in Seq(SUBSET Ticket)
      /\ Len(ticketSeen) = Len(tickets)
  BY DEF Consistent, TablesSound, TicketsSound
<1>2. /\ Len(tickets') = Len(tickets) /\ Longer(tickets, tickets')
      /\ \A s \in 1..Len(tickets) : tickets'[s] = IF s = t THEN row ELSE tickets[s]
  <2>1. tickets' = [tickets EXCEPT ![t] = row]
    BY DEF WriteTicket
  <2>2. QED
    BY <1>1, <2>1, Replaced DEF Longer
<1>3. \A s \in 1..Len(tickets) :
        ticketSeen'[s] = IF s = t THEN ticketSeen[t] \cup {row} ELSE ticketSeen[s]
  <2>1. PICK seen \in SUBSET Ticket : seen = ticketSeen[t] \cup {row}
    BY RowsTyped DEF Consistent
  <2>2. ticketSeen' = [ticketSeen EXCEPT ![t] = seen]
    BY <2>1 DEF WriteTicket
  <2>3. QED
    BY <1>1, <2>1, <2>2, Replaced
<1>4. PeopleStay
  BY <1>2 DEF PeopleStay
<1>5. ASSUME NEW s \in 1..Len(tickets'), NEW x \in ticketSeen'[s]
      PROVE  People(x) \subseteq People(tickets'[s])
  <2>1. CASE s = t /\ x = row
    BY <1>2, <2>1
  <2>2. CASE ~(s = t /\ x = row)
    <3>1. x \in ticketSeen[s]
      BY <1>2, <1>3, <1>5, <2>2
    <3>2. People(x) \subseteq People(tickets[s])
      BY <1>2, <3>1 DEF Listed
    <3>3. People(tickets[s]) \subseteq People(tickets'[s])
      BY <1>2
    <3>4. QED
      BY <3>2, <3>3
  <2>3. QED
    BY <2>1, <2>2
<1>6. QED
  BY <1>4, <1>5 DEF Listed

\* A row of a new ticket.
LEMMA NewRowKeepsPeople ==
  ASSUME Consistent, Listed, NEW row \in Ticket, CreateTicket(row)
  PROVE  Listed' /\ PeopleStay /\ tickets'[Len(tickets) + 1] = row
<1>1. /\ tickets \in Seq(Ticket) /\ ticketSeen \in Seq(SUBSET Ticket)
      /\ Len(ticketSeen) = Len(tickets)
  BY DEF Consistent, TablesSound, TicketsSound
<1>2. /\ Len(tickets') = Len(tickets) + 1 /\ Len(tickets) \in Nat /\ Longer(tickets, tickets')
      /\ \A s \in 1..Len(tickets) : tickets'[s] = tickets[s]
      /\ tickets'[Len(tickets) + 1] = row
  <2>1. tickets' = Append(tickets, row)
    BY DEF CreateTicket
  <2>2. QED
    BY <1>1, <2>1, Added DEF Longer
<1>3. /\ \A s \in 1..Len(tickets) : ticketSeen'[s] = ticketSeen[s]
      /\ ticketSeen'[Len(tickets) + 1] = {row}
  <2>1. PICK seen \in SUBSET Ticket : seen = {row}
    OBVIOUS
  <2>2. ticketSeen' = Append(ticketSeen, seen)
    BY <2>1 DEF CreateTicket
  <2>3. QED
    BY <1>1, <2>1, <2>2, Added
<1>4. PeopleStay
  BY <1>2 DEF PeopleStay
<1>5. ASSUME NEW s \in 1..Len(tickets'), NEW x \in ticketSeen'[s]
      PROVE  People(x) \subseteq People(tickets'[s])
  <2>1. s \in 1..Len(tickets) \/ s = Len(tickets) + 1
    BY <1>2, SMT
  <2>2. QED
    BY <1>2, <1>3, <1>5, <2>1 DEF Listed
<1>6. QED
  BY <1>2, <1>4, <1>5 DEF Listed

\* No row is written.
LEMMA RowsLeft ==
  ASSUME Consistent, Listed, UNCHANGED <<tickets, ticketSeen>>
  PROVE  Listed' /\ PeopleStay
<1>1. Longer(tickets, tickets')
  BY SameLonger DEF Consistent, TablesSound, TicketsSound
<1>2. QED
  BY <1>1 DEF Listed, PeopleStay

\* SetStatusAndAssignee and MarkHasAttachments leave the lists alone.
LEMMA ListsLeft ==
  ASSUME Consistent, Listed, NEW t \in 1..Len(tickets),
         \/ \E status \in Statuses, assignee \in Users \cup {Nobody} :
                SetStatusAndAssignee(t, status, assignee)
         \/ MarkHasAttachments(t)
  PROVE  Listed' /\ PeopleStay
<1>1. PICK x \in Ticket : x = tickets[t]
  BY RowsTyped DEF Consistent
<1>2. CASE MarkHasAttachments(t)
  <2>1. PICK row : row = [x EXCEPT !.hasAttachments = TRUE]
    OBVIOUS
  <2>2. row \in Ticket /\ row.requesters = x.requesters /\ row.ccs = x.ccs
    BY <2>1, Zenon DEF Ticket
  <2>3. WriteTicket(t, row) /\ People(tickets[t]) \subseteq People(row)
    BY <1>1, <1>2, <2>1, <2>2 DEF MarkHasAttachments, People
  <2>4. QED
    BY <2>2, <2>3, RowKeepsPeople
<1>3. ASSUME NEW status \in Statuses, NEW assignee \in Users \cup {Nobody},
             SetStatusAndAssignee(t, status, assignee)
      PROVE  Listed' /\ PeopleStay
  <2>1. PICK marks \in TicketMarkers : marks = compute_ticket_markers(x.instance, status, assignee)
    <3>1. x.instance \in Instances
      BY SMT DEF Ticket
    <3>2. compute_ticket_markers(x.instance, status, assignee) \in TicketMarkers
      BY <1>3, <3>1, SMT DEF compute_ticket_markers, TicketMarkers
    <3>3. QED
      BY <3>2
  <2>2. PICK row : row = [x EXCEPT !.status = status, !.assignee = assignee, !.markers = marks]
    OBVIOUS
  <2>3. row \in Ticket /\ row.requesters = x.requesters /\ row.ccs = x.ccs
    BY <1>3, <2>1, <2>2, Zenon DEF Ticket
  <2>4. WriteTicket(t, row)
    BY <1>1, <1>3, <2>1, <2>2, Zenon DEF SetStatusAndAssignee
  <2>5. People(tickets[t]) \subseteq People(row)
    BY <1>1, <2>3 DEF People
  <2>6. QED
    BY <2>3, <2>4, <2>5, RowKeepsPeople
<1>4. QED
  BY <1>2, <1>3

\* AddRequester and AddCc add to them.
LEMMA ListsGrow ==
  ASSUME Consistent, Listed, NEW t \in 1..Len(tickets), NEW email \in Address,
         AddRequester(t, email) \/ AddCc(t, email)
  PROVE  Listed' /\ PeopleStay /\ email \in People(tickets'[t])
<1>1. PICK x \in Ticket : x = tickets[t]
  BY RowsTyped DEF Consistent
<1>2. x.requesters \in SUBSET Address /\ x.ccs \in SUBSET Address
  BY Zenon DEF Ticket
<1>3. PICK row \in Ticket : /\ WriteTicket(t, row)
                            /\ People(x) \subseteq People(row) /\ email \in People(row)
  <2>1. CASE AddRequester(t, email)
    <3>1. PICK people \in SUBSET Address : people = x.requesters \cup {email}
      BY <1>2
    <3>2. PICK row : row = [x EXCEPT !.requesters = people]
      OBVIOUS
    <3>3. row \in Ticket /\ row.requesters = people /\ row.ccs = x.ccs
      BY <3>2, Zenon DEF Ticket
    <3>4. WriteTicket(t, row)
      BY <1>1, <2>1, <3>1, <3>2, Zenon DEF AddRequester
    <3>5. QED
      BY <3>1, <3>3, <3>4 DEF People
  <2>2. CASE AddCc(t, email)
    <3>1. PICK people \in SUBSET Address : people = x.ccs \cup {email}
      BY <1>2
    <3>2. PICK row : row = [x EXCEPT !.ccs = people]
      OBVIOUS
    <3>3. row \in Ticket /\ row.requesters = x.requesters /\ row.ccs = people
      BY <3>2, Zenon DEF Ticket
    <3>4. WriteTicket(t, row)
      BY <1>1, <2>2, <3>1, <3>2, Zenon DEF AddCc
    <3>5. QED
      BY <3>1, <3>3, <3>4 DEF People
  <2>3. QED
    BY <2>1, <2>2
<1>4. Listed' /\ PeopleStay
  BY <1>1, <1>3, RowKeepsPeople
<1>5. tickets'[t] = row
  BY <1>3, Replaced DEF WriteTicket, Consistent, TablesSound, TicketsSound
<1>6. QED
  BY <1>3, <1>4, <1>5

\* A resolver that is not to take someone off a ticket takes nobody off one.
LEMMA ResolversKeepPeople ==
  ASSUME Consistent, NobodyRemoved, Listed, [Next]_vars
  PROVE  Listed' /\ PeopleStay
<1>1. ASSUME NEW r \in Requests, NEW q, q = requests[r],
             \/ SetTicketStatusWrite(r) \/ AssignTicketWrite(r) \/ ListEditWrite(r)
             \/ ReplyToTicketFlag(r) \/ SubmittedCreate(r)
      PROVE  Listed' /\ PeopleStay
  <2>1. q \in Request /\ Ready(q, Len(tickets), messages, mails)
    BY <1>1, InFlight
  <2>2. q.step \notin Removing
    BY <1>1 DEF NobodyRemoved
  <2>3. CASE SetTicketStatusWrite(r) \/ AssignTicketWrite(r)
    <3>1. q.step \in {"setStatus", "assign"}
      BY <1>1, <2>3 DEF SetTicketStatusWrite, AssignTicketWrite
    <3>2. q.ticket \in 1..Len(tickets) /\ q.row \in Ticket
      BY <2>1, <3>1 DEF Ready
    <3>3. /\ q.status \in Statuses /\ q.assignee \in Users \cup {Nobody}
          /\ q.row.status \in Statuses /\ q.row.assignee \in Users \cup {Nobody}
      BY <2>1, <3>2, Zenon DEF Request, Ticket
    <3>4. \/ SetStatusAndAssignee(q.ticket, q.status, q.row.assignee)
          \/ SetStatusAndAssignee(q.ticket, q.row.status, q.assignee)
      BY <1>1, <2>3 DEF SetTicketStatusWrite, AssignTicketWrite
    <3>5. QED
      BY <3>2, <3>3, <3>4, ListsLeft
  <2>4. CASE ListEditWrite(r)
    <3>1. \/ q.step = "addRequester" /\ AddRequester(q.ticket, q.email)
          \/ q.step = "addCc" /\ AddCc(q.ticket, q.email)
      BY <1>1, <2>2, <2>4 DEF ListEditWrite, Removing
    <3>2. q.ticket \in 1..Len(tickets) /\ q.email \in Address
      BY <2>1, <3>1 DEF Ready, Listing
    <3>3. QED
      BY <3>1, <3>2, ListsGrow
  <2>5. CASE ReplyToTicketFlag(r)
    <3>1. q.ticket \in 1..Len(tickets) /\ MarkHasAttachments(q.ticket)
      BY <1>1, <2>1, <2>5 DEF ReplyToTicketFlag, Ready
    <3>2. QED
      BY <3>1, ListsLeft
  <2>6. CASE SubmittedCreate(r)
    <3>1. q.row \in Ticket
      BY <1>1, <2>1, <2>6 DEF SubmittedCreate, Ready
    <3>2. PICK n \in Nat : n = Len(tickets) + 1
      BY RowsTyped DEF Consistent
    <3>3. PICK x \in Ticket : x = q.row
      BY <3>1
    <3>4. PICK row : row = [x EXCEPT !.token = n]
      OBVIOUS
    <3>5. row \in Ticket
      BY <3>4, Zenon DEF Ticket
    <3>6. CreateTicket(row)
      BY <1>1, <2>6, <3>2, <3>3, <3>4, Zenon DEF SubmittedCreate
    <3>7. QED
      BY <3>5, <3>6, NewRowKeepsPeople
  <2>7. QED
    BY <1>1, <2>3, <2>4, <2>5, <2>6
<1>2. ASSUME NEW r \in Requests, Read(r) \/ Submit(r) \/ Stop(r) PROVE UNCHANGED <<tickets, ticketSeen>>
  <2>1. ASSUME Read(r) PROVE UNCHANGED rows
    <3>1. ASSUME NEW u, NEW t, NEW x, NEW y, NEW z,
                 \/ SetTicketStatusRead(r, u, t, x) \/ AssignTicketRead(r, u, t, x)
                 \/ ListEditRead(r, u, t, x, y, z) \/ RemoveTicketRequesterRead(r, u, t, x)
                 \/ AddInternalNoteRead(r, u, t) \/ ReplyToTicketRead(r, u, t, x)
          PROVE  UNCHANGED rows
      BY <3>1, Zenon DEF SetTicketStatusRead, AssignTicketRead, ListEditRead,
                         RemoveTicketRequesterRead, AddInternalNoteRead, ReplyToTicketRead
    <3>2. QED
      BY <2>1, <3>1, Zenon DEF Read
  <2>2. ASSUME Submit(r) PROVE UNCHANGED <<tickets, ticketSeen>>
    BY <2>2 DEF Submit, SubmitTicket, SubmitVerifiedTicket, Numbered
  <2>3. QED
    BY <1>2, <2>1, <2>2 DEF Stop, rows
<1>3. ASSUME NEW r \in Requests,
             \/ AddInternalNoteCreate(r)
             \/ ReplyToTicketCreate(r) \/ ReplyToTicketAttach(r)
             \/ ReplyToTicketSend(r) \/ ReplyToTicketStamp(r)
             \/ SubmittedMessage(r)
             \/ NoticeSend(r) \/ NoticeRow(r) \/ NoticeStamp(r) \/ Notify(r)
      PROVE  UNCHANGED <<tickets, ticketSeen>>
  BY <1>3 DEF AddInternalNoteCreate, ReplyToTicketCreate, ReplyToTicketAttach, ReplyToTicketSend,
              ReplyToTicketStamp, SubmittedMessage, NoticeSend, NoticeRow, NoticeStamp, Notify, rows
<1>4. ASSUME NEW i, NEW u, NEW on, NEW off, UpdateNotificationSettings(i, u, on, off)
      PROVE  UNCHANGED <<tickets, ticketSeen>>
  BY <1>4 DEF UpdateNotificationSettings, rows
<1>5. CASE UNCHANGED vars
  BY <1>5, RowsLeft DEF vars
<1>6. QED
  BY <1>1, <1>2, <1>3, <1>4, <1>5, RowsLeft DEF Next, Step

-----------------------------------------------------------------------------
(* Who wrote to a ticket is on it.                                         *)

\* The sender of the mail has been put on the ticket, and no row of it is stored.
Joined == {"reopen", "store"}

SendersSound ==
    /\ \A w \in Workers : work[w].step \in Joined =>
        content[work[w].delivery[1]].from \in People(tickets[work[w].ticket])
    /\ \A s \in Incoming : \A m \in kept[s] :
        content[s].from \in People(tickets[messages[m].ticket])

SendersConsistent == InboundConsistent /\ NobodyRemoved /\ Listed /\ SendersSound

\* Senders stay on their tickets, and those who join are put there.
LEMMA SendersStay ==
  ASSUME InboundConsistent, SendersSound, Grown, PeopleStay,
         \A s \in Incoming : content[s] # None => content'[s] = content[s],
         \A w \in Workers : work'[w].step \in Joined =>
            \/ work'[w] = work[w]
            \/ content'[work'[w].delivery[1]].from \in People(tickets'[work'[w].ticket]),
         \A s \in Incoming : \A m \in kept'[s] :
            m \in kept[s] \/ content'[s].from \in People(tickets'[messages'[m].ticket])
  PROVE  SendersSound'
<1>1. ASSUME NEW w \in Workers, NEW q, q = work[w], q.step \in Joined, work'[w] = q
      PROVE  content'[q.delivery[1]].from \in People(tickets'[q.ticket])
  <2>1. q.step # "idle" /\ q.step \in OnTicket
    BY <1>1 DEF Joined, OnTicket
  <2>2. q.ticket \in 1..Len(tickets)
    BY <1>1, <2>1, HasTicket
  <2>3. content'[q.delivery[1]] = content[q.delivery[1]]
    <3>1. q.delivery \in Delivery /\ content[q.delivery[1]] # None
      BY <1>1, <2>1 DEF InboundConsistent, MailSound, QueueSound
    <3>2. q.delivery[1] \in Incoming
      BY <3>1 DEF Delivery
    <3>3. QED
      BY <3>1, <3>2
  <2>4. QED
    BY <1>1, <2>2, <2>3, ZenonT(60) DEF SendersSound, PeopleStay
<1>2. ASSUME NEW s \in Incoming, NEW m \in kept[s]
      PROVE  content'[s].from \in People(tickets'[messages'[m].ticket])
  <2>1. content[s] # None /\ m \in 1..Len(messages)
    BY DEF InboundConsistent, MailSound, KeptSound
  <2>2. PICK t : t = messages[m].ticket
    OBVIOUS
  <2>3. t \in 1..Len(tickets)
    BY <2>1, <2>2 DEF InboundConsistent, Consistent, TablesSound, MessagesSound
  <2>4. messages'[m].ticket = t /\ content'[s] = content[s]
    BY <2>1, <2>2 DEF Grown, MessagesKept
  <2>5. content[s].from \in People(tickets[t])
    BY <2>2 DEF SendersSound
  <2>6. QED
    BY <2>3, <2>4, <2>5 DEF PeopleStay
<1>3. QED
  BY <1>1, <1>2 DEF SendersSound

\* One worker goes on, or leaves.
LEMMA SenderStays ==
  ASSUME InboundConsistent, SendersSound, Grown, PeopleStay, UNCHANGED <<content, kept>>,
         NEW w \in Workers, NEW p, work' = [work EXCEPT ![w] = p],
         p.step \in Joined => content[p.delivery[1]].from \in People(tickets'[p.ticket])
  PROVE  SendersSound'
<1>1. \A v \in Workers : work'[v] = IF v = w THEN p ELSE work[v]
  BY DEF InboundConsistent, MailSound, QueueSound
<1>2. \A v \in Workers : work'[v].step \in Joined =>
            \/ work'[v] = work[v]
            \/ content'[work'[v].delivery[1]].from \in People(tickets'[work'[v].ticket])
  BY <1>1
<1>3. QED
  BY <1>2, SendersStay

\* One worker goes on to a step of that name, or leaves.
LEMMA StepsOrLeaves ==
  ASSUME InboundConsistent, SendersSound, Grown, PeopleStay, UNCHANGED <<content, kept>>,
         NEW w \in Workers,
         \/ \E step \in WorkSteps \ Joined : At(w, step)
         \/ \E place : Leave(w, place)
  PROVE  SendersSound'
<1>1. CASE \E place : Leave(w, place)
  <2>1. work' = [work EXCEPT ![w] = Waiting] /\ Waiting.step \notin Joined
    BY <1>1 DEF Leave, Waiting, Joined
  <2>2. QED
    BY <2>1, SenderStays
<1>2. ASSUME NEW step \in WorkSteps \ Joined, At(w, step) PROVE SendersSound'
  <2>1. PICK p : p = [work[w] EXCEPT !.step = step]
    OBVIOUS
  <2>2. work[w] \in Worker
    BY DEF InboundConsistent, MailSound, QueueSound
  <2>3. p.step = step /\ work' = [work EXCEPT ![w] = p]
    BY <1>2, <2>1, <2>2, StepsOn DEF At, Proceed
  <2>4. QED
    BY <1>2, <2>3, SenderStays
<1>3. QED
  BY <1>1, <1>2

\* Nothing is written to the tables.
LEMMA NothingWritten ==
  ASSUME InboundConsistent, Listed, UNCHANGED vars
  PROVE  Grown /\ PeopleStay /\ Listed'
<1>1. Grown
  BY TablesUntouched DEF Onward, Kept
<1>2. QED
  BY <1>1, RowsLeft DEF vars, InboundConsistent

\* A sender on a row that was read is still on the ticket.
LEMMA ResolveSenders ==
  ASSUME SendersConsistent, NEW w \in Workers, Claim(w) \/ Refuse(w) \/ Resolve(w) \/ Fail(w)
  PROVE  Listed' /\ SendersSound'
<1>1. UNCHANGED <<content, kept>> /\ UNCHANGED vars
  BY DEF Claim, Refuse, Resolve, Fail
<1>2. /\ Grown /\ PeopleStay /\ Listed' /\ InboundConsistent /\ SendersSound
  BY <1>1, NothingWritten DEF SendersConsistent
<1>3. CASE \E place : Leave(w, place)
  BY <1>1, <1>2, <1>3, StepsOrLeaves
<1>4. CASE Claim(w) \/ Refuse(w) \/ Fail(w)
  <2>1. At(w, "resolve") \/ \E place : Leave(w, place)
    BY <1>4 DEF Claim, Refuse, Fail, Finish
  <2>2. "resolve" \in WorkSteps \ Joined
    BY DEF WorkSteps, Joined
  <2>3. QED
    BY <1>1, <1>2, <2>1, <2>2, StepsOrLeaves
<1>5. CASE Resolve(w)
  <2>1. PICK q : q = work[w]
    OBVIOUS
  <2>2. q.step = "resolve"
    BY <1>5, <2>1 DEF Resolve
  <2>3. PICK mail : mail = content[q.delivery[1]]
    OBVIOUS
  <2>4. q \in Worker /\ Got(w) = mail
    BY <1>2, <2>1, <2>2, <2>3, AtWork
  <2>5. PICK i : i = resolve_instance_id(Routes, mail.to)
    OBVIOUS
  <2>6. PICK t \in resolve_ticket(mail, i) :
          CASE t = None ->
                  Finish(w) /\ refused' = refused \cup {q.delivery[1]}
            [] t = 0 ->
                  Proceed(w, [q EXCEPT !.step = "number", !.instance = i, !.opened = TRUE])
                  /\ UNCHANGED refused
            [] OTHER ->
                  /\ \E row \in ticketSeen[t] :
                       Proceed(w, [q EXCEPT
                          !.instance = i, !.ticket = t, !.row = row,
                          !.step = IF mail.from \in row.requesters \cup row.ccs
                                   THEN "reopen" ELSE "addSender"])
                  /\ UNCHANGED refused
    BY <1>5, <2>1, <2>4, <2>5, ZenonT(60) DEF Resolve
  <2>7. CASE t = None
    <3>1. t # 0
      BY <2>7, IncomingAssumption
    <3>2. Finish(w)
      BY <2>6, <2>7, <3>1, Zenon
    <3>3. QED
      BY <1>3, <3>2 DEF Finish
  <2>8. CASE t = 0
    <3>1. t # None
      BY <2>8, IncomingAssumption
    <3>2. PICK p : p = [q EXCEPT !.step = "number", !.instance = i, !.opened = TRUE]
      OBVIOUS
    <3>3. p.step = "number"
      BY <2>4, <3>2, Zenon DEF Worker
    <3>4. Proceed(w, p)
      BY <2>6, <2>8, <3>1, <3>2, Zenon
    <3>5. p.step \notin Joined
      BY <3>3 DEF Joined
    <3>6. QED
      BY <1>1, <1>2, <3>4, <3>5, SenderStays DEF Proceed
  <2>9. CASE t # None /\ t # 0
    <3>1. PICK row \in ticketSeen[t], step \in {"reopen", "addSender"} :
            /\ Proceed(w, [q EXCEPT !.instance = i, !.ticket = t, !.row = row, !.step = step])
            /\ step = "reopen" => mail.from \in People(row)
      BY <2>6, <2>9 DEF People
    <3>2. PICK p : p = [q EXCEPT !.instance = i, !.ticket = t, !.row = row, !.step = step]
      OBVIOUS
    <3>3. p.step = step /\ p.ticket = t
      BY <2>4, <3>2, Zenon DEF Worker
    <3>4. p.delivery = q.delivery
      BY <2>4, <3>2, Zenon DEF Worker
    <3>5. t \in 1..Len(tickets)
      BY <2>9, FoundExist, TablesHaveRows DEF resolve_ticket, SendersConsistent, InboundConsistent
    <3>6. step = "reopen" => mail.from \in People(tickets[t])
      BY <3>1, <3>5 DEF SendersConsistent, Listed
    <3>7. p.step \in Joined => content[p.delivery[1]].from \in People(tickets'[p.ticket])
      BY <1>1, <2>3, <3>3, <3>4, <3>6 DEF Joined, vars
    <3>8. work' = [work EXCEPT ![w] = p]
      BY <3>1, <3>2 DEF Proceed
    <3>9. QED
      BY <1>1, <1>2, <3>7, <3>8, SenderStays
  <2>10. QED
    BY <2>7, <2>8, <2>9
<1>6. QED
  BY <1>2, <1>4, <1>5

\* A sender who is not is put on it.
LEMMA AddSenderSenders ==
  ASSUME SendersConsistent, NEW w \in Workers, AddSender(w)
  PROVE  Listed' /\ SendersSound'
<1>1. PICK q : q = work[w]
  OBVIOUS
<1>2. q.step = "addSender" /\ q.step \in OnTicket /\ q.step # "idle"
  BY <1>1 DEF AddSender, OnTicket
<1>3. q \in Worker /\ q.ticket \in 1..Len(tickets)
  BY <1>1, <1>2, HasTicket DEF SendersConsistent
<1>4. PICK mail \in ReceivedMail : mail = content[q.delivery[1]] /\ Got(w) = mail
  BY <1>1, <1>2, AtWork DEF SendersConsistent
<1>5. mail.from \in Address /\ AddCc(q.ticket, mail.from)
  BY <1>1, <1>4 DEF AddSender, ReceivedMail
<1>6. Listed' /\ PeopleStay /\ mail.from \in People(tickets'[q.ticket])
  BY <1>3, <1>5, ListsGrow DEF SendersConsistent, InboundConsistent
<1>7. Grown /\ UNCHANGED <<content, kept>>
  BY AddSenderConsistent DEF SendersConsistent, Onward, Kept, AddSender
<1>8. PICK p : p = [q EXCEPT !.step = "reopen"]
  OBVIOUS
<1>9. /\ p.ticket = q.ticket /\ p.delivery = q.delivery
      /\ work' = [work EXCEPT ![w] = p]
  BY <1>1, <1>3, <1>8, StepsOn DEF AddSender, At, Proceed, WorkSteps
<1>10. SendersSound'
  BY <1>4, <1>6, <1>7, <1>9, SenderStays DEF SendersConsistent
<1>11. QED
  BY <1>6, <1>10

\* Opening a ticket again leaves its lists alone.
LEMMA ReopenSenders ==
  ASSUME SendersConsistent, NEW w \in Workers, Reopen(w)
  PROVE  Listed' /\ SendersSound'
<1>1. PICK q : q = work[w]
  OBVIOUS
<1>2. q.step = "reopen" /\ q.step \in OnTicket /\ q.step \in Joined
  BY <1>1 DEF Reopen, OnTicket, Joined
<1>3. q \in Worker /\ q.ticket \in 1..Len(tickets) /\ q.row \in Ticket
  BY <1>1, <1>2, HasTicket DEF SendersConsistent
<1>4. Listed' /\ PeopleStay
  <2>1. CASE UNCHANGED <<tickets, ticketSeen>>
    BY <2>1, RowsLeft DEF SendersConsistent, InboundConsistent
  <2>2. CASE SetStatusAndAssignee(q.ticket, "open", q.row.assignee)
    <3>1. PICK status \in Statuses, assignee \in Users \cup {Nobody} :
            status = "open" /\ assignee = q.row.assignee
      BY <1>3, SMT DEF Statuses, Ticket
    <3>2. SetStatusAndAssignee(q.ticket, status, assignee)
      BY <2>2, <3>1
    <3>3. QED
      BY <1>3, <3>2, ListsLeft DEF SendersConsistent, InboundConsistent
  <2>3. QED
    BY <1>1, <2>1, <2>2 DEF Reopen
<1>5. Grown /\ UNCHANGED <<content, kept>>
  BY ReopenConsistent DEF SendersConsistent, Onward, Kept, Reopen
<1>6. PICK row : Proceed(w, [q EXCEPT !.step = "store", !.row = row])
  BY <1>1 DEF Reopen
<1>7. PICK p : p = [q EXCEPT !.step = "store", !.row = row]
  OBVIOUS
<1>8. p.ticket = q.ticket
  BY <1>3, <1>7, Zenon DEF Worker
<1>9. p.delivery = q.delivery
  BY <1>3, <1>7, Zenon DEF Worker
<1>10. content[q.delivery[1]].from \in People(tickets'[q.ticket])
  BY <1>1, <1>2, <1>3, <1>4 DEF SendersConsistent, SendersSound, PeopleStay
<1>11. work' = [work EXCEPT ![w] = p]
  BY <1>6, <1>7 DEF Proceed
<1>12. SendersSound'
  BY <1>4, <1>5, <1>8, <1>9, <1>10, <1>11, SenderStays DEF SendersConsistent
<1>13. QED
  BY <1>4, <1>12

\* The sender of a mail that opens a ticket is its requester.
LEMMA OpenSenders ==
  ASSUME SendersConsistent, NEW w \in Workers, Open(w)
  PROVE  Listed' /\ SendersSound'
<1>1. PICK q : q = work[w]
  OBVIOUS
<1>2. PICK mail : mail = content[q.delivery[1]]
  OBVIOUS
<1>3. q.step = "open" /\ q \in Worker /\ Holds(q, mail)
  BY <1>1, <1>2, AtWork DEF Open, SendersConsistent
<1>4. PICK x \in Ticket : x = q.row /\ mail.from \in x.requesters
  BY <1>3 DEF Holds
<1>5. PICK t \in Nat : t = Len(tickets) + 1
  BY RowsTyped DEF SendersConsistent, InboundConsistent, Consistent
<1>6. PICK row : row = [x EXCEPT !.token = t]
  OBVIOUS
<1>7. row \in Ticket /\ row.requesters = x.requesters
  BY <1>6, Zenon DEF Ticket
<1>8. PICK p : p = [q EXCEPT !.step = "store", !.ticket = t, !.row = row]
  OBVIOUS
<1>9. p.ticket = t
  BY <1>3, <1>8, Zenon DEF Worker
<1>10. p.delivery = q.delivery
  BY <1>3, <1>8, Zenon DEF Worker
<1>11. CreateTicket(row) /\ work' = [work EXCEPT ![w] = p]
  BY <1>1, <1>4, <1>5, <1>6, <1>8, Zenon DEF Open, Proceed
<1>12. Listed' /\ PeopleStay /\ tickets'[t] = row
  BY <1>5, <1>7, <1>11, NewRowKeepsPeople DEF SendersConsistent, InboundConsistent
<1>13. mail.from \in People(tickets'[t])
  BY <1>4, <1>7, <1>12 DEF People
<1>14. Grown /\ UNCHANGED <<content, kept>>
  BY OpenConsistent DEF SendersConsistent, Kept, Open
<1>15. SendersSound'
  BY <1>2, <1>9, <1>10, <1>11, <1>12, <1>13, <1>14, SenderStays DEF SendersConsistent
<1>16. QED
  BY <1>12, <1>15

\* The row is stored on the ticket its sender is on.
LEMMA StoreSenders ==
  ASSUME SendersConsistent, NEW w \in Workers, Store(w)
  PROVE  Listed' /\ SendersSound'
<1>1. PICK q : q = work[w]
  OBVIOUS
<1>2. q.step = "store" /\ q.step \in OnTicket /\ q.step \in Joined /\ q.step # "idle"
  BY <1>1 DEF Store, OnTicket, Joined
<1>3. q \in Worker /\ q.ticket \in 1..Len(tickets) /\ q.delivery[1] \in Incoming
  BY <1>1, <1>2, HasTicket, AtWork DEF SendersConsistent
<1>4. UNCHANGED <<tickets, ticketSeen, content>>
  BY DEF Store
<1>5. Listed' /\ PeopleStay
  BY <1>4, RowsLeft DEF SendersConsistent, InboundConsistent
<1>6. Grown /\ kept'[q.delivery[1]] = {Len(messages) + 1}
  BY <1>1, StoreConsistent DEF SendersConsistent
<1>7. messages'[Len(messages) + 1].ticket = q.ticket
  <2>1. PICK row : /\ row.ticket = q.ticket /\ messages' = Append(messages, row)
    BY <1>1 DEF Store, CreateTicketMessage, NewMessage
  <2>2. messages \in Seq(TicketMessage)
    BY DEF SendersConsistent, InboundConsistent, Consistent, TablesSound, MessagesSound
  <2>3. messages'[Len(messages) + 1] = row
    BY <2>1, <2>2, SMT
  <2>4. QED
    BY <2>1, <2>3
<1>8. \A s \in Incoming : \A m \in kept'[s] :
        m \in kept[s] \/ content'[s].from \in People(tickets'[messages'[m].ticket])
  <2>1. content[q.delivery[1]].from \in People(tickets[q.ticket])
    BY <1>1, <1>2 DEF SendersConsistent, SendersSound
  <2>2. \A s \in Incoming : s # q.delivery[1] => kept'[s] = kept[s]
    BY <1>1 DEF Store, SendersConsistent, InboundConsistent, MailSound, KeptSound
  <2>3. QED
    BY <1>4, <1>6, <1>7, <2>1, <2>2
<1>9. \A v \in Workers : work'[v].step \in Joined => work'[v] = work[v]
  <2>1. PICK n : n = Len(messages) + 1
    OBVIOUS
  <2>2. PICK p : p = [q EXCEPT !.step = "stamp", !.message = n]
    OBVIOUS
  <2>3. p.step = "stamp"
    BY <1>3, <2>2, Zenon DEF Worker
  <2>4. work' = [work EXCEPT ![w] = p]
    BY <1>1, <2>1, <2>2 DEF Store, Proceed
  <2>5. \A v \in Workers : work'[v] = IF v = w THEN p ELSE work[v]
    BY <2>4 DEF SendersConsistent, InboundConsistent, MailSound, QueueSound
  <2>6. QED
    BY <2>3, <2>5 DEF Joined
<1>10. SendersSound'
  BY <1>4, <1>5, <1>6, <1>8, <1>9, SendersStay DEF SendersConsistent
<1>11. QED
  BY <1>5, <1>10

\* The other steps of a worker write no list, and put nobody on a ticket.
LEMMA OtherSenders ==
  ASSUME SendersConsistent, NEW w \in Workers,
         \/ Number(w) \/ Stamp(w) \/ Files(w) \/ Flag(w)
         \/ Others(w) \/ OthersRow(w) \/ OthersStamp(w) \/ Staff(w)
  PROVE  Listed' /\ SendersSound'
<1>1. PICK q : q = work[w]
  OBVIOUS
<1>2. InboundConsistent /\ SendersSound /\ UNCHANGED <<content, kept>>
  BY DEF SendersConsistent, Number, Stamp, Files, Flag, Others, OthersRow, OthersStamp, Staff
<1>3. q \in Worker
  BY <1>1 DEF SendersConsistent, InboundConsistent, MailSound, QueueSound
<1>4. Grown
  BY <1>2, NumberConsistent, StampConsistent, FilesConsistent, FlagConsistent, OthersConsistent,
     OthersRowConsistent, OthersStampConsistent, StaffConsistent DEF Onward, Kept
<1>5. Listed' /\ PeopleStay
  <2>1. CASE Flag(w)
    <3>1. q.step = "flag" /\ q.step \in OnTicket /\ MarkHasAttachments(q.ticket)
      BY <1>1, <2>1 DEF Flag, OnTicket, Stored
    <3>2. q.ticket \in 1..Len(tickets)
      BY <1>1, <1>2, <3>1, HasTicket
    <3>3. QED
      BY <3>1, <3>2, ListsLeft DEF SendersConsistent, InboundConsistent
  <2>2. CASE ~Flag(w)
    <3>1. UNCHANGED <<tickets, ticketSeen>>
      BY <2>2 DEF Number, Stamp, Files, Others, OthersRow, OthersStamp, Staff, rows
    <3>2. QED
      BY <3>1, RowsLeft DEF SendersConsistent, InboundConsistent
  <2>3. QED
    BY <2>1, <2>2
<1>6. ASSUME NEW p, p.step \notin Joined, work' = [work EXCEPT ![w] = p] PROVE SendersSound'
  BY <1>2, <1>4, <1>5, <1>6, SenderStays
<1>7. ASSUME NEW row, Proceed(w, [q EXCEPT !.step = "open", !.row = row]) PROVE SendersSound'
  <2>1. PICK p : p = [q EXCEPT !.step = "open", !.row = row]
    OBVIOUS
  <2>2. p.step = "open"
    BY <1>3, <2>1, Zenon DEF Worker
  <2>3. p.step \notin Joined /\ work' = [work EXCEPT ![w] = p]
    BY <1>7, <2>1, <2>2 DEF Proceed, Joined
  <2>4. QED
    BY <1>6, <2>3
<1>8. ASSUME NEW n, Proceed(w, [q EXCEPT !.step = "othersRow", !.sent = n]) PROVE SendersSound'
  <2>1. PICK p : p = [q EXCEPT !.step = "othersRow", !.sent = n]
    OBVIOUS
  <2>2. p.step = "othersRow"
    BY <1>3, <2>1, Zenon DEF Worker
  <2>3. p.step \notin Joined /\ work' = [work EXCEPT ![w] = p]
    BY <1>8, <2>1, <2>2 DEF Proceed, Joined
  <2>4. QED
    BY <1>6, <2>3
<1>9. ASSUME NEW n, Proceed(w, [q EXCEPT !.step = "othersStamp", !.message = n]) PROVE SendersSound'
  <2>1. PICK p : p = [q EXCEPT !.step = "othersStamp", !.message = n]
    OBVIOUS
  <2>2. p.step = "othersStamp"
    BY <1>3, <2>1, Zenon DEF Worker
  <2>3. p.step \notin Joined /\ work' = [work EXCEPT ![w] = p]
    BY <1>9, <2>1, <2>2 DEF Proceed, Joined
  <2>4. QED
    BY <1>6, <2>3
<1>10. \/ \E step \in {"files", "others", "flag", "staff"} : At(w, step)
       \/ \E place : Leave(w, place)
       \/ \E row : Proceed(w, [q EXCEPT !.step = "open", !.row = row])
       \/ \E n : Proceed(w, [q EXCEPT !.step = "othersRow", !.sent = n])
       \/ \E n : Proceed(w, [q EXCEPT !.step = "othersStamp", !.message = n])
  BY <1>1 DEF Number, Stamp, Files, Flag, Others, OthersRow, OthersStamp, Staff, Finish
<1>11. {"files", "others", "flag", "staff"} \subseteq WorkSteps \ Joined
  BY DEF WorkSteps, Joined
<1>12. SendersSound'
  BY <1>2, <1>4, <1>5, <1>7, <1>8, <1>9, <1>10, <1>11, StepsOrLeaves
<1>13. QED
  BY <1>5, <1>12

\* Mail comes in, and is handed out or given up.
LEMMA QueueSenders ==
  ASSUME SendersConsistent,
         \/ Mailing \/ Queue
         \/ \E s \in Incoming, k \in 2..MaxCopies : Republish(s, k)
  PROVE  UNCHANGED vars /\ Listed' /\ SendersSound'
<1>1. InboundConsistent /\ SendersSound
  BY DEF SendersConsistent
<1>2. CASE Mailing
  <2>0. PICK s \in Incoming : \E mail : Arrive(s, mail)
    BY <1>2 DEF Mailing, Write, Answer, Copy, Echo
  <2>1. PICK mail : Arrive(s, mail)
    BY <2>0
  <2>2. UNCHANGED vars /\ UNCHANGED <<work, kept>>
        /\ \A r \in Incoming : content[r] # None => content'[r] = content[r]
    BY <1>1, <2>1 DEF Arrive, InboundConsistent, MailSound, ContentSound
  <2>3. Grown /\ PeopleStay /\ Listed'
    BY <1>1, <2>2, NothingWritten DEF SendersConsistent
  <2>4. QED
    BY <1>1, <2>2, <2>3, SendersStay
<1>3. CASE Queue \/ \E s \in Incoming, k \in 2..MaxCopies : Republish(s, k)
  <2>1. UNCHANGED vars /\ UNCHANGED <<content, kept>>
        /\ \/ UNCHANGED work
           \/ \E w \in Workers : \E p : p.step = "claim" /\ work' = [work EXCEPT ![w] = p]
    <3>1. \A d : [Waiting EXCEPT !.step = "claim", !.delivery = d].step = "claim"
      BY DEF Waiting
    <3>2. QED
      BY <1>3, <3>1, ZenonT(60) DEF Queue, Receive, ToDlq, Republish
  <2>2. Grown /\ PeopleStay /\ Listed'
    BY <1>1, <2>1, NothingWritten DEF SendersConsistent
  <2>3. CASE UNCHANGED work
    BY <1>1, <2>1, <2>2, <2>3, SendersStay
  <2>4. ASSUME NEW w \in Workers, NEW p, p.step = "claim", work' = [work EXCEPT ![w] = p]
        PROVE  SendersSound'
    BY <1>1, <2>1, <2>2, <2>4, SenderStays DEF Joined
  <2>5. QED
    BY <2>1, <2>2, <2>3, <2>4
<1>4. QED
  BY <1>2, <1>3

\* At first nobody has written, and each ticket has had one row.
LEMMA SendersInit == InboundInit => NobodyRemoved /\ Listed /\ SendersSound
<1> SUFFICES ASSUME InboundInit PROVE NobodyRemoved /\ Listed /\ SendersSound
  OBVIOUS
<1>1. NobodyRemoved
  BY DEF InboundInit, Init, NobodyRemoved, Idle, Removing
<1>2. Listed
  <2>1. \A t \in DOMAIN Opened : ticketSeen[t] = {tickets[t]}
    BY DEF InboundInit, Init
  <2>2. DOMAIN tickets = DOMAIN Opened
    BY DEF InboundInit, Init
  <2>3. DOMAIN tickets = 1..Len(tickets)
    BY InboundInitConsistent, TablesHaveRows DEF InboundConsistent
  <2>4. QED
    BY <2>1, <2>2, <2>3 DEF Listed
<1>3. SendersSound
  BY DEF InboundInit, SendersSound, Waiting, Joined
<1>4. QED
  BY <1>1, <1>2, <1>3

\* A step of anyone, while no mutation takes people off tickets.
LEMMA SendersNext ==
  ASSUME NoRemovals, SendersConsistent, [InboundNext]_allVars
  PROVE  SendersConsistent'
<1>1. InboundConsistent /\ InboundConsistent'
  BY InboundNextConsistent DEF SendersConsistent
<1>2. CASE (Next \/ UNCHANGED vars) /\ UNCHANGED inbound
  <2>1. Grown
    BY <1>1, <1>2, NextConsistent DEF InboundConsistent, Onward, Kept
  <2>2. Listed' /\ PeopleStay
    BY <1>1, <1>2, ResolversKeepPeople DEF SendersConsistent, InboundConsistent
  <2>3. SendersSound'
    BY <1>2, <2>1, <2>2, SendersStay DEF SendersConsistent, inbound
  <2>4. NobodyRemoved'
    <3>1. ASSUME NEW r \in Requests, Read(r) \/ Submit(r) \/ Step(r) \/ Stop(r) PROVE NobodyRemoved'
      BY <3>1, ReadsToKeep, StepsToKeep DEF SendersConsistent, InboundConsistent
    <3>2. ASSUME NEW i, NEW u, NEW on, NEW off, UpdateNotificationSettings(i, u, on, off)
          PROVE  NobodyRemoved'
      BY <3>2 DEF UpdateNotificationSettings, SendersConsistent, NobodyRemoved
    <3>3. CASE UNCHANGED vars
      BY <3>3 DEF vars, SendersConsistent, NobodyRemoved
    <3>4. QED
      BY <1>2, <3>1, <3>2, <3>3 DEF Next
  <2>5. QED
    BY <1>1, <2>2, <2>3, <2>4 DEF SendersConsistent
<1>3. CASE Mailing \/ Queue \/ \E s \in Incoming, k \in 2..MaxCopies : Republish(s, k)
  <2>1. UNCHANGED vars /\ Listed' /\ SendersSound'
    BY <1>3, QueueSenders
  <2>2. NobodyRemoved'
    BY <2>1 DEF vars, SendersConsistent, NobodyRemoved
  <2>3. QED
    BY <1>1, <2>1, <2>2 DEF SendersConsistent
<1>4. ASSUME NEW w \in Workers, Work(w) \/ Fail(w) PROVE SendersConsistent'
  <2>1. Listed' /\ SendersSound'
    BY <1>4, ResolveSenders, AddSenderSenders, ReopenSenders, OpenSenders, StoreSenders, OtherSenders
    DEF Work
  <2>2. UNCHANGED requests
    BY <1>4 DEF Work, Claim, Refuse, Resolve, AddSender, Reopen, Number, Open, Store, Stamp, Files,
                Flag, Others, OthersRow, OthersStamp, Staff, Fail, vars
  <2>3. NobodyRemoved'
    BY <2>2 DEF SendersConsistent, NobodyRemoved
  <2>4. QED
    BY <1>1, <2>1, <2>3 DEF SendersConsistent
<1>5. QED
  BY <1>2, <1>3, <1>4 DEF InboundNext, allVars

\* "So participants ... still hear about it": however stale the rows the workers
\* read, and however many senders join a ticket at once, who wrote to a ticket
\* is on it for as long as agents do not call for anyone's removal.
THEOREM SendersAlwaysHear ==
  ASSUME NoRemovals
  PROVE  InboundSpec => []SenderHears
<1>1. InboundInit => SendersConsistent
  BY InboundInitConsistent, SendersInit DEF SendersConsistent
<1>2. SendersConsistent /\ [InboundNext]_allVars => SendersConsistent'
  BY SendersNext
<1>3. SendersConsistent => SenderHears
  BY DEF SendersConsistent, SendersSound, SenderHears, People
<1>4. QED
  BY <1>1, <1>2, <1>3, PTL DEF InboundSpec
=============================================================================
