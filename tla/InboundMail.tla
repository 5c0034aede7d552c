---------------------------- MODULE InboundMail ----------------------------
(***************************************************************************)
(* Mail that arrives: the queue that delivers it to the inbound-mail       *)
(* Lambda (infra/sqs.tf, api/src/bin/inbound-mail/main.rs) and the         *)
(* pipeline that puts it on a ticket (api/src/inbound/pipeline.rs), beside *)
(* the agents' mutations of Tickets.                                       *)
(*                                                                         *)
(* A mail is known by its SES id, a member of Incoming, which is also the  *)
(* Message-ID its sender gave it (Copy: the same mail received again under *)
(* another SES id).  A delivery is one message on the queue: it is         *)
(* received at most MaxReceives times, then moved to the dead-letter       *)
(* queue.  Topic and queue may deliver a mail more than once.              *)
(*                                                                         *)
(* An action of a worker is one storage call or send with the checks up to *)
(* the next; Fail covers an error, a crash and a timeout after any of      *)
(* them.  The raw_s3_key of a row, and bodies, are left out.               *)
(***************************************************************************)
EXTENDS Tickets

CONSTANTS
    Workers,      \* Lambda invocations that may be at work at once
    Fresh,        \* the mails people write unprompted
    Keeps,        \* what a mail client may keep when it answers: sets of parts
    Defunct,      \* instances deleted or not for support
    MaxReceives,  \* maxReceiveCount of the queue
    MaxCopies,    \* bound: deliveries of one mail
    Lag           \* may lookups miss what was written before?

ASSUME InboundAssumption ==
    /\ Defunct \subseteq Instances
    /\ Keeps \subseteq SUBSET {"tag", "ids", "subject"}
    /\ MaxReceives \in Nat \ {0}
    /\ MaxCopies \in Nat \ {0}
    /\ Lag \in BOOLEAN

VARIABLES
    content,     \* the mail received under each SES id, or None
    deliveries,  \* where each message of the queue is
    receives,    \* how often each has been received
    claims,      \* the processed_message table
    work,        \* the workers
    kept,        \* the rows each mail was stored in
    refused      \* the mails the pipeline dropped

inbound == <<content, deliveries, receives, claims, work, kept, refused>>
allVars == <<vars, inbound>>

Delivery == Incoming \X (1..MaxCopies)

-----------------------------------------------------------------------------
(* Mails                                                                   *)

Recipient == [local  : Locals \cup {Support}, domain : Domains,
              tag    : [ticket : Nat, token : Nat] \cup {None}]

Headers == [autoSubmitted : BOOLEAN, bulk : BOOLEAN, loop : BOOLEAN]
Plain     == [autoSubmitted |-> FALSE, bulk |-> FALSE, loop |-> FALSE]
Automatic == [Plain EXCEPT !.autoSubmitted = TRUE]
Ours      == [Plain EXCEPT !.loop = TRUE]

\* What the pipeline reads of a mail; to is its To and Cc addresses.
ReceivedMail ==
    [from       : Address,
     to         : Seq(Recipient),
     headers    : Headers,
     id         : MessageId,
     inReplyTo  : MessageId \cup {None},
     references : Seq(MessageId),
     subject    : SubjectTag,
     files      : BOOLEAN]
ASSUME LettersAssumption == Fresh \subseteq ReceivedMail /\ None \notin ReceivedMail

\* What becomes of an address's tag or a subject when an answer does not keep it.
IfKept(keep, part, value, otherwise) == IF part \in keep THEN value ELSE otherwise

\* An answer to mail i, with what the client keeps of it.
AnswerTo(s, i, from, keep, headers) ==
    LET e == mails[i].envelope IN
    [from       |-> from,
     to         |-> << [e.replyTo EXCEPT !.tag = IfKept(keep, "tag", @, None)] >>,
     headers    |-> headers,
     id         |-> s,
     inReplyTo  |-> IfKept(keep, "ids", i, None),
     references |-> IfKept(keep, "ids", Append(e.references, i), <<>>),
     subject    |-> IfKept(keep, "subject", e.subject, None),
     files      |-> FALSE]

\* Mail i itself, sent on by one of its recipients' servers to address, from
\* the address we sent it from; the server may drop headers it does not know.
EchoOf(i, address, headers) ==
    LET e == mails[i].envelope IN
    [from       |-> AddressOf(e.replyTo),
     to         |-> << [local |-> address.local, domain |-> address.domain, tag |-> None] >>,
     headers    |-> headers,
     id         |-> i,
     inReplyTo  |-> e.inReplyTo,
     references |-> e.references,
     subject    |-> e.subject,
     files      |-> FALSE]

-----------------------------------------------------------------------------
(* The queue                                                               *)

\* SES stores the mail and notifies the queue.
Arrive(s, mail) ==
    /\ content[s] = None
    /\ content' = [content EXCEPT ![s] = mail]
    /\ deliveries' = [deliveries EXCEPT ![<<s, 1>>] = "queued"]
    /\ UNCHANGED <<vars, receives, claims, work, kept, refused>>

Write(s) == \E mail \in Fresh : Arrive(s, [mail EXCEPT !.id = s])

Answer(s) ==
    \E i \in DOMAIN mails, from \in Customers, keep \in Keeps, headers \in {Plain, Automatic} :
        Arrive(s, AnswerTo(s, i, from, keep, headers))

\* The same mail, to another instance: it was sent to two of our addresses.
Copy(s) ==
    \E other \in Incoming, i \in Instances :
        /\ content[other] # None
        /\ primary_inbound_address(AddressesOf(Routes, i)) # None
        /\ LET p == primary_inbound_address(AddressesOf(Routes, i)) IN
           Arrive(s, [content[other] EXCEPT
                        !.to = << [local |-> p.local, domain |-> p.domain, tag |-> None] >>])

Echo(s) ==
    \E i \in DOMAIN mails, headers \in {Plain, Ours} :
        Arrive(s, EchoOf(i, mails[i].envelope.replyTo, headers))

\* Topic or queue delivers a mail once more.
Republish(s, k) ==
    /\ content[s] # None
    /\ deliveries[<<s, k>>] = "unsent"
    /\ deliveries' = [deliveries EXCEPT ![<<s, k>>] = "queued"]
    /\ UNCHANGED <<vars, content, receives, claims, work, kept, refused>>

WorkSteps == {"idle", "claim", "resolve", "addSender", "reopen", "number", "open", "store",
           "stamp", "files", "flag", "others", "othersRow", "othersStamp", "staff"}

\* What a worker holds.
Worker == [step     : WorkSteps,
           delivery : Delivery \cup {None},
           instance : Instances \cup {None},
           ticket   : Nat,                 \* the ticket found, or opened
           row      : Ticket \cup {None},  \* as read, or to be created
           opened   : BOOLEAN,             \* did this mail open it?
           message  : Nat,                 \* the row the mail is stored in
           sent     : Nat]                 \* the mail sent to the others

Waiting == [step |-> "idle", delivery |-> None, instance |-> None, ticket |-> 0,
            row |-> None, opened |-> FALSE, message |-> 0, sent |-> 0]

Got(w) == content[work[w].delivery[1]]

\* The queue hands a message to a worker, which fetches the raw mail.
Receive(w, d) ==
    /\ work[w].step = "idle"
    /\ deliveries[d] = "queued"
    /\ receives[d] < MaxReceives
    /\ receives' = [receives EXCEPT ![d] = @ + 1]
    /\ deliveries' = [deliveries EXCEPT ![d] = "held"]
    /\ work' = [work EXCEPT ![w] = [Waiting EXCEPT !.step = "claim", !.delivery = d]]
    /\ UNCHANGED <<vars, content, claims, kept, refused>>

\* Mutated: there is no dead-letter queue, and no end to redelivery.
ToDlq_Forever(d) ==
    /\ deliveries[d] = "queued"
    /\ receives[d] = MaxReceives
    /\ receives' = [receives EXCEPT ![d] = 0]
    /\ UNCHANGED <<vars, content, deliveries, claims, work, kept, refused>>

\* Mutated: a message is moved while a worker still has it.
ToDlq_Early(d) ==
    /\ deliveries[d] = "held"
    /\ receives[d] = MaxReceives
    /\ deliveries' = [deliveries EXCEPT ![d] = "dead"]
    /\ UNCHANGED <<vars, content, receives, claims, work, kept, refused>>

\* The redrive policy.
ToDlq(d) ==
    /\ deliveries[d] = "queued"
    /\ receives[d] = MaxReceives
    /\ deliveries' = [deliveries EXCEPT ![d] = "dead"]
    /\ UNCHANGED <<vars, content, receives, claims, work, kept, refused>>

\* The worker goes on with what it holds now.
Proceed(w, worker) == work' = [work EXCEPT ![w] = worker] /\ UNCHANGED deliveries

At(w, step) == Proceed(w, [work[w] EXCEPT !.step = step])

Leave(w, place) ==
    /\ deliveries' = [deliveries EXCEPT ![work[w].delivery] = place]
    /\ work' = [work EXCEPT ![w] = Waiting]

\* The invocation returns Ok: its message is deleted from the queue.
Finish(w) == Leave(w, "done")

\* The invocation fails, crashes or times out: its message can be received again.
Fail(w) ==
    /\ work[w].step # "idle"
    /\ Leave(w, "queued")
    /\ UNCHANGED <<vars, content, receives, claims, kept, refused>>

-----------------------------------------------------------------------------
(* The pipeline: claim, refuse, resolve                                    *)

\* Mutated: the put has no condition.
Claim_Unconditional(w) ==
    LET s == work[w].delivery[1] IN
    /\ work[w].step = "claim"
    /\ claims' = claims \cup {s}
    /\ At(w, "resolve")
    /\ UNCHANGED <<vars, content, receives, kept, refused>>

\* claim_processed_message: the first to put the row goes on, the others drop
\* the mail as a duplicate.  So does a first one whose response is lost: the
\* SDK sends the put again, and its own row fails the condition.
Claim(w) ==
    LET s == work[w].delivery[1] IN
    /\ work[w].step = "claim"
    /\ \/ s \notin claims /\ At(w, "resolve")
       \/ Finish(w)
    /\ claims' = claims \cup {s}
    /\ UNCHANGED <<vars, content, receives, kept, refused>>

\* Mutated: mail from our own addresses is not dropped.
Refuses_NotOwn(mail) ==
    \/ check_structural(mail.headers)
    \/ resolve_instance_id(Routes, mail.to) \in Defunct \cup {None}

\* Loops, mail for no instance or for one deleted or not for support, and mail
\* from an address of ours.
Refuses(mail) ==
    \/ check_structural(mail.headers)
    \/ resolve_instance_id(Routes, mail.to) \in Defunct \cup {None}
    \/ resolve_instance_id(Routes, <<mail.from>>) # None

Refuse(w) ==
    /\ work[w].step = "resolve"
    /\ Refuses(Got(w))
    /\ refused' = refused \cup {work[w].delivery[1]}
    /\ Finish(w)
    /\ UNCHANGED <<vars, content, receives, claims, kept>>

Candidates(by, keys) == [k \in DOMAIN keys |-> [by |-> by, key |-> keys[k]]]

\* Mutated: the subject is believed before the reply tag.
build_resolution_plan_SubjectFirst(mail) ==
    (IF mail.subject = None THEN <<>> ELSE Candidates("number", <<mail.subject.number>>))
    \o Candidates("tag", extract_reply_tags(mail.to))
    \o Candidates("id", candidate_message_ids(mail.inReplyTo, mail.references))

\* What a mail may answer, most certain first.  The slug of a subject tag is
\* not looked at.
build_resolution_plan(mail) ==
    Candidates("tag", extract_reply_tags(mail.to))
    \o Candidates("id", candidate_message_ids(mail.inReplyTo, mail.references))
    \o (IF mail.subject = None THEN <<>> ELSE Candidates("number", <<mail.subject.number>>))

\* get_ticket_id_by_rfc_message_id
RowsWithId(id) == {m \in DOMAIN messages : messages[m].rfc = id}

\* The tickets a candidate names.  A tag must hold the ticket's token; a
\* number is one of the instance the mail came to.
TicketsNamed(candidate, instance) ==
    {t \in DOMAIN tickets :
        \/ /\ candidate.by = "tag"
           /\ candidate.key = [ticket |-> t, token |-> tickets[t].token]
        \/ /\ candidate.by = "id"
           /\ \E m \in RowsWithId(candidate.key) : messages[m].ticket = t
        \/ /\ candidate.by = "number"
           /\ tickets[t].instance = instance /\ tickets[t].number = candidate.key}

\* Two rows with one Message-ID make the lookup fail.
Ambiguous(candidate) == candidate.by = "id" /\ Cardinality(RowsWithId(candidate.key)) > 1

\* May the lookup of a candidate find nothing?
MayMiss(candidate, instance) ==
    (Lag \/ TicketsNamed(candidate, instance) = {}) /\ ~(Ambiguous(candidate) /\ ~Lag)

\* The tickets the lookups may come to: the first candidate that finds one decides.
Found(plan, instance) ==
    UNION {TicketsNamed(plan[k], instance) :
             k \in {n \in DOMAIN plan : /\ ~(Ambiguous(plan[n]) /\ ~Lag)
                                        /\ \A j \in 1..(n - 1) : MayMiss(plan[j], instance)}}

\* Mutated: a ticket is taken whatever its instance.
resolve_ticket_AnyInstance(mail, instance) ==
    LET plan == build_resolution_plan(mail) IN
    Found(plan, instance)
    \cup (IF \A k \in DOMAIN plan : MayMiss(plan[k], instance) THEN {0} ELSE {})

\* resolve_ticket: the ticket, None for one of another instance (cross-tenant),
\* or 0 if none was found.
resolve_ticket(mail, instance) ==
    LET plan == build_resolution_plan(mail) IN
    {IF tickets[t].instance = instance THEN t ELSE None : t \in Found(plan, instance)}
    \cup (IF \A k \in DOMAIN plan : MayMiss(plan[k], instance) THEN {0} ELSE {})

\* The ticket found is read, stale or not; a cross-tenant mail is dropped.
Resolve(w) ==
    LET mail == Got(w)
        i    == resolve_instance_id(Routes, mail.to) IN
    /\ work[w].step = "resolve"
    /\ ~Refuses(mail)
    /\ \E t \in resolve_ticket(mail, i) :
        CASE t = None ->
                Finish(w) /\ refused' = refused \cup {work[w].delivery[1]}
          [] t = 0 ->
                Proceed(w, [work[w] EXCEPT !.step = "number", !.instance = i, !.opened = TRUE])
                /\ UNCHANGED refused
          [] OTHER ->
                /\ \E row \in ticketSeen[t] :
                     Proceed(w, [work[w] EXCEPT
                        !.instance = i, !.ticket = t, !.row = row,
                        !.step = IF mail.from \in row.requesters \cup row.ccs
                                 THEN "reopen" ELSE "addSender"])
                /\ UNCHANGED refused
    /\ UNCHANGED <<vars, content, receives, claims, kept>>

-----------------------------------------------------------------------------
(* The pipeline: onto the ticket                                           *)

\* Mutated: the CCs are written back as they were read, with the sender.
AddSender_WholeSet(w) ==
    LET t == work[w].ticket IN
    /\ work[w].step = "addSender"
    /\ WriteTicket(t, [tickets[t] EXCEPT !.ccs = work[w].row.ccs \cup {Got(w).from}])
    /\ At(w, "reopen")
    /\ UNCHANGED <<lastNumber, messages, sent, settings, reported, requests, calls,
                   content, receives, claims, kept, refused>>

\* A sender who is neither a requester nor a CC of the row read becomes a CC.
AddSender(w) ==
    /\ work[w].step = "addSender"
    /\ AddCc(work[w].ticket, Got(w).from)
    /\ At(w, "reopen")
    /\ UNCHANGED <<lastNumber, messages, sent, settings, reported, requests, calls,
                   content, receives, claims, kept, refused>>

\* A ticket read as closed is opened again, with the assignee read; any other is
\* touched.  Then the ticket is read again, stale or not.
Reopen(w) ==
    LET q == work[w] IN
    /\ q.step = "reopen"
    /\ IF q.row.status = "closed"
       THEN SetStatusAndAssignee(q.ticket, "open", q.row.assignee)
       ELSE UNCHANGED <<tickets, ticketSeen>>
    /\ \E row \in ticketSeen'[q.ticket] : Proceed(w, [q EXCEPT !.step = "store", !.row = row])
    /\ UNCHANGED <<lastNumber, messages, sent, settings, reported, requests, calls,
                   content, receives, claims, kept, refused>>

\* Mutated: the number is one more than the tickets there are.
Number_Counted(w) ==
    LET i == work[w].instance
        n == Cardinality({t \in DOMAIN tickets : tickets[t].instance = i}) + 1 IN
    /\ work[w].step = "number"
    /\ lastNumber' = [lastNumber EXCEPT ![i] = n]
    /\ Proceed(w, [work[w] EXCEPT !.step = "open",
                     !.row = NewTicket(0, i, n, Got(w).subject, {Got(w).from}, {})])
    /\ UNCHANGED <<tickets, ticketSeen, messages, sent, settings, reported, requests, calls,
                   content, receives, claims, kept, refused>>

\* A new ticket takes its number; its CCs are the other people the mail went to.
Number(w) ==
    LET i    == work[w].instance
        mail == Got(w)
        ccs  == strip_own_addresses(AddressesOf(Routes, i), mail.to, mail.from) IN
    /\ work[w].step = "number"
    /\ TakeNumber(i)
    /\ Proceed(w, [work[w] EXCEPT !.step = "open",
                     !.row = NewTicket(0, i, lastNumber'[i], mail.subject, {mail.from}, ccs)])
    /\ UNCHANGED <<tickets, ticketSeen, messages, sent, settings, reported, requests, calls,
                   content, receives, claims, kept, refused>>

Open(w) ==
    LET t   == Len(tickets) + 1
        row == [work[w].row EXCEPT !.token = t] IN
    /\ work[w].step = "open"
    /\ CreateTicket(row)
    /\ Proceed(w, [work[w] EXCEPT !.step = "store", !.ticket = t, !.row = row])
    /\ UNCHANGED <<lastNumber, messages, sent, settings, reported, requests, calls,
                   content, receives, claims, kept, refused>>

\* The mail becomes a row of its ticket.
Store(w) ==
    LET mail == Got(w) IN
    /\ work[w].step = "store"
    /\ CreateTicketMessage(NewMessage(work[w].ticket, "inbound", mail.from,
                                      {AddressOf(r) : r \in Range(mail.to)}, {}, mail.references))
    /\ kept' = [kept EXCEPT ![work[w].delivery[1]] = @ \cup {Len(messages) + 1}]
    /\ Proceed(w, [work[w] EXCEPT !.step = "stamp", !.message = Len(messages) + 1])
    /\ UNCHANGED <<tickets, ticketSeen, lastNumber, sent, settings, reported, requests, calls,
                   content, receives, claims, refused>>

Stamp(w) ==
    /\ work[w].step = "stamp"
    /\ SetRfcMessageId(work[w].message, Got(w).id)
    /\ At(w, IF Got(w).files THEN "files" ELSE "others")
    /\ UNCHANGED <<tickets, ticketSeen, lastNumber, sent, settings, reported, requests, calls,
                   content, receives, claims, kept, refused>>

\* Mutated: the ticket is flagged before the row has its files.
Files_FlagFirst(w) ==
    /\ work[w].step = "files"
    /\ MarkHasAttachments(work[w].ticket)
    /\ At(w, "flag")
    /\ UNCHANGED <<lastNumber, messages, sent, settings, reported, requests, calls,
                   content, receives, claims, kept, refused>>

\* store_attachments, and the files' record on the row; files that are all too
\* large leave none.
Files(w) ==
    /\ work[w].step = "files"
    /\ \/ SetAttachments(work[w].message) /\ At(w, "flag")
       \/ At(w, "others") /\ UNCHANGED messages
    /\ UNCHANGED <<tickets, ticketSeen, lastNumber, sent, settings, reported, requests, calls,
                   content, receives, claims, kept, refused>>

Flag(w) ==
    /\ work[w].step = "flag"
    /\ MarkHasAttachments(work[w].ticket)
    /\ At(w, "others")
    /\ UNCHANGED <<lastNumber, messages, sent, settings, reported, requests, calls,
                   content, receives, claims, kept, refused>>

-----------------------------------------------------------------------------
(* The pipeline: who is told                                               *)

\* Everyone else on the ticket as read, as recipients of one mail.
Relay(w, threading) ==
    [Idle EXCEPT
        !.ticket    = work[w].ticket,
        !.row       = [work[w].row EXCEPT !.requesters = (@ \cup work[w].row.ccs) \ {Got(w).from},
                                          !.ccs = {}],
        !.threading = threading,
        !.event     = Event("customerMessage")]

\* Mutated: the prior messages of every ticket are read.
Others_AnyTicket(w) ==
    LET rowSet == {messages[m] : m \in DOMAIN messages} IN
    /\ work[w].step = "others"
    /\ \E threading \in threading_for_AnyTicket(rowSet, work[w].ticket) :
        /\ Built(Relay(w, threading)) # None
        /\ \E n \in 1..Attempts : Accept(Relay(w, threading), n)
        /\ Proceed(w, [work[w] EXCEPT !.step = "othersRow", !.sent = Len(mails')])
    /\ UNCHANGED <<rows, notices, settings, reported, requests, calls,
                   content, receives, claims, kept, refused>>

\* notify_others: nothing to build, a refused send and a lost response each end
\* it, and are forgotten.
Others(w) ==
    \E threading \in threading_for({messages[m] : m \in DOMAIN messages}, work[w].ticket) :
        /\ work[w].step = "others"
        /\ \/ At(w, "staff") /\ UNCHANGED mails
           \/ /\ Built(Relay(w, threading)) # None
              /\ \E n \in 1..Attempts : Accept(Relay(w, threading), n)
              /\ \/ At(w, "staff")
                 \/ Proceed(w, [work[w] EXCEPT !.step = "othersRow", !.sent = Len(mails')])
        /\ UNCHANGED <<rows, notices, settings, reported, requests, calls,
                       content, receives, claims, kept, refused>>

\* The row of the mail sent, as a system message, or a failure that is logged.
OthersRow(w) ==
    LET e == mails[work[w].sent].envelope IN
    /\ work[w].step = "othersRow"
    /\ \/ /\ CreateTicketMessage(NewMessage(work[w].ticket, "system", None, e.to, {}, e.references))
          /\ Proceed(w, [work[w] EXCEPT !.step = "othersStamp", !.message = Len(messages) + 1])
       \/ At(w, "staff") /\ UNCHANGED messages
    /\ UNCHANGED <<tickets, ticketSeen, lastNumber, sent, settings, reported, requests, calls,
                   content, receives, claims, kept, refused>>

OthersStamp(w) ==
    /\ work[w].step = "othersStamp"
    /\ SetRfcMessageId(work[w].message, work[w].sent) \/ UNCHANGED messages
    /\ At(w, "staff")
    /\ UNCHANGED <<tickets, ticketSeen, lastNumber, sent, settings, reported, requests, calls,
                   content, receives, claims, kept, refused>>

\* Staff hear of a new ticket, or of a customer's message; that ends the work.
Staff(w) ==
    LET q == work[w] IN
    /\ q.step = "staff"
    /\ notify_staff(q.ticket, q.row, q.row.assignee,
                    Event(IF q.opened THEN "newTicket" ELSE "customerMessage"), Got(w).from)
    /\ Finish(w)
    /\ UNCHANGED <<rows, mails, settings, reported, requests, calls,
                   content, receives, claims, kept, refused>>

-----------------------------------------------------------------------------
(* The specification                                                       *)

InboundInit ==
    /\ Init
    /\ content = [s \in Incoming |-> None]
    /\ deliveries = [d \in Delivery |-> "unsent"]
    /\ receives = [d \in Delivery |-> 0]
    /\ claims = {}
    /\ work = [w \in Workers |-> Waiting]
    /\ kept = [s \in Incoming |-> {}]
    /\ refused = {}

Mailing == \E s \in Incoming : Write(s) \/ Answer(s) \/ Copy(s) \/ Echo(s)

\* What a worker does with the delivery it holds.
Work(w) ==
    \/ Claim(w) \/ Refuse(w) \/ Resolve(w)
    \/ AddSender(w) \/ Reopen(w) \/ Number(w) \/ Open(w)
    \/ Store(w) \/ Stamp(w) \/ Files(w) \/ Flag(w)
    \/ Others(w) \/ OthersRow(w) \/ OthersStamp(w) \/ Staff(w)

Queue ==
    \E d \in Delivery :
        \/ \E w \in Workers : Receive(w, d)
        \/ ToDlq(d)

InboundNext ==
    \/ Next /\ UNCHANGED inbound
    \/ Mailing
    \/ \E s \in Incoming, k \in 2..MaxCopies : Republish(s, k)
    \/ Queue
    \/ \E w \in Workers : Work(w) \/ Fail(w)

InboundSpec == InboundInit /\ [][InboundNext]_allVars

\* The Lambda service ends every invocation, at the latest by its timeout, and
\* keeps polling the queue; nothing else is sure to happen.
InboundFairness ==
    /\ WF_allVars(Queue)
    /\ \A w \in Workers : WF_allVars(Work(w) \/ Fail(w))

-----------------------------------------------------------------------------
(* Properties                                                              *)

\* Beside what Tickets has: rows and workers are well formed, and what a worker
\* is to write to exists.
InboundTypeOK ==
    /\ TypeOK
    /\ content \in [Incoming -> ReceivedMail \cup {None}]
    /\ deliveries \in [Delivery -> {"unsent", "queued", "held", "done", "dead"}]
    /\ receives \in [Delivery -> 0..MaxReceives]
    /\ claims \subseteq Incoming /\ refused \subseteq claims
    /\ work \in [Workers -> Worker]
    /\ \A w \in Workers : LET q == work[w] IN
        /\ q.step # "idle" => deliveries[q.delivery] = "held"
        /\ q.step \in {"stamp", "files", "flag", "others", "othersRow", "othersStamp", "staff"}
            => q.message \in DOMAIN messages /\ messages[q.message].ticket = q.ticket
        /\ q.step \in {"othersRow", "othersStamp"} => q.sent \in DOMAIN mails
    /\ kept \in [Incoming -> SUBSET DOMAIN messages]

\* Is some worker past its claim of mail s, and before its row?
Underway(s) ==
    \E w \in Workers :
        /\ work[w].step \in {"resolve", "addSender", "reopen", "number", "open", "store"}
        /\ work[w].delivery[1] = s

\* Where mail s is, in the terms of Inbox: once claimed, nobody else takes it up.
PlaceOf(s) ==
    IF kept[s] # {} THEN "kept"
    ELSE IF s \in claims /\ ~Underway(s) THEN "gone" ELSE "waiting"

AddressedTo(mail) == resolve_instance_id(Routes, mail.to)

Boxes ==
    [s \in Incoming |-> [place  |-> PlaceOf(s),
                         homes  |-> {tickets[messages[m].ticket].instance : m \in kept[s]},
                         copies |-> Cardinality(kept[s])]]

MailBox == INSTANCE Inbox WITH DueOf <- AddressedTo, letter <- content, box <- Boxes

\* "Duplicate SES message id; skipping" and the cross-tenant reject: however
\* often a mail is delivered, and whatever fails at whatever point, it becomes
\* at most one row, on a ticket of the instance it was sent to.
ImplementsInbox == MailBox!Spec

\* The reply tag "drives a GetItem on the ticket's hash key": an answer sent to
\* a Reply-To of ours is stored on that ticket and no other, whatever its other
\* headers and its subject say, if lookups are up to date.
AnswersThread ==
    \A s \in Incoming : \A m \in kept[s] : \A k \in DOMAIN content[s].to :
        LET tag == content[s].to[k].tag IN
        tag # None /\ tag.ticket \in DOMAIN tickets /\ tickets[tag.ticket].token = tag.token
            => messages[m].ticket = tag.ticket

\* With mail coming in, what an answer to a mail is found by is still of that
\* mail's ticket: In-Reply-To and References name mail about it, or what its
\* customers' own mail has put in their thread, whatever that names.
ThreadsAsReceived ==
    \A i \in DOMAIN mails :
        LET e == mails[i].envelope IN
        \A id \in Range(e.references) \cup ({e.inReplyTo} \ {None}) :
            \/ id \in 1..(i - 1) /\ mails[id].ticket = mails[i].ticket
            \/ \E m \in DOMAIN messages :
                /\ messages[m].kind = "inbound" /\ messages[m].ticket = mails[i].ticket
                /\ id = messages[m].rfc \/ id \in Range(messages[m].references)

\* Mail loops end: nothing that a machine sent, and nothing we sent, is put on
\* a ticket, where it would be relayed to everyone and come back.
NoLoops ==
    \A s \in Incoming : kept[s] # {} =>
        /\ content[s].headers = Plain
        /\ content[s].id \notin DOMAIN mails

\* "So participants ... still hear about it": who wrote to a ticket is among
\* those a later mail about it goes to, though two senders join it at once and
\* each worker has its own stale read.
SenderHears ==
    \A s \in Incoming : \A m \in kept[s] :
        content[s].from \in tickets[messages[m].ticket].requesters
                            \cup tickets[messages[m].ticket].ccs

\* Every mail comes to an end: whatever fails, it is eventually put on a ticket,
\* dropped, given up after its claim, or in the dead-letter queue.
Answered(s) ==
    /\ kept[s] # {} \/ s \in refused \/ s \in claims
                    \/ \E k \in 1..MaxCopies : deliveries[<<s, k>>] = "dead"
    /\ ~Underway(s)
Drains == \A s \in Incoming : content[s] # None ~> Answered(s)

-----------------------------------------------------------------------------
(* What comments say and the code does not do                              *)

\* db.rs, claim_processed_message: the trade is "a rare dropped message that
\* stays in S3 and the DLQ".
LostIsInDlq ==
    \A s \in Incoming :
        content[s] # None /\ (\A k \in 1..MaxCopies : deliveries[<<s, k>>] \in {"unsent", "done", "dead"})
            => kept[s] # {} \/ s \in refused \/ \E k \in 1..MaxCopies : deliveries[<<s, k>>] = "dead"

\* resolution.rs: the tag is looked up by "a strongly-consistent GetItem on the
\* ticket's hash key (no GSI, no eventual-consistency window)", so that no
\* duplicate ticket is opened: AnswersThread, with Lag.
TaggedOpensNothing == AnswersThread

\* outbound.rs, parse_subject_tag: "A tag naming another tenant's ticket is
\* rejected by the caller".
ForeignTagRejected ==
    \A s \in Incoming : \A m \in kept[s] :
        content[s].subject # None
            => content[s].subject.slug = tickets[messages[m].ticket].instance

\* db.rs, SetStatusAndAssignee: "pass the ticket's current assignee unchanged
\* for a pure status transition", as a reopen by a customer's mail is.
ReopenKeepsAssignee ==
    [][\A w \in Workers : work[w].step = "reopen" /\ work'[w].step = "store"
            => tickets'[work[w].ticket].assignee = tickets[work[w].ticket].assignee]_allVars
=============================================================================
