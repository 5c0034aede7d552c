------------------------------- MODULE Tickets -------------------------------
(***************************************************************************)
(* Support tickets and their conversations: the ticket mutations of        *)
(* api/src/graphql/mutations.rs, the DynamoDB writes they end in           *)
(* (api/src/dynamodb.rs), and the mail they send to customers and staff.   *)
(*                                                                         *)
(* Every resolver runs in its own Lambda invocation.  An action is one     *)
(* storage call or one send, with the checks up to the next; what the      *)
(* resolver holds in between is its record in  requests.  A resolver can   *)
(* stop after any of them.  get_tickets is eventually consistent: it       *)
(* returns some row the ticket has had.  Every update of a ticket row is   *)
(* one UpdateItem on the condition that the row exists, and no row is ever *)
(* removed.                                                                *)
(*                                                                         *)
(* A new row or mail takes the next position as its id.  Message bodies    *)
(* are left out, and so are timestamps (see Listings).                     *)
(***************************************************************************)
EXTENDS MailRouting, StaffNotices

CONSTANTS
    Requests,   \* invocations that may be in flight at once
    Members,    \* each instance's members
    Customers,  \* addresses of people who are not the instance's own
    Routes,     \* the inbound_address table
    Incoming,   \* mails customers send (see InboundMail), named by their Message-IDs
    Subjects,   \* the tags contained in the subjects people type, or None
    Opened,     \* the tickets that exist initially: instance, requesters, ccs
    Offered,    \* the mutations clients call
    Attempts,   \* how often the SDK sends one mail, if no response arrives
    MaxCalls    \* bound: calls in a behaviour

ASSUME PeopleAssumption ==
    /\ Members \in [Instances -> SUBSET Users]
    /\ Customers \subseteq Address
    /\ MailboxOf \in [Users -> Address]
ASSUME RoutesAssumption ==
    /\ DOMAIN Routes \subseteq AddressKeys
    /\ \A k \in DOMAIN Routes : Routes[k] \in AddressRow
ASSUME CallsAssumption == MaxCalls \in Nat
ASSUME AttemptsAssumption == Attempts \in Nat \ {0}
ASSUME IncomingAssumption == Incoming \cap Nat = {} /\ None \notin Nat \cup Incoming
ASSUME OpenedAssumption ==
    Opened \in Seq([instance   : Instances,
                    requesters : (SUBSET Address) \ {{}},
                    ccs        : SUBSET Address])

VARIABLES
    tickets,     \* the ticket table
    ticketSeen,  \* every row each ticket has had: what get_tickets may return
    lastNumber,  \* next_ticket_number of each instance's counter row
    messages,    \* the ticket_message table
    mails,       \* what the mail service accepted for customers; a Message-ID is a position
    notices,     \* what it accepted for members
    settings,    \* each member's notification settings
    reported,    \* the replies an agent was told had been sent
    requests,    \* the resolvers in flight
    calls        \* how many calls have been made

rows == <<tickets, ticketSeen, lastNumber, messages>>
sent == <<mails, notices>>
vars == <<tickets, ticketSeen, lastNumber, messages, mails, notices,
          settings, reported, requests, calls>>

-----------------------------------------------------------------------------
(* Rows                                                                    *)

Statuses == {"open", "closed", "deleted"}

\* The sparse index attributes of a ticket row: the instance#status pair, the
\* instance (absent: None), and the instance#assignee pair (absent: Nobody).
TicketMarkers == [status : Statuses, visible : Instances \cup {None}, assignee : Users \cup {Nobody}]

compute_ticket_markers(instance, status, assignee) ==
    IF status = "deleted"
    THEN [status |-> status, visible |-> None, assignee |-> Nobody]
    ELSE [status |-> status, visible |-> instance, assignee |-> assignee]

SubjectTag == [slug : Instances, number : Nat] \cup {None}
ASSUME SubjectsAssumption == Subjects \subseteq SubjectTag

Ticket == [instance       : Instances,
           number         : Nat,
           subject        : SubjectTag,
           status         : Statuses,
           assignee       : Users \cup {Nobody},
           requesters     : SUBSET Address,
           ccs            : SUBSET Address,
           token          : Nat,
           markers        : TicketMarkers,
           hasAttachments : BOOLEAN]

\* The row create_ticket puts.  The reply token is a nonce: it stands for the
\* one minted for ticket t.
NewTicket(t, instance, number, subject, requesters, ccs) ==
    [instance |-> instance, number |-> number, subject |-> subject,
     status |-> "open", assignee |-> Nobody, requesters |-> requesters, ccs |-> ccs,
     token |-> t, markers |-> compute_ticket_markers(instance, "open", Nobody),
     hasAttachments |-> FALSE]

\* A Message-ID: the position of a mail sent, or the name of one received.
MessageId == Nat \cup Incoming

Kinds == {"inbound", "reply", "note", "system"}

TicketMessage == [ticket      : Nat,
                  kind        : Kinds,
                  author      : Users \cup Address \cup {None},
                  to          : SUBSET Address,
                  cc          : SUBSET Address,
                  rfc         : MessageId \cup {None},
                  references  : Seq(MessageId),
                  attachments : BOOLEAN]

\* A row of create_ticket_message: neither sent nor with attachments yet.
NewMessage(t, kind, author, to, cc, references) ==
    [ticket |-> t, kind |-> kind, author |-> author, to |-> to, cc |-> cc,
     rfc |-> None, references |-> references, attachments |-> FALSE]

-----------------------------------------------------------------------------
(* Requests                                                                *)

Steps == {"idle", "setStatus", "assign", "addRequester", "removeRequester",
          "addCc", "removeCc", "noteCreate", "replyCreate", "replyAttach",
          "replyFlag", "replySend", "replyStamp", "submitCreate",
          "submitMessage", "noticeSend", "noticeRow", "noticeStamp", "notify"}

\* What a resolver holds: its arguments and what its reads returned.
Request == [step      : Steps,
            actor     : Users \cup Address \cup {Nobody},
            ticket    : Nat,                  \* the ticket it is about
            row       : Ticket \cup {None},   \* the row it read, or is to create
            status    : Statuses,             \* the status it is given
            assignee  : Users \cup {Nobody},  \* the assignee it is given
            email     : Address \cup {None},  \* the address it is given
            attach    : {"none", "pending", "foreign"},
            threading : [inReplyTo : MessageId \cup {None}, references : Seq(MessageId)],
            message   : Nat,                  \* the row it created
            rfc       : Nat,                  \* the Message-ID it was given
            event     : [kind : Updates \cup {"newTicket", "assigned"},
                         old  : Users \cup {Nobody} \cup Statuses,
                         new  : Users \cup {Nobody} \cup Statuses]]

Idle == [step |-> "idle", actor |-> Nobody, ticket |-> 0, row |-> None,
         status |-> "open", assignee |-> Nobody, email |-> None, attach |-> "none",
         threading |-> NoThreading, message |-> 0, rfc |-> 0,
         event |-> Event("newTicket")]

\* A client calls the mutation op; its resolver goes on to a further step.
Begin(r, op, request) ==
    /\ op \in Offered
    /\ calls < MaxCalls
    /\ requests[r] = Idle
    /\ calls' = calls + 1
    /\ requests' = [requests EXCEPT ![r] = request]

Continue(r, request) == requests' = [requests EXCEPT ![r] = request] /\ UNCHANGED calls

Goto(r, step) == Continue(r, [requests[r] EXCEPT !.step = step])

Return(r) == Continue(r, Idle)

\* A resolver stops: it fails at its next step, times out, or is killed.
Stop(r) ==
    /\ requests[r] # Idle
    /\ Return(r)
    /\ UNCHANGED <<rows, sent, settings, reported>>

\* require_ticket_member: a row the ticket has had, if the caller is a member.
TicketRead(u, t) == {row \in ticketSeen[t] : u \in Members[row.instance]}

\* A request about ticket t, as read, by user u.
About(u, t, row, step) ==
    [Idle EXCEPT !.step = step, !.actor = u, !.ticket = t, !.row = row]

-----------------------------------------------------------------------------
(* Storage                                                                 *)

\* One update of a ticket row.
WriteTicket(t, row) ==
    /\ tickets' = [tickets EXCEPT ![t] = row]
    /\ ticketSeen' = [ticketSeen EXCEPT ![t] = @ \cup {row}]

\* Mutated: the assignee marker is not removed from a deleted ticket.
SetStatusAndAssignee_KeepsMarker(t, status, assignee) ==
    WriteTicket(t, [tickets[t] EXCEPT
        !.status = status, !.assignee = assignee,
        !.markers = [compute_ticket_markers(tickets[t].instance, status, assignee)
                        EXCEPT !.assignee = assignee]])

\* TicketUpdateShape::SetStatusAndAssignee
SetStatusAndAssignee(t, status, assignee) ==
    WriteTicket(t, [tickets[t] EXCEPT
        !.status = status, !.assignee = assignee,
        !.markers = compute_ticket_markers(tickets[t].instance, status, assignee)])

\* AddRequester, RemoveRequester, AddCc and RemoveCc add to and delete from a
\* string set.
AddRequester(t, email)    == WriteTicket(t, [tickets[t] EXCEPT !.requesters = @ \cup {email}])
RemoveRequester(t, email) == WriteTicket(t, [tickets[t] EXCEPT !.requesters = @ \ {email}])
AddCc(t, email)           == WriteTicket(t, [tickets[t] EXCEPT !.ccs = @ \cup {email}])
RemoveCc(t, email)        == WriteTicket(t, [tickets[t] EXCEPT !.ccs = @ \ {email}])

MarkHasAttachments(t) == WriteTicket(t, [tickets[t] EXCEPT !.hasAttachments = TRUE])

\* create_ticket
CreateTicket(row) ==
    /\ tickets' = Append(tickets, row)
    /\ ticketSeen' = Append(ticketSeen, {row})

CreateTicketMessage(row) == messages' = Append(messages, row)

\* TicketMessageUpdateShape::SetRfcMessageId and SetAttachments
SetRfcMessageId(m, rfc) == messages' = [messages EXCEPT ![m].rfc = rfc]
SetAttachments(m)       == messages' = [messages EXCEPT ![m].attachments = TRUE]

-----------------------------------------------------------------------------
(* Sending                                                                 *)

\* The mail a resolver builds from the ticket as it read it.
Built(request) ==
    build_outbound(AddressesOf(Routes, request.row.instance), request.ticket,
                   request.row, request.row.requesters, request.row.ccs, request.threading)

\* One send of what a resolver built; a notice has no row yet.  send_email has no
\* token to tell attempts apart, so the mail service accepts n of them, each a
\* mail with a Message-ID of its own.  The response, if any, is the last one's.
Accept(request, n) ==
    mails' = mails \o [k \in 1..n |->
                [ticket   |-> request.ticket, message |-> request.message,
                 envelope |-> Built(request), event   |-> request.event, attempt |-> k]]

\* notify_staff: each recipient's copy may fail on its own.
notify_staff(t, row, assignee, event, actor) ==
    \E got \in SUBSET select_recipients(Members[row.instance], settings[row.instance], row.status,
                                        assignee, actor, event) :
        notices' = notices \cup {[user |-> u, ticket |-> t, event |-> event, actor |-> actor,
                                  subject |-> row.subject] : u \in got}

\* The last step of every resolver that notifies staff.
Notify(r) ==
    LET q == requests[r] IN
    /\ q.step = "notify"
    /\ notify_staff(q.ticket, q.row, q.row.assignee, q.event, q.actor)
    /\ Return(r)
    /\ UNCHANGED <<rows, mails, settings, reported>>

\* send_system_notification, first part: nothing to build or a refused send
\* ends it, and so does a response lost after the mail was accepted.
NoticeSend(r) ==
    LET q == requests[r] IN
    /\ q.step = "noticeSend"
    /\ \/ Built(q) = None /\ Goto(r, "notify") /\ UNCHANGED mails
       \/ Built(q) # None /\ Goto(r, "notify") /\ UNCHANGED mails
       \/ /\ Built(q) # None
          /\ \E n \in 1..Attempts : Accept(q, n)
          /\ \/ Goto(r, "notify")
             \/ Continue(r, [q EXCEPT !.step = "noticeRow", !.rfc = Len(mails')])
    /\ UNCHANGED <<rows, notices, settings, reported>>

\* The mail sent gets its row; a failure is logged and the row is missing.
NoticeRow(r) ==
    LET q == requests[r] IN
    /\ q.step = "noticeRow"
    /\ \/ /\ CreateTicketMessage(NewMessage(q.ticket, "system", None,
                                            Built(q).to, Built(q).cc, <<>>))
          /\ Continue(r, [q EXCEPT !.step = "noticeStamp", !.message = Len(messages) + 1])
       \/ Goto(r, "notify") /\ UNCHANGED messages
    /\ UNCHANGED <<tickets, ticketSeen, lastNumber, sent, settings, reported>>

NoticeStamp(r) ==
    LET q == requests[r] IN
    /\ q.step = "noticeStamp"
    /\ SetRfcMessageId(q.message, q.rfc) \/ UNCHANGED messages
    /\ Goto(r, "notify")
    /\ UNCHANGED <<tickets, ticketSeen, lastNumber, sent, settings, reported>>

-----------------------------------------------------------------------------
(* Status, assignee, requesters and CCs                                    *)

\* setTicketStatus: nothing to do if the row read has the status already.
SetTicketStatusRead(r, u, t, status) ==
    \E row \in TicketRead(u, t) :
        /\ row.status # status
        /\ Begin(r, "setTicketStatus",
                 [About(u, t, row, "setStatus") EXCEPT !.status = status])
        /\ UNCHANGED <<rows, sent, settings, reported>>

\* The status is written with the assignee that was read; then customers may
\* be mailed, and staff, unless the ticket was deleted.
SetTicketStatusWrite(r) ==
    LET q    == requests[r]
        next == [q EXCEPT !.row.status = q.status, !.event = StatusChanged(q.row.status, q.status)] IN
    /\ q.step = "setStatus"
    /\ SetStatusAndAssignee(q.ticket, q.status, q.row.assignee)
    /\ CASE status_notice_body(q.row.status, q.status) ->
                Continue(r, [next EXCEPT !.step = "noticeSend"])
         [] ~status_notice_body(q.row.status, q.status) /\ q.status # "deleted" ->
                Continue(r, [next EXCEPT !.step = "notify"])
         [] OTHER -> Return(r)
    /\ UNCHANGED <<lastNumber, messages, sent, settings, reported>>

\* assignTicket: the assignee, if any, must be a member.
AssignTicketRead(r, u, t, assignee) ==
    \E row \in TicketRead(u, t) :
        /\ assignee \in Members[row.instance] \cup {Nobody}
        /\ Begin(r, "assignTicket", [About(u, t, row, "assign") EXCEPT !.assignee = assignee])
        /\ UNCHANGED <<rows, sent, settings, reported>>

\* The assignee is written with the status that was read; staff hear of it if
\* it differs from the assignee that was read.
AssignTicketWrite(r) ==
    LET q == requests[r] IN
    /\ q.step = "assign"
    /\ SetStatusAndAssignee(q.ticket, q.row.status, q.assignee)
    /\ IF q.assignee = q.row.assignee
       THEN Return(r)
       ELSE Continue(r, [q EXCEPT !.step  = "notify",
                                  !.event = Assigned(q.row.assignee, q.assignee)])
    /\ UNCHANGED <<lastNumber, messages, sent, settings, reported>>

\* The read of addTicketRequester, addTicketCc and removeTicketCc.
ListEditRead(r, u, t, op, step, email) ==
    \E row \in TicketRead(u, t) :
        /\ Begin(r, op, [About(u, t, row, step) EXCEPT !.email = email])
        /\ UNCHANGED <<rows, sent, settings, reported>>

\* removeTicketRequester refuses to remove the only requester of the row read.
RemoveTicketRequesterRead(r, u, t, email) ==
    \E row \in TicketRead(u, t) :
        /\ ~(Cardinality(row.requesters) <= 1 /\ email \in row.requesters)
        /\ Begin(r, "removeTicketRequester",
                 [About(u, t, row, "removeRequester") EXCEPT !.email = email])
        /\ UNCHANGED <<rows, sent, settings, reported>>

\* One list is changed, whatever it was when it was read.
ListEditWrite(r) ==
    LET q == requests[r] IN
    /\ \/ q.step = "addRequester"    /\ AddRequester(q.ticket, q.email)
       \/ q.step = "removeRequester" /\ RemoveRequester(q.ticket, q.email)
       \/ q.step = "addCc"           /\ AddCc(q.ticket, q.email)
       \/ q.step = "removeCc"        /\ RemoveCc(q.ticket, q.email)
    /\ Return(r)
    /\ UNCHANGED <<lastNumber, messages, sent, settings, reported>>

\* updateNotificationSettings: a patch of the caller's own membership row.
UpdateNotificationSettings(i, u, on, off) ==
    /\ "updateNotificationSettings" \in Offered
    /\ calls < MaxCalls /\ calls' = calls + 1
    /\ u \in Members[i]
    /\ settings' = [settings EXCEPT ![i][u] = merged_onto(on, off, @)]
    /\ UNCHANGED <<rows, sent, reported, requests>>

-----------------------------------------------------------------------------
(* Notes and replies                                                       *)

AddInternalNoteRead(r, u, t) ==
    \E row \in TicketRead(u, t) :
        /\ Begin(r, "addInternalNote",
                 [About(u, t, row, "noteCreate") EXCEPT !.event = Event("internalNote")])
        /\ UNCHANGED <<rows, sent, settings, reported>>

\* The note's row; then the ticket is touched and staff are told.
AddInternalNoteCreate(r) ==
    LET q == requests[r] IN
    /\ q.step = "noteCreate"
    /\ CreateTicketMessage(NewMessage(q.ticket, "note", q.actor, {}, {}, <<>>))
    /\ Goto(r, "notify")
    /\ UNCHANGED <<tickets, ticketSeen, lastNumber, sent, settings, reported>>

\* replyToTicket: ticket, messages and addresses are read, and the mail is
\* built, before anything is written.
ReplyToTicketRead(r, u, t, attach) ==
    \E row \in TicketRead(u, t),
       threading \in threading_for({messages[m] : m \in DOMAIN messages}, t) :
        LET q == [About(u, t, row, "replyCreate") EXCEPT
                    !.attach = attach, !.threading = threading,
                    !.event = Event("agentReply")] IN
        /\ Built(q) # None
        /\ Begin(r, "replyToTicket", q)
        /\ UNCHANGED <<rows, sent, settings, reported>>

\* The reply's row; then the ticket is touched.
ReplyToTicketCreate(r) ==
    LET q == requests[r] IN
    /\ q.step = "replyCreate"
    /\ CreateTicketMessage(NewMessage(q.ticket, "reply", q.actor, Built(q).to,
                                      Built(q).cc, q.threading.references))
    /\ Continue(r, [q EXCEPT !.message = Len(messages) + 1,
                             !.step = IF q.attach = "none" THEN "replySend" ELSE "replyAttach"])
    /\ UNCHANGED <<tickets, ticketSeen, lastNumber, sent, settings, reported>>

\* Mutated: the ticket is flagged as the files are moved, before the row has them.
ReplyToTicketAttach_FlagFirst(r) ==
    LET q == requests[r] IN
    /\ q.step = "replyAttach"
    /\ q.attach = "pending"
    /\ MarkHasAttachments(q.ticket)
    /\ Goto(r, "replySend")
    /\ UNCHANGED <<lastNumber, messages, sent, settings, reported>>

\* The files are moved and recorded on the row.  A file that is not a pending
\* upload of the ticket's instance fails the call here: see Stop.
ReplyToTicketAttach(r) ==
    LET q == requests[r] IN
    /\ q.step = "replyAttach"
    /\ q.attach = "pending"
    /\ SetAttachments(q.message)
    /\ Goto(r, "replyFlag")
    /\ UNCHANGED <<tickets, ticketSeen, lastNumber, sent, settings, reported>>

ReplyToTicketFlag(r) ==
    LET q == requests[r] IN
    /\ q.step = "replyFlag"
    /\ MarkHasAttachments(q.ticket)
    /\ Goto(r, "replySend")
    /\ UNCHANGED <<lastNumber, messages, sent, settings, reported>>

\* Mutated: a refused send is logged and forgotten.
ReplyToTicketSend_BestEffort(r) ==
    LET q == requests[r] IN
    /\ q.step = "replySend"
    /\ \/ /\ \E n \in 1..Attempts : Accept(q, n)
          /\ Continue(r, [q EXCEPT !.step = "replyStamp", !.rfc = Len(mails')])
          /\ UNCHANGED reported
       \/ /\ reported' = reported \cup {q.message}
          /\ Goto(r, "notify")
          /\ UNCHANGED mails
    /\ UNCHANGED <<rows, notices, settings>>

\* Mutated: the mail is built again, from the ticket as it is now.
ReplyToTicketSend_Rebuilt(r) ==
    LET q   == requests[r]
        now == [q EXCEPT !.row = tickets[q.ticket]] IN
    /\ q.step = "replySend"
    /\ Built(now) # None
    /\ \E n \in 1..Attempts : Accept(now, n)
    /\ Continue(r, [q EXCEPT !.step = "replyStamp", !.rfc = Len(mails')])
    /\ UNCHANGED <<rows, notices, settings, reported>>

\* The mail is accepted, once or more often; a response is received, or all are
\* lost and the call fails.  (For a send that is refused, see Stop.)
ReplyToTicketSend(r) ==
    LET q == requests[r] IN
    /\ q.step = "replySend"
    /\ \E n \in 1..Attempts : Accept(q, n)
    /\ \/ Continue(r, [q EXCEPT !.step = "replyStamp", !.rfc = Len(mails')])
       \/ Return(r)
    /\ UNCHANGED <<rows, notices, settings, reported>>

\* The row gets its Message-ID.  After the staff notices, which cannot fail the
\* call, the agent is told the reply was sent.
ReplyToTicketStamp(r) ==
    LET q == requests[r] IN
    /\ q.step = "replyStamp"
    /\ SetRfcMessageId(q.message, q.rfc)
    /\ reported' = reported \cup {q.message}
    /\ Goto(r, "notify")
    /\ UNCHANGED <<tickets, ticketSeen, lastNumber, sent, settings>>

-----------------------------------------------------------------------------
(* Submitted tickets                                                       *)

\* Mutated: the number is one more than the tickets there are.
TakeNumber_Counted(i) ==
    lastNumber' = [lastNumber EXCEPT ![i] =
                     Cardinality({t \in DOMAIN tickets : tickets[t].instance = i}) + 1]

\* increment_ticket_counter
TakeNumber(i) == lastNumber' = [lastNumber EXCEPT ![i] = @ + 1]

\* The row of a ticket numbered next, for requesters and ccs.
Numbered(r, op, i, subject, requesters, ccs, from, step) ==
    /\ TakeNumber(i)
    /\ Begin(r, op, [Idle EXCEPT !.step = step, !.actor = from,
                     !.row = NewTicket(0, i, lastNumber'[i], subject, requesters, ccs)])
    /\ UNCHANGED <<tickets, ticketSeen, messages, sent, settings, reported>>

\* submitTicket: the caller's verified address is the requester.
SubmitTicket(r, i, email, subject) ==
    Numbered(r, "submitTicket", i, subject, {email}, {}, email, "submitCreate")

\* submitVerifiedTicket: the addresses are distinct, at least one is a
\* requester, and none may be the instance's own.
SubmitVerifiedTicket(r, i, to, cc, from, subject) ==
    /\ from \in to
    /\ to \cap cc = {}
    /\ \A e \in to \cup cc : ~is_own_address(AddressesOf(Routes, i), e)
    /\ Numbered(r, "submitVerifiedTicket", i, subject, to, cc, from, "submitCreate")

\* open_submitted_ticket: the ticket, then its first message.
SubmittedCreate(r) ==
    LET q   == requests[r]
        t   == Len(tickets) + 1
        row == [q.row EXCEPT !.token = t] IN
    /\ q.step = "submitCreate"
    /\ CreateTicket(row)
    /\ Continue(r, [q EXCEPT !.step = "submitMessage", !.ticket = t, !.row = row])
    /\ UNCHANGED <<lastNumber, messages, sent, settings, reported>>

SubmittedMessage(r) ==
    LET q == requests[r] IN
    /\ q.step = "submitMessage"
    /\ CreateTicketMessage(NewMessage(q.ticket, "inbound", q.actor, {}, {}, <<>>))
    /\ Goto(r, "noticeSend")
    /\ UNCHANGED <<tickets, ticketSeen, lastNumber, sent, settings, reported>>

-----------------------------------------------------------------------------
(* The specification                                                       *)

Init ==
    LET own(t)   == {s \in 1..t : Opened[s].instance = Opened[t].instance}
        first(t) == NewTicket(t, Opened[t].instance, Cardinality(own(t)), None,
                              Opened[t].requesters, Opened[t].ccs) IN
    /\ tickets = [t \in DOMAIN Opened |-> first(t)]
    /\ ticketSeen = [t \in DOMAIN Opened |-> {first(t)}]
    /\ lastNumber = [i \in Instances |-> Cardinality({t \in DOMAIN Opened : Opened[t].instance = i})]
    /\ messages = [t \in DOMAIN Opened |->
                     NewMessage(t, "inbound", CHOOSE e \in Opened[t].requesters : TRUE, {}, {}, <<>>)]
    /\ mails = <<>>
    /\ notices = {}
    /\ settings = [i \in Instances |-> [u \in Users |-> DefaultSettings]]
    /\ reported = {}
    /\ requests = [r \in Requests |-> Idle]
    /\ calls = 0

Read(r) ==
    \E u \in Users, t \in DOMAIN tickets :
        \/ \E status \in Statuses : SetTicketStatusRead(r, u, t, status)
        \/ \E assignee \in Users \cup {Nobody} : AssignTicketRead(r, u, t, assignee)
        \/ \E email \in Customers :
            \/ ListEditRead(r, u, t, "addTicketRequester", "addRequester", email)
            \/ RemoveTicketRequesterRead(r, u, t, email)
            \/ ListEditRead(r, u, t, "addTicketCc", "addCc", email)
            \/ ListEditRead(r, u, t, "removeTicketCc", "removeCc", email)
        \/ AddInternalNoteRead(r, u, t)
        \/ \E attach \in {"none", "pending", "foreign"} : ReplyToTicketRead(r, u, t, attach)

Submit(r) ==
    \E i \in Instances, subject \in Subjects, from \in Customers :
        \/ SubmitTicket(r, i, from, subject)
        \/ \E to, cc \in SUBSET Customers : SubmitVerifiedTicket(r, i, to, cc, from, subject)

Step(r) ==
    \/ SetTicketStatusWrite(r) \/ AssignTicketWrite(r) \/ ListEditWrite(r)
    \/ AddInternalNoteCreate(r)
    \/ ReplyToTicketCreate(r) \/ ReplyToTicketAttach(r) \/ ReplyToTicketFlag(r)
    \/ ReplyToTicketSend(r) \/ ReplyToTicketStamp(r)
    \/ SubmittedCreate(r) \/ SubmittedMessage(r)
    \/ NoticeSend(r) \/ NoticeRow(r) \/ NoticeStamp(r) \/ Notify(r)

Next ==
    \/ \E r \in Requests : Read(r) \/ Submit(r) \/ Step(r) \/ Stop(r)
    \/ \E i \in Instances, u \in Users, reason \in Reasons :
            \/ UpdateNotificationSettings(i, u, {reason}, {})
            \/ UpdateNotificationSettings(i, u, {}, {reason})

Spec == Init /\ [][Next]_vars

-----------------------------------------------------------------------------
(* Properties                                                              *)

Envelope == [to : SUBSET Address, cc : SUBSET Address,
             replyTo    : [local : Locals \cup {Support}, domain : Domains,
                           tag : [ticket : Nat, token : Nat]],
             subject    : SubjectTag,
             inReplyTo  : MessageId \cup {None},
             references : Seq(MessageId)]

\* Rows, mails and requests are well formed, and what a resolver carries names
\* a ticket, and for a row to be stamped a message, that exists.
TypeOK ==
    /\ tickets \in Seq(Ticket)
    /\ DOMAIN ticketSeen = DOMAIN tickets
    /\ \A t \in DOMAIN tickets : tickets[t] \in ticketSeen[t] /\ ticketSeen[t] \subseteq Ticket
    /\ lastNumber \in [Instances -> Nat]
    /\ messages \in Seq(TicketMessage)
    /\ \A m \in DOMAIN messages : messages[m].ticket \in DOMAIN tickets
    /\ \A m \in DOMAIN mails : mails[m].envelope \in Envelope
    /\ settings \in [Instances -> [Users -> SUBSET Reasons]]
    /\ reported \subseteq DOMAIN messages
    /\ requests \in [Requests -> Request]
    /\ \A r \in Requests :
        /\ requests[r].step \notin {"idle", "submitCreate"} => requests[r].ticket \in DOMAIN tickets
        /\ requests[r].step \in {"replyAttach", "replySend", "replyStamp", "noticeStamp"}
            => requests[r].message \in DOMAIN messages

\* compute_ticket_markers "is the single place that decides": every row a
\* ticket ever has is in the listings its own status and assignee put it in,
\* whichever of the racing status, assignee and reopen writes came last.
MarkersAgree ==
    \A t \in DOMAIN tickets : \A row \in ticketSeen[t] :
        /\ row.markers.status = row.status
        /\ row.markers.visible = (IF row.status = "deleted" THEN None ELSE row.instance)
        /\ row.markers.assignee = (IF row.status = "deleted" THEN Nobody ELSE row.assignee)

\* replyToTicket writes the row before it sends: whatever crashes or is edited
\* in between, customers never have a reply that is not on the ticket's record
\* with just those recipients.  Replies of one row are attempts of one send, and
\* the same mail: customers may have it twice, but no other and no more often than
\* the SDK tries.  And a row's Message-ID is that of a mail of its ticket with its
\* recipients.
ReplyOnRecord ==
    /\ \A i \in DOMAIN mails : mails[i].message # 0 =>
        LET row == messages[mails[i].message] IN
        /\ row.kind = "reply" /\ row.ticket = mails[i].ticket
        /\ row.to = mails[i].envelope.to /\ row.cc = mails[i].envelope.cc
        /\ mails[i].attempt \in 1..Attempts
        /\ \A j \in DOMAIN mails : mails[j].message = mails[i].message =>
                /\ mails[j].envelope = mails[i].envelope
                /\ mails[j].attempt = mails[i].attempt => j = i
    /\ \A m \in DOMAIN messages : messages[m].kind # "inbound" /\ messages[m].rfc # None =>
        LET mail == mails[messages[m].rfc] IN
        /\ mail.ticket = messages[m].ticket
        /\ mail.envelope.to = messages[m].to /\ mail.envelope.cc = messages[m].cc
        /\ mail.message = (IF messages[m].kind = "reply" THEN m ELSE 0)

\* "The caller must be told delivery didn't happen": a reply reported as sent
\* was accepted by the mail service, and its row has the Message-ID.
ReportedWereSent ==
    \A m \in reported :
        /\ messages[m].rfc # None
        /\ mails[messages[m].rfc].message = m

\* In-Reply-To and References never name a mail of another ticket: that would
\* show one customer's mail client, and route their answer to, another's thread.
ThreadsWithinTicket ==
    \A i \in DOMAIN mails :
        LET named == Range(mails[i].envelope.references) \cup
                     ({mails[i].envelope.inReplyTo} \ {None}) IN
        \A id \in named :
            \/ id \in 1..(i - 1) /\ mails[id].ticket = mails[i].ticket
            \/ id \in Incoming /\ \E m \in DOMAIN messages :
                    messages[m].rfc = id /\ messages[m].ticket = mails[i].ticket

\* "Allocated once via an atomic ADD": no two tickets of an instance have one
\* number, which its subject tag is made of, however many are submitted at once.
NumbersUnique ==
    \A s, t \in DOMAIN tickets :
        s # t /\ tickets[s].instance = tickets[t].instance
            => tickets[s].number # tickets[t].number

\* A ticket shows a paperclip only if one of its messages has a file, though
\* the flag and the file are written to different rows.
PaperclipTrue ==
    \A t \in DOMAIN tickets : tickets[t].hasAttachments =>
        \E m \in DOMAIN messages : messages[m].ticket = t /\ messages[m].attachments

\* The record, the mail, what the agent was told and the ticket's paperclip
\* agree, whichever of replyToTicket's steps failed.
RepliesAsRecorded == ReplyOnRecord /\ ReportedWereSent /\ PaperclipTrue

\* The headers of a mail name mail of its own ticket only, and the number in the
\* tag of a ticket is no other ticket's of the instance.  (What a mail's subject
\* says is not claimed: tag_subject keeps a tag that a person typed into it, which
\* may be another ticket's.)
MailsNameTheirTicket == ThreadsWithinTicket /\ NumbersUnique

\* "Assignment doesn't fan out to the rest of the team", and nobody is told of
\* what they did themselves.
NoticesConcernTheReader ==
    \A n \in notices :
        /\ n.actor \notin {n.user, MailboxOf[n.user]}
        /\ n.event.kind = "assigned" => n.user \in {n.event.old, n.event.new}

-----------------------------------------------------------------------------
(* What comments say and the code does not do                              *)

\* mutations.rs, removeTicketRequester: "Refuses to remove the last one - a
\* ticket must always have someone to reply to."
SomeoneToReplyTo == \A t \in DOMAIN tickets : tickets[t].requesters # {}

\* db.rs, SetStatusAndAssignee: "pass the ticket's current assignee unchanged
\* for a pure status transition, or the current status unchanged for a pure
\* assignment change."
OneChangeAtATime ==
    [][\A t \in DOMAIN tickets : tickets'[t].status # tickets[t].status
                                    => tickets'[t].assignee = tickets[t].assignee]_vars

\* outbound.rs, status_notice_body: "Deleted is excluded in either direction
\* (closing into delete, or restoring out of it)".
RestoredQuietly ==
    \A i \in DOMAIN mails : mails[i].event.kind = "statusChanged"
                                => "deleted" \notin {mails[i].event.old, mails[i].event.new}

\* mutations.rs, replyToTicket: "The persisted-but-unsent row (no
\* rfcMessageId) doubles as the audit trail an operator needs to spot and
\* retry a failed send."  Once no resolver is at work, such a row is unsent.
UnstampedIsUnsent ==
    (\A r \in Requests : requests[r] = Idle) =>
        \A i \in DOMAIN mails : mails[i].message # 0 => messages[mails[i].message].rfc # None

\* db.rs, Ticket::has_attachments: "true once any message on this ticket
\* carries an attachment."
PaperclipShown ==
    (\A r \in Requests : requests[r] = Idle) =>
        \A m \in DOMAIN messages : messages[m].attachments
                                    => tickets[messages[m].ticket].hasAttachments

\* staff_notify.rs, rule 4: "a deleted ticket mails nobody, regardless of
\* event or settings".
DeletedMailsNobody ==
    [][\A n \in notices' \ notices : tickets[n.ticket].status # "deleted"]_vars

\* outbound.rs, primary_inbound_address: mail from the address synthesized for
\* a wildcard "still round-trips correctly", so its answers reach the instance.
AnswersRouteBack ==
    \A i \in DOMAIN mails :
        Match(Routes, mails[i].envelope.replyTo) = tickets[mails[i].ticket].instance
=============================================================================
