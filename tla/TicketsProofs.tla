---------------------------- MODULE TicketsProofs ----------------------------
(***************************************************************************)
(* Proofs about Tickets, for every value of its constants: what rows,      *)
(* mails, numbers and the resolvers in flight have to do with each other,  *)
(* and what follows for records, threads, listings and notices.            *)
(***************************************************************************)
EXTENDS Tickets, SequenceTheorems, FiniteSetTheorems, WellFoundedInduction, TLAPS

-----------------------------------------------------------------------------
(* The inductive invariant.                                                *)

\* A row of a ticket has the markers its own status and assignee put there.
Agrees(row) ==
    /\ row.markers.status = row.status
    /\ row.markers.visible = (IF row.status = "deleted" THEN None ELSE row.instance)
    /\ row.markers.assignee = (IF row.status = "deleted" THEN Nobody ELSE row.assignee)

TicketsSound ==
    /\ tickets \in Seq(Ticket) /\ ticketSeen \in Seq(SUBSET Ticket)
    /\ Len(ticketSeen) = Len(tickets)
    /\ \A t \in 1..Len(tickets) : tickets[t] \in ticketSeen[t]
    /\ \A t \in 1..Len(tickets) : \A row \in ticketSeen[t] : Agrees(row)

\* A mail kept on ticket t named the Message-ID among its own references.
Heard(id, t, ms) ==
    \E m \in 1..Len(ms) : /\ ms[m].kind = "inbound" /\ ms[m].ticket = t
                          /\ id \in Range(ms[m].references)

\* A Message-ID ticket t knows of: of a mail sent about it, or of one received
\* and kept on it, or named by one that is kept on it.
Known(id, t, ms, xs) ==
    \/ id \in 1..Len(xs) /\ xs[id].ticket = t
    \/ id \in Incoming /\ \E m \in 1..Len(ms) : ms[m].rfc = id /\ ms[m].ticket = t
    \/ Heard(id, t, ms)

MessagesSound ==
    /\ messages \in Seq(TicketMessage)
    /\ \A m \in 1..Len(messages) :
        /\ messages[m].ticket \in 1..Len(tickets)
        /\ messages[m].rfc \in (IF messages[m].kind = "inbound" THEN Incoming ELSE 1..Len(mails))
                               \cup {None}
        /\ \A id \in Range(messages[m].references) : Known(id, messages[m].ticket, messages, mails)

Occurrence == [kind : Updates \cup {"newTicket", "assigned"},
               old  : Users \cup {Nobody} \cup Statuses,
               new  : Users \cup {Nobody} \cup Statuses]

Mail == [ticket : Nat, message : Nat, envelope : Envelope, event : Occurrence, attempt : Nat]

\* The Message-IDs a threading names.
Named(threading) == Range(threading.references) \cup ({threading.inReplyTo} \ {None})

\* What a mail answers is of its ticket, and older, unless it was received so; and
\* its Reply-To is an address of ours.
MailsSound ==
    /\ mails \in Seq(Mail)
    /\ \A i \in 1..Len(mails) :
        /\ mails[i].ticket \in 1..Len(tickets)
        /\ mails[i].message \in 0..Len(messages)
        /\ \A id \in Named(mails[i].envelope) :
            /\ Known(id, mails[i].ticket, messages, mails)
            /\ id \in Nat => id < i \/ Heard(id, mails[i].ticket, messages)
        /\ Match(Routes, mails[i].envelope.replyTo) # None

\* A reply was sent as its row says.
SentAs(mail, row) ==
    /\ row.kind = "reply" /\ row.ticket = mail.ticket
    /\ row.to = mail.envelope.to /\ row.cc = mail.envelope.cc

\* The row has the Message-ID of a mail that is just what the row says.
StampedAs(m, mail) ==
    /\ mail.ticket = messages[m].ticket
    /\ mail.envelope.to = messages[m].to /\ mail.envelope.cc = messages[m].cc
    /\ mail.message = (IF messages[m].kind = "reply" THEN m ELSE 0)

\* Mails of one row are attempts of one send.
OneSend(i, xs) ==
    /\ xs[i].attempt \in 1..Attempts
    /\ \A j \in 1..Len(xs) : xs[j].message = xs[i].message =>
            /\ xs[j].envelope = xs[i].envelope
            /\ xs[j].attempt = xs[i].attempt => j = i

RecordSound ==
    /\ \A i \in 1..Len(mails) : mails[i].message # 0 =>
        SentAs(mails[i], messages[mails[i].message]) /\ OneSend(i, mails)
    /\ \A m \in 1..Len(messages) : messages[m].kind # "inbound" /\ messages[m].rfc # None =>
        StampedAs(m, mails[messages[m].rfc])
    /\ reported \subseteq 1..Len(messages)
    /\ \A m \in reported : messages[m].kind = "reply" /\ messages[m].rfc # None

\* A paperclip has a file behind it.
PaperclipsSound ==
    \A t \in 1..Len(tickets) : tickets[t].hasAttachments =>
        \E m \in 1..Len(messages) : messages[m].ticket = t /\ messages[m].attachments

TablesSound == TicketsSound /\ MessagesSound /\ MailsSound /\ RecordSound /\ PaperclipsSound

Listing  == {"addRequester", "removeRequester", "addCc", "removeCc"}
Authored == {"noteCreate", "replyCreate", "submitCreate", "submitMessage"}
Unsent   == {"setStatus", "submitCreate", "submitMessage", "noticeSend", "noticeRow"}
ToSend  == {"replyAttach", "replyFlag", "replySend"}
Written  == ToSend \cup {"replyStamp"}

\* A resolver refers to rows there are, with n tickets.  What it will send names
\* Message-IDs of its ticket.  A reply's row is as the mail will be; the mail a
\* row is to be stamped with was accepted as the row says.
Ready(q, n, ms, xs) ==
    /\ q.step \notin {"idle", "submitCreate"} => q.ticket \in 1..n
    /\ q.step # "idle" => q.row \in Ticket
    /\ \A id \in Named(q.threading) : Known(id, q.ticket, ms, xs)
    /\ q.step \in Listing => q.email \in Address
    /\ q.step \in Authored => q.actor \in Users \cup Address
    /\ q.step \in Unsent => q.message = 0
    /\ q.step = "submitCreate" =>
        q.threading = NoThreading /\ ~q.row.hasAttachments /\ Agrees(q.row)
    /\ q.step \in {"replyCreate", "noticeRow"} \cup Written => Built(q) # None
    /\ q.step \in Written =>
        /\ q.message \in 1..Len(ms)
        /\ ms[q.message].kind = "reply" /\ ms[q.message].ticket = q.ticket
        /\ ms[q.message].to = Built(q).to /\ ms[q.message].cc = Built(q).cc
    /\ q.step = "replyFlag" => ms[q.message].attachments
    /\ q.step = "replyStamp" => q.rfc \in 1..Len(xs) /\ xs[q.rfc].message = q.message
    /\ q.step \in {"noticeRow", "noticeStamp"} =>
        /\ q.rfc \in 1..Len(xs) /\ xs[q.rfc].ticket = q.ticket /\ xs[q.rfc].message = 0
    /\ q.step = "noticeRow" => xs[q.rfc].envelope = Built(q)
    /\ q.step = "noticeStamp" =>
        /\ q.message \in 1..Len(ms)
        /\ ms[q.message].kind = "system" /\ ms[q.message].ticket = q.ticket
        /\ ms[q.message].to = xs[q.rfc].envelope.to /\ ms[q.message].cc = xs[q.rfc].envelope.cc

RequestsReady ==
    /\ requests \in [Requests -> Request]
    /\ \A r \in Requests : Ready(requests[r], Len(tickets), messages, mails)

\* Two replies have two rows, and what is to be sent was not.
RepliesApart ==
    /\ \A r, s \in Requests : r # s /\ requests[r].step \in Written /\ requests[s].step \in Written
                                => requests[r].message # requests[s].message
    /\ \A r \in Requests : requests[r].step \in ToSend =>
        \A i \in 1..Len(mails) : mails[i].message # requests[r].message

Pending(r) == requests[r].step = "submitCreate"

\* Numbers of tickets, and of those about to be created, were handed out, each once.
NumbersHandedOut ==
    /\ lastNumber \in [Instances -> Nat]
    /\ \A t \in 1..Len(tickets) : tickets[t].number <= lastNumber[tickets[t].instance]
    /\ \A s, t \in 1..Len(tickets) : s # t /\ tickets[s].instance = tickets[t].instance
                                        => tickets[s].number # tickets[t].number
    /\ \A r \in Requests : Pending(r) =>
        /\ requests[r].row.number <= lastNumber[requests[r].row.instance]
        /\ \A t \in 1..Len(tickets) : tickets[t].instance = requests[r].row.instance
                                        => tickets[t].number # requests[r].row.number
    /\ \A r, s \in Requests : r # s /\ Pending(r) /\ Pending(s)
                              /\ requests[r].row.instance = requests[s].row.instance
                                => requests[r].row.number # requests[s].row.number

SettingsTyped == settings \in [Instances -> [Users -> SUBSET Reasons]]

Consistent ==
    /\ TablesSound /\ RequestsReady /\ RepliesApart /\ NumbersHandedOut /\ SettingsTyped
    /\ NoticesConcernTheReader

-----------------------------------------------------------------------------
(* What a step may do to the rows that others refer to.                    *)

Longer(s, t) == Len(s) \in Nat /\ Len(t) \in Nat /\ Len(s) <= Len(t)

\* Messages stay what they are and keep their files and the ids of received mail.
MessagesKept(ms, ns) ==
    /\ Longer(ms, ns)
    /\ \A m \in 1..Len(ms) :
        /\ ns[m].ticket = ms[m].ticket /\ ns[m].kind = ms[m].kind
        /\ ns[m].to = ms[m].to /\ ns[m].cc = ms[m].cc
        /\ ns[m].references = ms[m].references
        /\ ms[m].rfc \in Incoming => ns[m].rfc = ms[m].rfc
        /\ ms[m].attachments => ns[m].attachments

\* What was sent is sent.
MailsKept(xs, ys) == Longer(xs, ys) /\ \A i \in 1..Len(xs) : ys[i] = xs[i]

\* Tickets stay what they are.
TicketsKept(ts, us) ==
    /\ Longer(ts, us)
    /\ \A t \in 1..Len(ts) : us[t].instance = ts[t].instance

Grown == /\ TicketsKept(tickets, tickets') /\ MessagesKept(messages, messages')
         /\ MailsKept(mails, mails')

\* A resolver leaves the Message-IDs of received mail alone, and puts only rows of
\* customers' messages that name nothing.
ReceivedStay ==
    \A m \in 1..Len(messages') : messages'[m].kind = "inbound" =>
        \/ m \in 1..Len(messages) /\ messages'[m].rfc = messages[m].rfc
        \/ m \notin 1..Len(messages) /\ messages'[m].references = <<>>

Kept == Grown /\ ReceivedStay

\* A number of instance i that was handed out, and is no ticket's and no
\* resolver's.
Free(i, n) ==
    /\ n <= lastNumber[i]
    /\ \A t \in 1..Len(tickets) : tickets[t].instance = i => tickets[t].number # n
    /\ \A r \in Requests : Pending(r) /\ requests[r].row.instance = i
                            => requests[r].row.number # n

FreeStays == \A i \in Instances, n \in Nat : Free(i, n) => Free(i, n)'

\* What every step of a resolver comes to.
Onward == Consistent' /\ Kept /\ FreeStays

\* What was named in a mail received stays so while messages are kept.
LEMMA HeardKept ==
  ASSUME NEW ms, NEW ns, MessagesKept(ms, ns), NEW id, NEW t, Heard(id, t, ms)
  PROVE  Heard(id, t, ns)
<1>1. PICK m \in 1..Len(ms) : /\ ms[m].kind = "inbound" /\ ms[m].ticket = t
                              /\ id \in Range(ms[m].references)
  BY DEF Heard
<1>2. m \in 1..Len(ns) /\ ns[m].kind = "inbound" /\ ns[m].ticket = t
      /\ ns[m].references = ms[m].references
  BY <1>1, SMT DEF MessagesKept, Longer
<1>3. QED
  BY <1>1, <1>2 DEF Heard

\* A Message-ID of a ticket stays one while rows and mails are kept.
LEMMA KnownKept ==
  ASSUME NEW ms, NEW ns, NEW xs, NEW ys, MessagesKept(ms, ns), MailsKept(xs, ys),
         NEW id, NEW t, Known(id, t, ms, xs)
  PROVE  Known(id, t, ns, ys)
<1>1. CASE id \in 1..Len(xs) /\ xs[id].ticket = t
  BY <1>1, SMT DEF MailsKept, Longer, Known
<1>2. CASE id \in Incoming /\ \E m \in 1..Len(ms) : ms[m].rfc = id /\ ms[m].ticket = t
  <2>1. PICK m \in 1..Len(ms) : ms[m].rfc = id /\ ms[m].ticket = t
    BY <1>2
  <2>2. m \in 1..Len(ns) /\ ns[m].rfc = id /\ ns[m].ticket = t
    BY <1>2, <2>1, SMT DEF MessagesKept, Longer
  <2>3. QED
    BY <1>2, <2>2 DEF Known
<1>3. CASE Heard(id, t, ms)
  BY <1>3, HeardKept DEF Known
<1>4. QED
  BY <1>1, <1>2, <1>3 DEF Known

\* What a resolver in flight needs of the rows survives.
LEMMA ReadyKept ==
  ASSUME NEW n \in Nat, NEW k \in Nat, n <= k, NEW ms, NEW ns, NEW xs, NEW ys,
         MessagesKept(ms, ns), MailsKept(xs, ys), NEW q, Ready(q, n, ms, xs)
  PROVE  Ready(q, k, ns, ys)
<1>1. \A id \in Named(q.threading) : Known(id, q.ticket, ns, ys)
  BY KnownKept DEF Ready
<1>2. /\ q.step \notin {"idle", "submitCreate"} => q.ticket \in 1..k
      /\ q.step \in Written =>
            /\ q.message \in 1..Len(ns)
            /\ ns[q.message].kind = "reply" /\ ns[q.message].ticket = q.ticket
            /\ ns[q.message].to = Built(q).to /\ ns[q.message].cc = Built(q).cc
  BY SMT DEF Ready, MessagesKept, Longer
<1>3. q.step = "replyFlag" => ns[q.message].attachments
  BY DEF Ready, MessagesKept, Written, ToSend
<1>4. /\ q.step = "replyStamp" => q.rfc \in 1..Len(ys) /\ ys[q.rfc].message = q.message
      /\ q.step \in {"noticeRow", "noticeStamp"} =>
            /\ q.rfc \in 1..Len(ys) /\ ys[q.rfc].ticket = q.ticket /\ ys[q.rfc].message = 0
      /\ q.step = "noticeRow" => ys[q.rfc].envelope = Built(q)
  BY SMT DEF Ready, MailsKept, Longer
<1>5. q.step = "noticeStamp" =>
        /\ q.message \in 1..Len(ns)
        /\ ns[q.message].kind = "system" /\ ns[q.message].ticket = q.ticket
        /\ ns[q.message].to = ys[q.rfc].envelope.to /\ ns[q.message].cc = ys[q.rfc].envelope.cc
  BY SMTT(60) DEF Ready, MessagesKept, MailsKept, Longer
<1>6. QED
  BY <1>1, <1>2, <1>3, <1>4, <1>5 DEF Ready

\* A sequence is no shorter than itself.
LEMMA SameLonger ==
  ASSUME NEW S, NEW s \in Seq(S)
  PROVE  Longer(s, s)
BY LenProperties, SMT DEF Longer

\* Whatever is left alone is kept.
LEMMA TablesStay ==
  ASSUME TablesSound
  PROVE  /\ UNCHANGED tickets  => TicketsKept(tickets, tickets')
         /\ UNCHANGED messages => MessagesKept(messages, messages')
         /\ UNCHANGED mails    => MailsKept(mails, mails')
BY SameLonger
DEF TablesSound, TicketsSound, MessagesSound, MailsSound, TicketsKept, MessagesKept, MailsKept

-----------------------------------------------------------------------------
(* One resolver goes on, the others wait.                                  *)

\* What the others refer to is still there, and what this one refers to is there.
LEMMA OneGoesOn ==
  ASSUME RequestsReady, NEW r \in Requests, NEW q \in Request,
         requests' = [requests EXCEPT ![r] = q], Kept,
         Ready(q, Len(tickets'), messages', mails')
  PROVE  RequestsReady'
<1>1. requests' \in [Requests -> Request]
  BY DEF RequestsReady
<1>2. ASSUME NEW p \in Requests PROVE Ready(requests'[p], Len(tickets'), messages', mails')
  <2>1. requests'[p] = IF p = r THEN q ELSE requests[p]
    BY DEF RequestsReady
  <2>2. Ready(requests[p], Len(tickets'), messages', mails')
    BY ReadyKept DEF RequestsReady, Kept, Grown, TicketsKept, Longer
  <2>3. QED
    BY <2>1, <2>2
<1>3. QED
  BY <1>1, <1>2 DEF RequestsReady

\* It is no reply that was written, or has the row it had and, if it waits to be
\* sent, has waited.
LEMMA ApartStays ==
  ASSUME RequestsReady, RepliesApart, NEW r \in Requests, NEW q \in Request,
         requests' = [requests EXCEPT ![r] = q],
         q.step \in Written => requests[r].step \in Written /\ q.message = requests[r].message,
         q.step \in ToSend => requests[r].step \in ToSend,
         UNCHANGED mails
  PROVE  RepliesApart'
<1>1. \A p \in Requests : requests'[p] = IF p = r THEN q ELSE requests[p]
  BY DEF RequestsReady
<1>2. ToSend \subseteq Written
  BY DEF Written
<1>3. ASSUME NEW p \in Requests, NEW s \in Requests, p # s,
             requests'[p].step \in Written, requests'[s].step \in Written
      PROVE  requests'[p].message # requests'[s].message
  BY <1>1, <1>3 DEF RepliesApart
<1>4. ASSUME NEW p \in Requests, requests'[p].step \in ToSend, NEW i \in 1..Len(mails')
      PROVE  mails'[i].message # requests'[p].message
  BY <1>1, <1>2, <1>4 DEF RepliesApart
<1>5. QED
  BY <1>3, <1>4 DEF RepliesApart

\* No ticket is created or renumbered, and no number taken.
LEMMA NumbersStay ==
  ASSUME RequestsReady, NumbersHandedOut, NEW r \in Requests, NEW q \in Request,
         requests' = [requests EXCEPT ![r] = q], q.step # "submitCreate",
         UNCHANGED lastNumber, Len(tickets') = Len(tickets),
         \A t \in 1..Len(tickets) : /\ tickets'[t].instance = tickets[t].instance
                                    /\ tickets'[t].number = tickets[t].number
  PROVE  NumbersHandedOut' /\ FreeStays
<1>1. \A p \in Requests : requests'[p] = IF p = r THEN q ELSE requests[p]
  BY DEF RequestsReady
<1>2. \A p \in Requests : Pending(p)' => Pending(p) /\ requests'[p] = requests[p]
  BY <1>1 DEF Pending
<1>3. /\ lastNumber' \in [Instances -> Nat]
      /\ \A t \in 1..Len(tickets') : tickets'[t].number <= lastNumber'[tickets'[t].instance]
      /\ \A s, t \in 1..Len(tickets') : s # t /\ tickets'[s].instance = tickets'[t].instance
                                            => tickets'[s].number # tickets'[t].number
  BY DEF NumbersHandedOut
<1>4. ASSUME NEW p \in Requests, Pending(p)'
      PROVE  /\ requests'[p].row.number <= lastNumber'[requests'[p].row.instance]
             /\ \A t \in 1..Len(tickets') : tickets'[t].instance = requests'[p].row.instance
                                            => tickets'[t].number # requests'[p].row.number
  BY <1>2, <1>4 DEF NumbersHandedOut
<1>5. ASSUME NEW p \in Requests, NEW s \in Requests, p # s, Pending(p)', Pending(s)',
             requests'[p].row.instance = requests'[s].row.instance
      PROVE  requests'[p].row.number # requests'[s].row.number
  BY <1>2, <1>5 DEF NumbersHandedOut
<1>6. NumbersHandedOut'
  BY <1>3, <1>4, <1>5 DEF NumbersHandedOut
<1>7. FreeStays
  BY <1>2 DEF FreeStays, Free
<1>8. QED
  BY <1>6, <1>7

-----------------------------------------------------------------------------
(* Sequences.                                                              *)

\* A sequence with one element replaced.
LEMMA Replaced ==
  ASSUME NEW S, NEW s \in Seq(S), NEW i \in 1..Len(s), NEW e \in S, NEW t,
         t = [s EXCEPT ![i] = e]
  PROVE  /\ t \in Seq(S) /\ Len(t) = Len(s)
         /\ \A j \in 1..Len(s) : t[j] = IF j = i THEN e ELSE s[j]
         /\ Longer(s, t)
<1>1. /\ [s EXCEPT ![i] = e] \in Seq(S) /\ Len([s EXCEPT ![i] = e]) = Len(s)
      /\ \A j \in 1..Len(s) : [s EXCEPT ![i] = e][j] = IF j = i THEN e ELSE s[j]
  BY ExceptSeq
<1>2. t \in Seq(S) /\ Len(t) = Len(s) /\ \A j \in 1..Len(s) : t[j] = IF j = i THEN e ELSE s[j]
  BY <1>1
<1>3. Longer(s, t)
  BY <1>2, LenProperties, SMT DEF Longer
<1>4. QED
  BY <1>2, <1>3

\* A sequence with one element added.
LEMMA Added ==
  ASSUME NEW S, NEW s \in Seq(S), NEW e \in S, NEW t, t = Append(s, e)
  PROVE  /\ t \in Seq(S) /\ Len(t) = Len(s) + 1 /\ Len(s) \in Nat
         /\ \A j \in 1..Len(s) : t[j] = s[j]
         /\ t[Len(s) + 1] = e
         /\ Longer(s, t)
<1>1. /\ t \in Seq(S) /\ Len(t) = Len(s) + 1
      /\ \A j \in 1..Len(s) : t[j] = s[j]
      /\ t[Len(s) + 1] = e
  BY AppendProperties
<1>2. Len(s) \in Nat
  BY LenProperties
<1>3. Longer(s, t)
  BY <1>1, <1>2, SMT DEF Longer
<1>4. QED
  BY <1>1, <1>2, <1>3

\* The elements of a sequence with one added.
LEMMA RangeOfAppend ==
  ASSUME NEW S, NEW s \in Seq(S), NEW e \in S, NEW x \in Range(Append(s, e))
  PROVE  x \in Range(s) \/ x = e
<1>1. PICK t \in Seq(S) : t = Append(s, e)
  BY Added
<1>2. /\ Len(t) = Len(s) + 1 /\ Len(s) \in Nat
      /\ \A j \in 1..Len(s) : t[j] = s[j]
      /\ t[Len(s) + 1] = e
  BY <1>1, Added
<1>3. DOMAIN t = 1..Len(t) /\ DOMAIN s = 1..Len(s)
  BY LenProperties
<1>4. PICK i \in DOMAIN t : x = t[i]
  BY <1>1, Zenon DEF Range
<1>5. i \in 1..Len(s) \/ i = Len(s) + 1
  BY <1>2, <1>3, SMT
<1>6. CASE i \in 1..Len(s)
  <2>1. x = s[i] /\ i \in DOMAIN s
    BY <1>2, <1>3, <1>4, <1>6
  <2>2. QED
    BY <2>1, Zenon DEF Range
<1>7. QED
  BY <1>2, <1>4, <1>5, <1>6

\* A mail with no threading names nothing.
LEMMA NothingNamed ==
  /\ NoThreading \in [inReplyTo : MessageId \cup {None}, references : Seq(MessageId)]
  /\ Named(NoThreading) = {}
<1>1. Range(<<>>) = {}
  BY SMT DEF Range
<1>2. <<>> \in Seq(MessageId)
  BY EmptySeq
<1>3. QED
  BY <1>1, <1>2 DEF NoThreading, Named

-----------------------------------------------------------------------------
(* The mail a resolver builds.                                             *)

\* There is an earliest among some rows (primary_inbound_address sorts them).
LEMMA EarliestExists ==
  ASSUME NEW own, NEW keys, keys # {}, \A k \in keys : own[k].created \in Nat
  PROVE  Earliest(own, keys) \in keys
<1> DEFINE Less == OpToRel(<, Nat)
           times == {own[k].created : k \in keys}
<1>1. PICK x \in times : \A y \in times : <<y, x>> \notin Less
  <2>1. times \subseteq Nat /\ times # {}
    OBVIOUS
  <2>2. QED
    BY <2>1, NatLessThanWellFounded, WFMin
<1>2. \A y \in times : x \in Nat /\ y \in Nat /\ ~(y < x)
  BY <1>1 DEF OpToRel
<1>3. \A y \in times : x <= y
  BY <1>2
<1>4. PICK k \in keys : own[k].created = x
  BY <1>1
<1>5. \A j \in keys : own[k].created <= own[j].created
  BY <1>3, <1>4
<1>6. QED
  BY <1>4, <1>5 DEF Earliest

\* What an instance sends from is an address, if there is one.
LEMMA PrimaryIsAddress ==
  ASSUME NEW i, NEW from, from = primary_inbound_address(AddressesOf(Routes, i)), from # None
  PROVE  from.local \in Locals \cup {Support} /\ from.domain \in Domains
<1> DEFINE own == AddressesOf(Routes, i)
           wildcards == {k \in DOMAIN own : k.local = Star}
           exact == DOMAIN own \ wildcards
<1>1. DOMAIN own \subseteq AddressKeys /\ \A k \in DOMAIN own : own[k].created \in Nat
  <2>1. /\ DOMAIN own = {k \in DOMAIN Routes : Routes[k].instance = i}
        /\ \A k \in DOMAIN own : own[k] = Routes[k]
    BY DEF AddressesOf
  <2>2. QED
    BY <2>1, RoutesAssumption DEF AddressRow
<1>2. /\ exact # {} => Earliest(own, exact) \in exact
      /\ wildcards # {} => Earliest(own, wildcards) \in wildcards
  <2>1. /\ \A k \in exact : own[k].created \in Nat
        /\ \A k \in wildcards : own[k].created \in Nat
    BY <1>1
  <2> HIDE DEF own, exact, wildcards
  <2>2. QED
    BY <2>1, EarliestExists
<1>3. \A k \in AddressKeys : /\ k.domain \in Domains
                             /\ k.local # Star => k.local \in Locals \cup {Support}
  BY SMT DEF AddressKeys, Address
<1>4. from = CASE exact # {} -> Earliest(own, exact)
               [] exact = {} /\ wildcards # {} ->
                     [local |-> Support, domain |-> Earliest(own, wildcards).domain]
               [] OTHER -> None
  BY DEF primary_inbound_address
<1>5. CASE exact # {}
  <2>1. from = Earliest(own, exact)
    BY <1>4, <1>5
  <2>2. from \in exact
    BY <1>2, <1>5, <2>1
  <2>3. from \in AddressKeys /\ from.local # Star
    BY <1>1, <2>2
  <2>4. QED
    BY <1>3, <2>3
<1>6. CASE exact = {} /\ wildcards # {}
  <2>1. from = [local |-> Support, domain |-> Earliest(own, wildcards).domain]
    BY <1>4, <1>6
  <2>2. Earliest(own, wildcards) \in AddressKeys
    BY <1>1, <1>2, <1>6
  <2>3. QED
    BY <1>3, <2>1, <2>2
<1>7. CASE exact = {} /\ wildcards = {}
  BY <1>4, <1>7
<1>8. QED
  BY <1>5, <1>6, <1>7

\* The first of one or two keys.
LEMMA FirstOfTwo ==
  ASSUME NEW hits, hits \subseteq 1..2, hits # {}
  PROVE  Min(hits) \in hits
<1>1. \A x \in hits : x = 1 \/ x = 2
  OBVIOUS
<1>2. PICK x \in hits : TRUE
  OBVIOUS
<1>3. \E y \in hits : \A z \in hits : y <= z
  <2>1. CASE 1 \in hits
    <3>1. \A z \in hits : 1 <= z
      BY <1>1, SMT
    <3>2. QED
      BY <2>1, <3>1
  <2>2. CASE 1 \notin hits
    <3>1. \A z \in hits : z = 2
      BY <1>1, <2>2
    <3>2. x <= x
      BY <3>1, SMT
    <3>3. QED
      BY <1>2, <3>1, <3>2
  <2>3. QED
    BY <2>1, <2>2
<1>4. QED
  BY <1>3 DEF Min

\* An address belongs to an instance if one of its keys is a row.
LEMMA Matches ==
  ASSUME NEW recipient
  PROVE  /\ Match(Routes, recipient) \in Instances \cup {None}
         /\ AddressOf(recipient) \in DOMAIN Routes => Match(Routes, recipient) # None
         /\ wildcard_for_domain(recipient.domain) \in DOMAIN Routes
              => Match(Routes, recipient) # None
<1> DEFINE keys == lookup_keys(recipient)
           hits == {k \in 1..2 : keys[k] \in DOMAIN Routes}
<1>1. Match(Routes, recipient) = IF hits = {} THEN None ELSE Routes[keys[Min(hits)]].instance
  BY DEF Match
<1>2. ASSUME hits # {} PROVE Routes[keys[Min(hits)]].instance \in Instances
  <2>1. Min(hits) \in hits
    BY <1>2, FirstOfTwo
  <2>2. Routes[keys[Min(hits)]] \in AddressRow
    BY <2>1, RoutesAssumption
  <2>3. QED
    BY <2>2 DEF AddressRow
<1>3. /\ AddressOf(recipient) \in DOMAIN Routes => 1 \in hits
      /\ wildcard_for_domain(recipient.domain) \in DOMAIN Routes => 2 \in hits
  BY DEF lookup_keys
<1>4. QED
  BY <1>1, <1>2, <1>3, InstancesAssumption

\* reply_to_address: an answer comes back to an address of ours.
LEMMA ReplyToIsOurs ==
  ASSUME NEW q, Built(q) # None
  PROVE  Match(Routes, Built(q).replyTo) # None
<1> DEFINE own  == AddressesOf(Routes, q.row.instance)
           from == primary_inbound_address(own)
           wildcards == {k \in DOMAIN own : k.local = Star}
           exact == DOMAIN own \ wildcards
           replyTo == Built(q).replyTo
<1>1. from # None /\ replyTo = reply_to_address(from, q.ticket, q.row.token)
  BY DEF Built, build_outbound
<1>2. /\ AddressOf(replyTo) = [local |-> from.local, domain |-> from.domain]
      /\ replyTo.domain = from.domain
  <2> HIDE DEF from, replyTo
  <2>1. QED
    BY <1>1 DEF reply_to_address, AddressOf
<1>3. DOMAIN own \subseteq DOMAIN Routes /\ \A k \in DOMAIN own : own[k] = Routes[k]
  BY DEF AddressesOf
<1>4. \A k \in DOMAIN own : own[k].created \in Nat /\ k \in AddressKeys
  BY <1>3, RoutesAssumption DEF AddressRow
<1>5. /\ exact # {} => Earliest(own, exact) \in exact
      /\ wildcards # {} => Earliest(own, wildcards) \in wildcards
  <2>1. /\ \A k \in exact : own[k].created \in Nat
        /\ \A k \in wildcards : own[k].created \in Nat
    BY <1>4
  <2> HIDE DEF own, exact, wildcards
  <2>2. QED
    BY <2>1, EarliestExists
<1>6. from = CASE exact # {} -> Earliest(own, exact)
               [] exact = {} /\ wildcards # {} ->
                     [local |-> Support, domain |-> Earliest(own, wildcards).domain]
               [] OTHER -> None
  BY DEF primary_inbound_address
<1>7. \A k \in AddressKeys : k = [local |-> k.local, domain |-> k.domain]
  BY DEF AddressKeys, Address
<1> SUFFICES Match(Routes, replyTo) # None
  OBVIOUS
<1> HIDE DEF replyTo
<1>8. CASE exact # {}
  <2>1. from \in DOMAIN own /\ from \in AddressKeys
    BY <1>4, <1>5, <1>6, <1>8
  <2>2. AddressOf(replyTo) \in DOMAIN Routes
    BY <1>2, <1>3, <1>7, <2>1
  <2>3. QED
    BY <2>2, Matches
<1>9. CASE exact = {} /\ wildcards # {}
  <2>1. PICK k : k = Earliest(own, wildcards)
    OBVIOUS
  <2>2. k \in wildcards
    BY <1>5, <1>9, <2>1
  <2>3. from = [local |-> Support, domain |-> k.domain]
    BY <1>6, <1>9, <2>1
  <2>4. k.local = Star /\ k \in AddressKeys /\ k \in DOMAIN Routes
    BY <1>3, <1>4, <2>2
  <2>5. replyTo.domain = k.domain
    BY <1>2, <2>3
  <2>6. wildcard_for_domain(replyTo.domain) = k
    BY <1>7, <2>4, <2>5 DEF wildcard_for_domain
  <2>7. QED
    BY <2>4, <2>6, Matches
<1>10. CASE exact = {} /\ wildcards = {}
  BY <1>1, <1>6, <1>10
<1>11. QED
  BY <1>8, <1>9, <1>10

\* A mail that is built is an envelope, with the threading it was built for.
LEMMA BuiltIsEnvelope ==
  ASSUME NEW q \in Request, q.row \in Ticket, Built(q) # None
  PROVE  /\ Built(q) \in Envelope
         /\ Named(Built(q)) = Named(q.threading)
<1> DEFINE own  == AddressesOf(Routes, q.row.instance)
           from == primary_inbound_address(own)
           to   == {e \in q.row.requesters : ~is_own_address(own, e)}
           cc   == {e \in q.row.ccs : ~is_own_address(own, e)}
           replyTo == reply_to_address(from, q.ticket, q.row.token)
           subject == tag_subject(q.row.instance, q.row.number, q.row.subject)
<1>1. /\ from # None
      /\ Built(q) = [to |-> to, cc |-> cc, replyTo |-> replyTo, subject |-> subject,
                     inReplyTo |-> q.threading.inReplyTo, references |-> q.threading.references]
  BY DEF Built, build_outbound
<1>2. to \in SUBSET Address /\ cc \in SUBSET Address
  BY SMT DEF Ticket
<1>3. replyTo \in [local : Locals \cup {Support}, domain : Domains,
                   tag : [ticket : Nat, token : Nat]]
  <2>1. from.local \in Locals \cup {Support} /\ from.domain \in Domains
    BY <1>1, PrimaryIsAddress
  <2>2. q.ticket \in Nat /\ q.row.token \in Nat
    BY SMT DEF Request, Ticket
  <2> HIDE DEF from
  <2>3. QED
    BY <2>1, <2>2, SMT DEF reply_to_address
<1>4. subject \in SubjectTag
  BY SMT DEF tag_subject, Ticket, SubjectTag
<1>5. q.threading.inReplyTo \in MessageId \cup {None} /\ q.threading.references \in Seq(MessageId)
  BY SMT DEF Request
<1> HIDE DEF to, cc, replyTo, subject
<1>6. Built(q) \in Envelope
  BY <1>1, <1>2, <1>3, <1>4, <1>5, SMT DEF Envelope
<1>7. Named(Built(q)) = Named(q.threading)
  BY <1>1 DEF Named
<1>8. QED
  BY <1>6, <1>7

\* The mail depends on the row, the ticket and the threading only.
LEMMA BuiltSame ==
  ASSUME NEW q, NEW p, p.row = q.row, p.ticket = q.ticket, p.threading = q.threading
  PROVE  Built(p) = Built(q)
BY DEF Built

-----------------------------------------------------------------------------
(* What each write does to the tables.                                     *)

\* Types of elements.
LEMMA RowsTyped ==
  ASSUME TablesSound
  PROVE  /\ Len(tickets) \in Nat /\ Len(messages) \in Nat /\ Len(mails) \in Nat
         /\ \A t \in 1..Len(tickets) : tickets[t] \in Ticket /\ ticketSeen[t] \in SUBSET Ticket
         /\ \A m \in 1..Len(messages) : messages[m] \in TicketMessage
         /\ \A i \in 1..Len(mails) : mails[i] \in Mail
BY LenProperties, ElementOfSeq DEF TablesSound, TicketsSound, MessagesSound, MailsSound

\* Mails still name what they answer when messages are kept.
LEMMA MailsSoundKept ==
  ASSUME TablesSound, UNCHANGED mails, Longer(tickets, tickets'), MessagesKept(messages, messages')
  PROVE  MailsSound'
<1>1. MailsKept(mails, mails')
  BY TablesStay
<1>2. mails' \in Seq(Mail)
  BY DEF TablesSound, MailsSound
<1>3. ASSUME NEW i \in 1..Len(mails)
      PROVE  /\ mails[i].ticket \in 1..Len(tickets')
             /\ mails[i].message \in 0..Len(messages')
             /\ \A id \in Named(mails[i].envelope) :
                  /\ Known(id, mails[i].ticket, messages', mails')
                  /\ id \in Nat => id < i \/ Heard(id, mails[i].ticket, messages')
             /\ Match(Routes, mails[i].envelope.replyTo) # None
  <2>1. /\ mails[i].ticket \in 1..Len(tickets)
        /\ mails[i].message \in 0..Len(messages)
        /\ \A id \in Named(mails[i].envelope) :
              /\ Known(id, mails[i].ticket, messages, mails)
              /\ id \in Nat => id < i \/ Heard(id, mails[i].ticket, messages)
        /\ Match(Routes, mails[i].envelope.replyTo) # None
    BY DEF TablesSound, MailsSound
  <2>2. mails[i].ticket \in 1..Len(tickets') /\ mails[i].message \in 0..Len(messages')
    BY <2>1, SMT DEF Longer, MessagesKept
  <2>3. QED
    BY <1>1, <2>1, <2>2, KnownKept, HeardKept
<1>4. QED
  BY <1>2, <1>3 DEF MailsSound

\* Messages stay sound when they are left alone and tickets or mails are added.
LEMMA MessagesSoundKept ==
  ASSUME TablesSound, UNCHANGED messages, Longer(tickets, tickets'), MailsKept(mails, mails')
  PROVE  MessagesSound'
<1>1. MessagesKept(messages, messages')
  BY TablesStay
<1>2. messages' \in Seq(TicketMessage)
  BY DEF TablesSound, MessagesSound
<1>3. ASSUME NEW m \in 1..Len(messages)
      PROVE  /\ messages[m].ticket \in 1..Len(tickets')
             /\ messages[m].rfc \in (IF messages[m].kind = "inbound" THEN Incoming
                                     ELSE 1..Len(mails')) \cup {None}
             /\ \A id \in Range(messages[m].references) :
                  Known(id, messages[m].ticket, messages', mails')
  <2>1. /\ messages[m].ticket \in 1..Len(tickets)
        /\ messages[m].rfc \in (IF messages[m].kind = "inbound" THEN Incoming
                                ELSE 1..Len(mails)) \cup {None}
        /\ \A id \in Range(messages[m].references) :
              Known(id, messages[m].ticket, messages, mails)
    BY DEF TablesSound, MessagesSound
  <2>2. messages[m].ticket \in 1..Len(tickets')
    BY <2>1, SMT DEF Longer
  <2>3. 1..Len(mails) \subseteq 1..Len(mails')
    BY SMT DEF MailsKept, Longer
  <2>4. QED
    BY <1>1, <2>1, <2>2, <2>3, KnownKept
<1>4. QED
  BY <1>2, <1>3 DEF MessagesSound

\* The record holds if messages, mails and what was reported are left alone.
LEMMA RecordSame ==
  ASSUME TablesSound, UNCHANGED <<messages, mails, reported>>
  PROVE  RecordSound'
BY DEF TablesSound, RecordSound, SentAs, StampedAs

\* Nothing is written.
LEMMA TablesLeft ==
  ASSUME TablesSound, UNCHANGED <<tickets, ticketSeen, messages, mails, reported>>
  PROVE  TablesSound' /\ Kept
<1>1. Kept
  BY TablesStay DEF Kept, Grown, ReceivedStay
<1>2. TicketsSound'
  BY DEF TablesSound, TicketsSound
<1>3. MessagesSound' /\ MailsSound' /\ RecordSound'
  BY <1>1, MessagesSoundKept, MailsSoundKept, RecordSame DEF Kept, Grown, TicketsKept
<1>4. PaperclipsSound'
  BY DEF TablesSound, PaperclipsSound
<1>5. QED
  BY <1>1, <1>2, <1>3, <1>4 DEF TablesSound

\* A ticket row is written that agrees with its markers and keeps instance and
\* number.  If it has a paperclip, a message has a file.
LEMMA TicketWritten ==
  ASSUME TablesSound, NEW t \in 1..Len(tickets), NEW row \in Ticket, WriteTicket(t, row),
         Agrees(row), row.instance = tickets[t].instance, row.number = tickets[t].number,
         row.hasAttachments => \/ tickets[t].hasAttachments
                               \/ \E m \in 1..Len(messages) :
                                    messages[m].ticket = t /\ messages[m].attachments,
         UNCHANGED <<messages, mails, reported>>
  PROVE  /\ TablesSound' /\ Kept
         /\ Len(tickets') = Len(tickets)
         /\ \A s \in 1..Len(tickets) : /\ tickets'[s].instance = tickets[s].instance
                                       /\ tickets'[s].number = tickets[s].number
<1>1. /\ tickets' \in Seq(Ticket) /\ Len(tickets') = Len(tickets) /\ Longer(tickets, tickets')
      /\ \A s \in 1..Len(tickets) : tickets'[s] = IF s = t THEN row ELSE tickets[s]
  <2>1. tickets' = [tickets EXCEPT ![t] = row] /\ tickets \in Seq(Ticket)
    BY DEF WriteTicket, TablesSound, TicketsSound
  <2>2. QED
    BY <2>1, Replaced DEF Longer
<1>2. PICK seen \in SUBSET Ticket : seen = ticketSeen[t] \cup {row}
  BY RowsTyped
<1>3. /\ ticketSeen' \in Seq(SUBSET Ticket) /\ Len(ticketSeen') = Len(ticketSeen)
      /\ \A s \in 1..Len(tickets) : ticketSeen'[s] = IF s = t THEN seen ELSE ticketSeen[s]
  <2>1. /\ ticketSeen' = [ticketSeen EXCEPT ![t] = seen] /\ ticketSeen \in Seq(SUBSET Ticket)
        /\ Len(ticketSeen) = Len(tickets)
    BY <1>2 DEF WriteTicket, TablesSound, TicketsSound
  <2>2. QED
    BY <2>1, Replaced
<1>4. TicketsSound'
  <2>1. \A s \in 1..Len(tickets) : tickets'[s] \in ticketSeen'[s]
    BY <1>1, <1>2, <1>3 DEF TablesSound, TicketsSound
  <2>2. \A s \in 1..Len(tickets) : \A seenRow \in ticketSeen'[s] : Agrees(seenRow)
    BY <1>2, <1>3 DEF TablesSound, TicketsSound
  <2>3. QED
    BY <1>1, <1>3, <2>1, <2>2 DEF TablesSound, TicketsSound
<1>5. Kept
  BY <1>1, TablesStay DEF Kept, Grown, TicketsKept, ReceivedStay
<1>6. MessagesSound' /\ MailsSound' /\ RecordSound'
  BY <1>5, MessagesSoundKept, MailsSoundKept, RecordSame DEF Kept, Grown, TicketsKept
<1>7. PaperclipsSound'
  BY <1>1 DEF TablesSound, PaperclipsSound
<1>8. QED
  BY <1>1, <1>4, <1>5, <1>6, <1>7 DEF TablesSound

\* A ticket is created.
LEMMA TicketCreated ==
  ASSUME TablesSound, NEW row \in Ticket, CreateTicket(row), Agrees(row), ~row.hasAttachments,
         UNCHANGED <<messages, mails, reported>>
  PROVE  /\ TablesSound' /\ Kept
         /\ Len(tickets') = Len(tickets) + 1 /\ Len(tickets) \in Nat
         /\ \A s \in 1..Len(tickets) : tickets'[s] = tickets[s]
         /\ tickets'[Len(tickets) + 1] = row
<1> DEFINE n == Len(tickets)
<1>1. /\ tickets' \in Seq(Ticket) /\ Len(tickets') = n + 1 /\ n \in Nat /\ Longer(tickets, tickets')
      /\ \A s \in 1..n : tickets'[s] = tickets[s]
      /\ tickets'[n + 1] = row
  <2>1. tickets' = Append(tickets, row) /\ tickets \in Seq(Ticket)
    BY DEF CreateTicket, TablesSound, TicketsSound
  <2>2. QED
    BY <2>1, Added DEF Longer
<1>2. PICK seen \in SUBSET Ticket : seen = {row}
  OBVIOUS
<1>3. /\ ticketSeen' \in Seq(SUBSET Ticket) /\ Len(ticketSeen') = n + 1
      /\ \A s \in 1..n : ticketSeen'[s] = ticketSeen[s]
      /\ ticketSeen'[n + 1] = seen
  <2>1. /\ ticketSeen' = Append(ticketSeen, seen) /\ ticketSeen \in Seq(SUBSET Ticket)
        /\ Len(ticketSeen) = n
    BY <1>2 DEF CreateTicket, TablesSound, TicketsSound
  <2>2. QED
    BY <2>1, Added
<1>4. \A s \in 1..(n + 1) : s \in 1..n \/ s = n + 1
  BY <1>1, SMT
<1>5. TicketsSound'
  <2>1. \A s \in 1..(n + 1) : tickets'[s] \in ticketSeen'[s]
    BY <1>1, <1>2, <1>3, <1>4 DEF TablesSound, TicketsSound
  <2>2. \A s \in 1..(n + 1) : \A seenRow \in ticketSeen'[s] : Agrees(seenRow)
    BY <1>2, <1>3, <1>4 DEF TablesSound, TicketsSound
  <2>3. QED
    BY <1>1, <1>3, <2>1, <2>2 DEF TicketsSound
<1>6. Kept
  BY <1>1, TablesStay DEF Kept, Grown, TicketsKept, ReceivedStay
<1>7. MessagesSound' /\ MailsSound' /\ RecordSound'
  BY <1>6, MessagesSoundKept, MailsSoundKept, RecordSame DEF Kept, Grown, TicketsKept
<1>8. PaperclipsSound'
  BY <1>1, <1>4 DEF TablesSound, PaperclipsSound
<1>9. QED
  BY <1>1, <1>5, <1>6, <1>7, <1>8 DEF TablesSound

\* A message is created: not sent yet, without files, and in a thread of its
\* ticket unless it is one received.
LEMMA MessageCreated ==
  ASSUME TablesSound, NEW row \in TicketMessage, CreateTicketMessage(row),
         row.ticket \in 1..Len(tickets), row.rfc = None, ~row.attachments,
         row.kind # "inbound" =>
            \A id \in Range(row.references) : Known(id, row.ticket, messages, mails),
         UNCHANGED <<tickets, ticketSeen, mails, reported>>
  PROVE  /\ TablesSound' /\ Grown
         /\ (row.kind = "inbound" => row.references = <<>>) => Kept
         /\ Len(messages') = Len(messages) + 1 /\ Len(messages) \in Nat
         /\ \A m \in 1..Len(messages) : messages'[m] = messages[m]
         /\ messages'[Len(messages) + 1] = row
<1> DEFINE n == Len(messages)
<1>1. /\ messages' \in Seq(TicketMessage) /\ Len(messages') = n + 1 /\ n \in Nat
      /\ Longer(messages, messages')
      /\ \A m \in 1..n : messages'[m] = messages[m]
      /\ messages'[n + 1] = row
  <2>1. messages' = Append(messages, row) /\ messages \in Seq(TicketMessage)
    BY DEF CreateTicketMessage, TablesSound, MessagesSound
  <2>2. QED
    BY <2>1, Added DEF Longer
<1>2. \A m \in 1..(n + 1) : m \in 1..n \/ m = n + 1
  BY <1>1, SMT
<1>3. Grown
  <2>1. MessagesKept(messages, messages')
    BY <1>1 DEF MessagesKept
  <2>2. QED
    BY <2>1, TablesStay DEF Grown
<1>4. TicketsSound'
  BY DEF TablesSound, TicketsSound
<1>5. MailsSound'
  BY <1>3, MailsSoundKept DEF Grown, TicketsKept
<1>6. MessagesSound'
  <2>1. ASSUME NEW m \in 1..(n + 1)
        PROVE  /\ messages'[m].ticket \in 1..Len(tickets)
               /\ messages'[m].rfc \in (IF messages'[m].kind = "inbound" THEN Incoming
                                        ELSE 1..Len(mails)) \cup {None}
               /\ \/ \A id \in Range(messages'[m].references) :
                        Known(id, messages'[m].ticket, messages, mails)
                  \/ m = n + 1 /\ messages'[m].kind = "inbound"
    BY <1>1, <1>2 DEF TablesSound, MessagesSound
  <2>2. ASSUME NEW m \in 1..(n + 1), NEW id \in Range(messages'[m].references)
        PROVE  Known(id, messages'[m].ticket, messages', mails')
    <3>1. CASE Known(id, messages'[m].ticket, messages, mails)
      BY <1>3, <3>1, KnownKept DEF Grown
    <3>2. CASE m = n + 1 /\ messages'[m].kind = "inbound"
      BY <1>1, <3>2 DEF Known, Heard
    <3>3. QED
      BY <2>1, <3>1, <3>2
  <2>3. QED
    BY <1>1, <2>1, <2>2 DEF MessagesSound
<1>7. RecordSound'
  <2>1. ASSUME NEW i \in 1..Len(mails), mails[i].message # 0
        PROVE  messages'[mails[i].message] = messages[mails[i].message]
    <3>1. mails[i].message \in 1..n
      BY <1>1, <2>1, SMT DEF TablesSound, MailsSound
    <3>2. QED
      BY <1>1, <3>1
  <2>2. \A i \in 1..Len(mails) : mails[i].message # 0 =>
          SentAs(mails[i], messages'[mails[i].message]) /\ OneSend(i, mails)
    BY <2>1 DEF TablesSound, RecordSound
  <2>3. ASSUME NEW m \in 1..(n + 1), messages'[m].kind # "inbound", messages'[m].rfc # None
        PROVE  StampedAs(m, mails[messages[m].rfc])'
    <3>1. m \in 1..n /\ messages'[m] = messages[m]
      BY <1>1, <1>2, <2>3
    <3>2. StampedAs(m, mails[messages[m].rfc])
      BY <2>3, <3>1 DEF TablesSound, RecordSound
    <3>3. QED
      BY <3>1, <3>2 DEF StampedAs
  <2>4. /\ reported \subseteq 1..(n + 1)
        /\ \A m \in reported : messages'[m].kind = "reply" /\ messages'[m].rfc # None
    <3>1. 1..n \subseteq 1..(n + 1)
      BY <1>1, SMT
    <3>2. QED
      BY <1>1, <3>1 DEF TablesSound, RecordSound
  <2>5. QED
    BY <1>1, <2>2, <2>3, <2>4 DEF RecordSound
<1>8. PaperclipsSound'
  <2>1. ASSUME NEW t \in 1..Len(tickets), tickets[t].hasAttachments
        PROVE  \E m \in 1..(n + 1) : messages'[m].ticket = t /\ messages'[m].attachments
    <3>1. PICK m \in 1..n : messages[m].ticket = t /\ messages[m].attachments
      BY <2>1 DEF TablesSound, PaperclipsSound
    <3>2. m \in 1..(n + 1)
      BY <1>1, SMT
    <3>3. QED
      BY <1>1, <3>1, <3>2
  <2>2. QED
    BY <1>1, <2>1 DEF PaperclipsSound
<1>9. (row.kind = "inbound" => row.references = <<>>) => Kept
  BY <1>1, <1>2, <1>3, SMT DEF Kept, ReceivedStay
<1>10. QED
  BY <1>1, <1>3, <1>4, <1>5, <1>6, <1>7, <1>8, <1>9 DEF TablesSound

\* A message row is written that keeps what others refer to, and the references.
LEMMA MessageWritten ==
  ASSUME TablesSound, NEW k \in 1..Len(messages), NEW row \in TicketMessage,
         messages' = [messages EXCEPT ![k] = row],
         row.ticket = messages[k].ticket, row.kind = messages[k].kind,
         row.to = messages[k].to, row.cc = messages[k].cc,
         row.references = messages[k].references,
         messages[k].attachments => row.attachments,
         messages[k].rfc \in Incoming => row.rfc = messages[k].rfc,
         row.rfc \in (IF row.kind = "inbound" THEN Incoming ELSE 1..Len(mails)) \cup {None},
         UNCHANGED <<tickets, ticketSeen, mails>>
  PROVE  /\ TicketsSound' /\ MessagesSound' /\ MailsSound' /\ Grown
         /\ Len(messages') = Len(messages)
         /\ \A m \in 1..Len(messages) : messages'[m] = IF m = k THEN row ELSE messages[m]
<1>1. /\ messages' \in Seq(TicketMessage) /\ Len(messages') = Len(messages)
      /\ Longer(messages, messages')
      /\ \A m \in 1..Len(messages) : messages'[m] = IF m = k THEN row ELSE messages[m]
  <2>1. messages \in Seq(TicketMessage)
    BY DEF TablesSound, MessagesSound
  <2>2. QED
    BY <2>1, Replaced DEF Longer
<1>2. Grown
  <2>1. MessagesKept(messages, messages')
    BY <1>1 DEF MessagesKept
  <2>2. QED
    BY <2>1, TablesStay DEF Grown, TicketsKept
<1>3. TicketsSound'
  BY DEF TablesSound, TicketsSound
<1>4. MailsSound'
  BY <1>2, MailsSoundKept DEF Grown, TicketsKept
<1>5. MessagesSound'
  <2>1. ASSUME NEW m \in 1..Len(messages)
        PROVE  /\ messages'[m].ticket \in 1..Len(tickets)
               /\ messages'[m].rfc \in (IF messages'[m].kind = "inbound" THEN Incoming
                                        ELSE 1..Len(mails)) \cup {None}
               /\ \A id \in Range(messages'[m].references) :
                    Known(id, messages'[m].ticket, messages, mails)
    BY <1>1, ZenonT(60) DEF TablesSound, MessagesSound
  <2>2. \A m \in 1..Len(messages) : \A id \in Range(messages'[m].references) :
           Known(id, messages'[m].ticket, messages', mails')
    BY <1>2, <2>1, KnownKept, SMTT(60) DEF Grown, TicketsKept
  <2>3. QED
    BY <1>1, <2>1, <2>2 DEF MessagesSound
<1>6. QED
  BY <1>1, <1>2, <1>3, <1>4, <1>5

\* A row that says what was sent is stamped with the Message-ID of a mail that
\* is just what it says, and may then be reported.
LEMMA MessageStamped ==
  ASSUME TablesSound, NEW k \in 1..Len(messages), NEW rfc \in 1..Len(mails),
         SetRfcMessageId(k, rfc), messages[k].kind # "inbound", StampedAs(k, mails[rfc]),
         reported' = reported \/ (messages[k].kind = "reply" /\ reported' = reported \cup {k}),
         UNCHANGED <<tickets, ticketSeen, mails>>
  PROVE  TablesSound' /\ Kept /\ Len(messages') = Len(messages)
<1>1. PICK row \in TicketMessage : row = [messages[k] EXCEPT !.rfc = rfc]
  <2>1. messages[k] \in TicketMessage /\ rfc \in Nat
    BY RowsTyped, SMT
  <2>2. [messages[k] EXCEPT !.rfc = rfc] \in TicketMessage
    BY <2>1, SMT DEF TicketMessage, MessageId
  <2>3. QED
    BY <2>2
<1>2. /\ row.ticket = messages[k].ticket /\ row.kind = messages[k].kind
      /\ row.to = messages[k].to /\ row.cc = messages[k].cc
      /\ row.references = messages[k].references
      /\ row.attachments = messages[k].attachments
      /\ row.rfc = rfc
  <2>1. messages[k] \in TicketMessage
    BY RowsTyped
  <2>2. QED
    BY <1>1, <2>1, SMT DEF TicketMessage
<1>3. messages[k].rfc \notin Incoming
  <2>1. messages[k].rfc \in 1..Len(mails) \cup {None}
    BY DEF TablesSound, MessagesSound
  <2>2. 1..Len(mails) \subseteq Nat
    BY RowsTyped, SMT
  <2>3. QED
    BY <2>1, <2>2, IncomingAssumption
<1>4. messages' = [messages EXCEPT ![k] = row]
  BY <1>1, Zenon DEF SetRfcMessageId
<1>5. /\ TicketsSound' /\ MessagesSound' /\ MailsSound' /\ Grown
      /\ Len(messages') = Len(messages)
      /\ \A m \in 1..Len(messages) : messages'[m] = IF m = k THEN row ELSE messages[m]
  BY <1>2, <1>3, <1>4, MessageWritten
<1>6. \A m \in 1..Len(messages) :
        /\ messages'[m].ticket = messages[m].ticket /\ messages'[m].kind = messages[m].kind
        /\ messages'[m].to = messages[m].to /\ messages'[m].cc = messages[m].cc
  BY <1>2, <1>5
<1>7. RecordSound'
  <2>1. \A i \in 1..Len(mails) : mails[i].message # 0 =>
          SentAs(mails[i], messages'[mails[i].message]) /\ OneSend(i, mails)
    <3>1. ASSUME NEW i \in 1..Len(mails), mails[i].message # 0
          PROVE  /\ mails[i].message \in 1..Len(messages)
                 /\ SentAs(mails[i], messages[mails[i].message]) /\ OneSend(i, mails)
      <4>1. mails[i].message \in 1..Len(messages)
        BY <3>1, RowsTyped, SMT DEF TablesSound, MailsSound
      <4>2. QED
        BY <3>1, <4>1 DEF TablesSound, RecordSound
    <3>2. QED
      BY <1>6, <3>1 DEF SentAs
  <2>2. ASSUME NEW m \in 1..Len(messages), messages'[m].kind # "inbound", messages'[m].rfc # None
        PROVE  StampedAs(m, mails[messages[m].rfc])'
    <3>1. CASE m = k
      BY <1>2, <1>5, <3>1 DEF StampedAs
    <3>2. CASE m # k
      <4>1. messages'[m] = messages[m]
        BY <1>5, <3>2
      <4>2. StampedAs(m, mails[messages[m].rfc])
        BY <2>2, <4>1 DEF TablesSound, RecordSound
      <4>3. QED
        BY <4>1, <4>2 DEF StampedAs
    <3>3. QED
      BY <3>1, <3>2
  <2>3. /\ reported' \subseteq 1..Len(messages)
        /\ \A m \in reported' : messages'[m].kind = "reply" /\ messages'[m].rfc # None
    <3>1. rfc # None
      BY IncomingAssumption, RowsTyped, SMT
    <3>2. /\ reported \subseteq 1..Len(messages)
          /\ \A m \in reported : messages[m].kind = "reply" /\ messages[m].rfc # None
      BY DEF TablesSound, RecordSound
    <3>3. reported' \subseteq reported \cup {k} /\ (k \in reported' => messages[k].kind = "reply")
      BY <3>2
    <3>4. QED
      BY <1>2, <1>5, <3>1, <3>2, <3>3
  <2>4. QED
    BY <1>5, <2>1, <2>2, <2>3 DEF RecordSound
<1>8. PaperclipsSound'
  BY <1>2, <1>5, SMTT(60) DEF TablesSound, PaperclipsSound
<1>9. Kept
  BY <1>2, <1>5 DEF Kept, ReceivedStay
<1>10. QED
  BY <1>5, <1>7, <1>8, <1>9 DEF TablesSound

\* A row gets its files.
LEMMA FilesAttached ==
  ASSUME TablesSound, NEW k \in 1..Len(messages), SetAttachments(k),
         UNCHANGED <<tickets, ticketSeen, mails, reported>>
  PROVE  /\ TablesSound' /\ Kept /\ Len(messages') = Len(messages)
         /\ messages'[k].attachments
<1>1. PICK row \in TicketMessage : row = [messages[k] EXCEPT !.attachments = TRUE]
  <2>1. messages[k] \in TicketMessage
    BY RowsTyped
  <2>2. [messages[k] EXCEPT !.attachments = TRUE] \in TicketMessage
    BY <2>1, Zenon DEF TicketMessage
  <2>3. QED
    BY <2>2
<1>2. /\ row.ticket = messages[k].ticket /\ row.kind = messages[k].kind
      /\ row.to = messages[k].to /\ row.cc = messages[k].cc
      /\ row.references = messages[k].references
      /\ row.rfc = messages[k].rfc
      /\ row.attachments
  <2>1. messages[k] \in TicketMessage
    BY RowsTyped
  <2>2. /\ row.ticket = messages[k].ticket /\ row.kind = messages[k].kind
        /\ row.to = messages[k].to /\ row.cc = messages[k].cc
        /\ row.references = messages[k].references
        /\ row.rfc = messages[k].rfc
    BY <1>1, <2>1, SMT DEF TicketMessage
  <2>3. row.attachments
    BY <1>1, <2>1, Zenon DEF TicketMessage
  <2>4. QED
    BY <2>2, <2>3
<1>3. messages' = [messages EXCEPT ![k] = row]
  BY <1>1, Zenon DEF SetAttachments
<1>4. row.rfc \in (IF row.kind = "inbound" THEN Incoming ELSE 1..Len(mails)) \cup {None}
  BY <1>2 DEF TablesSound, MessagesSound
<1>5. /\ TicketsSound' /\ MessagesSound' /\ MailsSound' /\ Grown
      /\ Len(messages') = Len(messages)
      /\ \A m \in 1..Len(messages) : messages'[m] = IF m = k THEN row ELSE messages[m]
  BY <1>2, <1>3, <1>4, MessageWritten
<1>6. \A m \in 1..Len(messages) :
        /\ messages'[m].ticket = messages[m].ticket /\ messages'[m].kind = messages[m].kind
        /\ messages'[m].to = messages[m].to /\ messages'[m].cc = messages[m].cc
        /\ messages'[m].rfc = messages[m].rfc
        /\ messages[m].attachments => messages'[m].attachments
  BY <1>2, <1>5
<1>7. RecordSound'
  <2>1. \A i \in 1..Len(mails) : mails[i].message # 0 =>
          SentAs(mails[i], messages'[mails[i].message]) /\ OneSend(i, mails)
    <3>1. ASSUME NEW i \in 1..Len(mails), mails[i].message # 0
          PROVE  /\ mails[i].message \in 1..Len(messages)
                 /\ SentAs(mails[i], messages[mails[i].message]) /\ OneSend(i, mails)
      <4>1. mails[i].message \in 1..Len(messages)
        BY <3>1, RowsTyped, SMT DEF TablesSound, MailsSound
      <4>2. QED
        BY <3>1, <4>1 DEF TablesSound, RecordSound
    <3>2. QED
      BY <1>6, <3>1 DEF SentAs
  <2>2. ASSUME NEW m \in 1..Len(messages), messages'[m].kind # "inbound", messages'[m].rfc # None
        PROVE  StampedAs(m, mails[messages[m].rfc])'
    <3>1. StampedAs(m, mails[messages[m].rfc])
      BY <1>6, <2>2 DEF TablesSound, RecordSound
    <3>2. QED
      BY <1>6, <3>1 DEF StampedAs
  <2>3. /\ reported \subseteq 1..Len(messages)
        /\ \A m \in reported : messages'[m].kind = "reply" /\ messages'[m].rfc # None
    BY <1>6 DEF TablesSound, RecordSound
  <2>4. QED
    BY <1>5, <2>1, <2>2, <2>3 DEF RecordSound
<1>8. PaperclipsSound'
  BY <1>5, <1>6, SMTT(60) DEF TablesSound, PaperclipsSound
<1>9. Kept
  BY <1>2, <1>5 DEF Kept, ReceivedStay
<1>10. QED
  BY <1>2, <1>5, <1>7, <1>8, <1>9 DEF TablesSound

\* A mail is accepted k times: those there were stay, and these are its attempts.
Attempted(mail, k) ==
    /\ mails' \in Seq(Mail) /\ Len(mails') = Len(mails) + k
    /\ \A i \in 1..Len(mails) : mails'[i] = mails[i]
    /\ \A i \in (Len(mails) + 1)..(Len(mails) + k) :
        /\ mails'[i].ticket = mail.ticket /\ mails'[i].message = mail.message
        /\ mails'[i].envelope = mail.envelope /\ mails'[i].attempt = i - Len(mails)

\* It is of a ticket there is, in its thread, and if it is for a row, of the first
\* send and just as the row says.
LEMMA MailSent ==
  ASSUME TablesSound, NEW mail \in Mail, NEW k \in 1..Attempts, Attempted(mail, k),
         mail.ticket \in 1..Len(tickets), mail.message \in 0..Len(messages),
         \A id \in Named(mail.envelope) : Known(id, mail.ticket, messages, mails),
         Match(Routes, mail.envelope.replyTo) # None,
         mail.message # 0 => /\ SentAs(mail, messages[mail.message])
                             /\ \A j \in 1..Len(mails) : mails[j].message # mail.message,
         UNCHANGED <<tickets, ticketSeen, messages, reported>>
  PROVE  /\ TablesSound' /\ Kept /\ Len(mails') \in Nat
         /\ \A i \in 1..Len(mails') : i \in 1..Len(mails) \/ mails'[i].message = mail.message
         /\ \A i \in 1..Len(mails) : mails'[i] = mails[i]
         /\ Len(mails') \in 1..Len(mails')
         /\ mails'[Len(mails')].ticket = mail.ticket
         /\ mails'[Len(mails')].message = mail.message
         /\ mails'[Len(mails')].envelope = mail.envelope
<1> DEFINE n == Len(mails)
<1>1. n \in Nat /\ k \in Nat /\ k >= 1 /\ k \in 1..Attempts /\ Attempts \in Nat
  BY AttemptsAssumption, RowsTyped
<1>2. /\ mails' \in Seq(Mail) /\ Len(mails') = n + k
      /\ \A i \in 1..n : mails'[i] = mails[i]
      /\ \A i \in (n + 1)..(n + k) :
            /\ mails'[i].ticket = mail.ticket /\ mails'[i].message = mail.message
            /\ mails'[i].envelope = mail.envelope /\ mails'[i].attempt = i - n
  BY DEF Attempted
<1>3. \A i \in 1..(n + k) : i \in 1..n \/ i \in (n + 1)..(n + k)
  BY <1>1, SMT
<1>4. Kept
  <2>1. Longer(mails, mails')
    BY <1>1, <1>2, SMT DEF Longer
  <2>2. MailsKept(mails, mails')
    BY <1>2, <2>1 DEF MailsKept
  <2>3. QED
    BY <2>2, TablesStay DEF Kept, Grown, ReceivedStay
<1>5. TicketsSound'
  BY DEF TablesSound, TicketsSound
<1>6. MessagesSound'
  BY <1>4, MessagesSoundKept DEF Kept, Grown, TicketsKept
<1>7. MailsSound'
  <2>1. ASSUME NEW i \in 1..(n + k)
        PROVE  /\ mails'[i].ticket \in 1..Len(tickets)
               /\ mails'[i].message \in 0..Len(messages)
               /\ \A id \in Named(mails'[i].envelope) :
                    Known(id, mails'[i].ticket, messages, mails)
               /\ Match(Routes, mails'[i].envelope.replyTo) # None
    <3>1. CASE i \in 1..n
      BY <1>2, <3>1 DEF TablesSound, MailsSound
    <3>2. CASE i \in (n + 1)..(n + k)
      BY <1>2, <3>2
    <3>3. QED
      BY <1>3, <3>1, <3>2
  <2>2. ASSUME NEW i \in 1..(n + k), NEW id \in Named(mails'[i].envelope), id \in Nat
        PROVE  id < i \/ Heard(id, mails'[i].ticket, messages)
    <3>1. CASE i \in 1..n
      BY <1>2, <2>2, <3>1 DEF TablesSound, MailsSound
    <3>2. CASE i \in (n + 1)..(n + k)
      <4>1. Known(id, mail.ticket, messages, mails)
        BY <1>2, <2>2, <3>2
      <4>2. id \in 1..n \/ Heard(id, mail.ticket, messages)
        BY <2>2, <4>1, IncomingAssumption DEF Known
      <4>3. id \in 1..n => id < i
        BY <1>1, <3>2, SMT
      <4>4. QED
        BY <1>2, <3>2, <4>2, <4>3
    <3>3. QED
      BY <1>3, <3>1, <3>2
  <2>3. ASSUME NEW i \in 1..(n + k), NEW id \in Named(mails'[i].envelope)
        PROVE  Known(id, mails'[i].ticket, messages', mails')
    <3>1. MessagesKept(messages, messages') /\ MailsKept(mails, mails')
      BY <1>4 DEF Kept, Grown
    <3>2. Known(id, mails'[i].ticket, messages, mails)
      BY <2>1
    <3>3. QED
      BY <3>1, <3>2, KnownKept
  <2>4. QED
    BY <1>2, <2>1, <2>2, <2>3 DEF MailsSound
<1>8. RecordSound'
  <2>1. ASSUME NEW i \in 1..(n + k), mails'[i].message # 0
        PROVE  SentAs(mails'[i], messages[mails'[i].message]) /\ OneSend(i, mails')
    <3>1. CASE i \in 1..n
      <4>1. /\ SentAs(mails[i], messages[mails[i].message]) /\ OneSend(i, mails)
            /\ mails'[i] = mails[i]
        BY <1>2, <2>1, <3>1 DEF TablesSound, RecordSound
      <4>2. ASSUME NEW j \in 1..(n + k), mails'[j].message = mails'[i].message
            PROVE  j \in 1..n /\ mails'[j] = mails[j]
        BY <1>2, <1>3, <2>1, <3>1, <4>2
      <4>3. OneSend(i, mails')
        BY <1>2, <4>1, <4>2 DEF OneSend
      <4>4. QED
        BY <4>1, <4>3
    <3>2. CASE i \in (n + 1)..(n + k)
      <4>1. SentAs(mails'[i], messages[mails'[i].message])
        BY <1>2, <2>1, <3>2 DEF SentAs
      <4>2. mails'[i].attempt \in 1..Attempts
        <5>1. mails'[i].attempt = i - n
          BY <1>2, <3>2
        <5>2. QED
          BY <1>1, <3>2, <5>1, SMT
      <4>3. ASSUME NEW j \in 1..(n + k), mails'[j].message = mails'[i].message
            PROVE  /\ mails'[j].envelope = mails'[i].envelope
                   /\ mails'[j].attempt = mails'[i].attempt => j = i
        <5>1. j \in (n + 1)..(n + k)
          BY <1>2, <1>3, <2>1, <3>2, <4>3
        <5>2. /\ mails'[j].envelope = mails'[i].envelope
              /\ mails'[j].attempt = j - n /\ mails'[i].attempt = i - n
          BY <1>2, <3>2, <5>1
        <5>3. QED
          BY <1>1, <3>2, <5>1, <5>2, SMT
      <4>4. QED
        BY <1>2, <4>1, <4>2, <4>3 DEF OneSend
    <3>3. QED
      BY <1>3, <3>1, <3>2
  <2>2. ASSUME NEW m \in 1..Len(messages), messages[m].kind # "inbound", messages[m].rfc # None
        PROVE  StampedAs(m, mails'[messages[m].rfc])
    <3>1. messages[m].rfc \in 1..n
      BY <2>2 DEF TablesSound, MessagesSound
    <3>2. QED
      BY <1>2, <2>2, <3>1 DEF TablesSound, RecordSound
  <2>3. QED
    BY <1>2, <2>1, <2>2, ZenonT(60) DEF TablesSound, RecordSound, SentAs, StampedAs
<1>9. PaperclipsSound'
  BY DEF TablesSound, PaperclipsSound
<1>10. Len(mails') \in Nat /\ Len(mails') \in (n + 1)..(n + k) /\ Len(mails') \in 1..Len(mails')
  BY <1>1, <1>2, SMT
<1>11. QED
  BY <1>2, <1>3, <1>4, <1>5, <1>6, <1>7, <1>8, <1>9, <1>10 DEF TablesSound

-----------------------------------------------------------------------------
(* What a resolver holds.                                                  *)

\* A resolver that has not begun, or has returned, refers to nothing.
LEMMA IdleIsReady ==
  ASSUME NEW n, NEW ms, NEW xs
  PROVE  Idle \in Request /\ Idle.step = "idle" /\ Ready(Idle, n, ms, xs)
<1>1. Idle \in Request
  <2>1. NoThreading \in [inReplyTo : MessageId \cup {None}, references : Seq(MessageId)]
    BY NothingNamed
  <2>2. QED
    BY <2>1, Zenon DEF Idle, Request, Steps, Statuses, Event
<1>2. Idle.step = "idle" /\ Idle.threading = NoThreading
  BY DEF Idle
<1>3. QED
  BY <1>1, <1>2, NothingNamed
  DEF Ready, Listing, Authored, Unsent, Written, ToSend

\* A resolver goes to another step and keeps everything else.
LEMMA Stepped ==
  ASSUME NEW q \in Request, NEW s \in Steps, NEW p, p = [q EXCEPT !.step = s]
  PROVE  /\ p \in Request /\ p.step = s
         /\ p.actor = q.actor /\ p.ticket = q.ticket /\ p.row = q.row /\ p.status = q.status
         /\ p.assignee = q.assignee /\ p.email = q.email /\ p.attach = q.attach
         /\ p.threading = q.threading /\ p.message = q.message /\ p.rfc = q.rfc
         /\ p.event = q.event
BY SMT DEF Request

\* What a resolver holds of a ticket it has read.
LEMMA AboutIsRequest ==
  ASSUME NEW u \in Users \cup Address \cup {Nobody}, NEW t \in Nat, NEW row \in Ticket,
         NEW s \in Steps, NEW p, p = About(u, t, row, s)
  PROVE  /\ p \in Request /\ p.step = s /\ p.actor = u /\ p.ticket = t /\ p.row = row
         /\ p.threading = NoThreading /\ p.message = 0
<1>1. Idle \in Request
  BY IdleIsReady
<1>2. PICK a \in Request : a = [Idle EXCEPT !.step = s]
  BY <1>1, Stepped
<1>3. PICK b \in Request : b = [a EXCEPT !.actor = u]
  <2>1. [a EXCEPT !.actor = u] \in Request
    BY SMT DEF Request
  <2>2. QED
    BY <2>1
<1>4. PICK c \in Request : c = [b EXCEPT !.ticket = t]
  <2>1. [b EXCEPT !.ticket = t] \in Request
    BY ZenonT(60) DEF Request
  <2>2. QED
    BY <2>1
<1>5. PICK d \in Request : d = [c EXCEPT !.row = row]
  <2>1. [c EXCEPT !.row = row] \in Request
    BY ZenonT(60) DEF Request
  <2>2. QED
    BY <2>1
<1>6. p = d
  BY <1>2, <1>3, <1>4, <1>5, Zenon DEF About
<1>7. a.step = s /\ a.threading = NoThreading /\ a.message = 0
  BY <1>2 DEF Idle
<1>8. b.actor = u /\ b.step = s /\ b.threading = NoThreading /\ b.message = 0
  BY <1>3, <1>7, SMT DEF Request
<1>9. c.ticket = t /\ c.actor = u /\ c.step = s /\ c.threading = NoThreading /\ c.message = 0
  BY <1>4, <1>8, SMT DEF Request
<1>10. /\ d.row = row /\ d.ticket = t /\ d.actor = u /\ d.step = s
       /\ d.threading = NoThreading /\ d.message = 0
  BY <1>5, <1>9, Zenon DEF Request
<1>11. QED
  BY <1>6, <1>10

\* A resolver that has nothing written that it must come back to.
LEMMA EarlyReady ==
  ASSUME NEW n, NEW ms, NEW xs, NEW q,
         q.step \in {"setStatus", "assign", "noticeSend", "notify"},
         q.ticket \in 1..n, q.row \in Ticket,
         \A id \in Named(q.threading) : Known(id, q.ticket, ms, xs),
         q.step \in {"setStatus", "noticeSend"} => q.message = 0
  PROVE  Ready(q, n, ms, xs)
BY DEF Ready, Listing, Authored, Unsent, Written, ToSend

-----------------------------------------------------------------------------
(* A resolver goes on.                                                     *)

\* What one resolver's step must show: the tables are sound and kept, it refers to
\* rows there are, replies stay apart and numbers stay each one's own.
LEMMA GoesOn ==
  ASSUME Consistent, NEW r \in Requests, NEW q \in Request,
         requests' = [requests EXCEPT ![r] = q],
         TablesSound', Kept, Ready(q, Len(tickets'), messages', mails'),
         RepliesApart', NumbersHandedOut', FreeStays, UNCHANGED <<notices, settings>>
  PROVE  Onward
<1>1. RequestsReady'
  BY OneGoesOn DEF Consistent
<1>2. SettingsTyped' /\ NoticesConcernTheReader'
  BY DEF Consistent, SettingsTyped, NoticesConcernTheReader
<1>3. QED
  BY <1>1, <1>2 DEF Consistent, Onward

\* It creates no ticket, takes no number and sends nothing.
LEMMA GoesOnQuietly ==
  ASSUME Consistent, NEW r \in Requests, NEW q \in Request,
         requests' = [requests EXCEPT ![r] = q],
         TablesSound', Kept, Ready(q, Len(tickets'), messages', mails'),
         q.step # "submitCreate",
         q.step \in Written => requests[r].step \in Written /\ q.message = requests[r].message,
         q.step \in ToSend => requests[r].step \in ToSend,
         Len(tickets') = Len(tickets),
         \A t \in 1..Len(tickets) : /\ tickets'[t].instance = tickets[t].instance
                                    /\ tickets'[t].number = tickets[t].number,
         UNCHANGED <<lastNumber, mails, notices, settings>>
  PROVE  Onward
<1>1. RepliesApart'
  BY ApartStays DEF Consistent
<1>2. NumbersHandedOut' /\ FreeStays
  BY NumbersStay DEF Consistent
<1>3. QED
  BY <1>1, <1>2, GoesOn

\* It only reads.
LEMMA Reads ==
  ASSUME Consistent, NEW r \in Requests, NEW q \in Request,
         requests' = [requests EXCEPT ![r] = q],
         Ready(q, Len(tickets), messages, mails),
         q.step \notin Written \cup {"submitCreate"},
         UNCHANGED <<rows, sent, settings, reported>>
  PROVE  Onward
<1>1. TablesSound' /\ Kept
  BY TablesLeft DEF Consistent, rows, sent
<1>2. Ready(q, Len(tickets'), messages', mails')
  BY DEF rows, sent
<1>3. ToSend \subseteq Written
  BY DEF Written
<1>4. QED
  BY <1>1, <1>2, <1>3, GoesOnQuietly DEF rows, sent

\* The resolver in flight, as it is.
LEMMA InFlight ==
  ASSUME Consistent, NEW r \in Requests
  PROVE  requests[r] \in Request /\ Ready(requests[r], Len(tickets), messages, mails)
BY DEF Consistent, RequestsReady

\* The row a member's request read is a row the ticket has had.
LEMMA RowRead ==
  ASSUME Consistent, NEW u, NEW t \in DOMAIN tickets, NEW row \in TicketRead(u, t)
  PROVE  t \in 1..Len(tickets) /\ t \in Nat /\ row \in Ticket
<1>1. DOMAIN tickets = 1..Len(tickets)
  BY LenProperties DEF Consistent, TablesSound, TicketsSound
<1>2. ticketSeen[t] \in SUBSET Ticket /\ t \in 1..Len(tickets)
  BY <1>1, RowsTyped DEF Consistent
<1>3. QED
  BY <1>2, SMT DEF TicketRead

-----------------------------------------------------------------------------
(* The reads.                                                              *)

\* A resolver begins by reading, and holds what it read.
LEMMA BeginReads ==
  ASSUME Consistent, NEW r \in Requests, NEW q \in Request, NEW op, Begin(r, op, q),
         Ready(q, Len(tickets), messages, mails),
         q.step \notin Written \cup {"submitCreate"},
         UNCHANGED <<rows, sent, settings, reported>>
  PROVE  Onward
BY Reads DEF Begin

\* require_ticket_member: what a resolver holds of a ticket its caller may see.
LEMMA MemberRead ==
  ASSUME Consistent, NEW r \in Requests, NEW u \in Users, NEW t \in DOMAIN tickets,
         NEW row \in TicketRead(u, t), NEW s \in Steps, NEW p, p = About(u, t, row, s)
  PROVE  /\ p \in Request /\ p.step = s /\ p.actor = u /\ p.ticket = t /\ p.row = row
         /\ p.threading = NoThreading /\ p.message = 0
         /\ t \in 1..Len(tickets) /\ row \in Ticket
BY RowRead, AboutIsRequest

\* Nothing is named without a threading.
LEMMA NothingToKnow ==
  ASSUME NEW q, q.threading = NoThreading, NEW t, NEW ms, NEW xs
  PROVE  \A id \in Named(q.threading) : Known(id, t, ms, xs)
BY NothingNamed

\* setTicketStatus reads the ticket.
LEMMA SetTicketStatusReadConsistent ==
  ASSUME Consistent, NEW r \in Requests, NEW u \in Users, NEW t \in DOMAIN tickets,
         NEW status \in Statuses, SetTicketStatusRead(r, u, t, status)
  PROVE  Onward
<1>1. PICK row \in TicketRead(u, t) :
        /\ Begin(r, "setTicketStatus", [About(u, t, row, "setStatus") EXCEPT !.status = status])
        /\ UNCHANGED <<rows, sent, settings, reported>>
  BY DEF SetTicketStatusRead
<1>2. PICK p : p = About(u, t, row, "setStatus")
  OBVIOUS
<1>3. "setStatus" \in Steps
  BY DEF Steps
<1>4. /\ p \in Request /\ p.step = "setStatus" /\ p.ticket = t /\ p.row = row
      /\ p.threading = NoThreading /\ p.message = 0
      /\ t \in 1..Len(tickets) /\ row \in Ticket
  BY <1>2, <1>3, MemberRead
<1>5. PICK q : q = [p EXCEPT !.status = status]
  OBVIOUS
<1>6. /\ q \in Request /\ q.step = "setStatus" /\ q.ticket = t /\ q.row = row
      /\ q.threading = NoThreading /\ q.message = 0
  BY <1>4, <1>5, Zenon DEF Request
<1>7. Ready(q, Len(tickets), messages, mails)
  BY <1>4, <1>6, EarlyReady, NothingToKnow
<1>8. Begin(r, "setTicketStatus", q)
  BY <1>1, <1>2, <1>5
<1>9. q.step \notin Written \cup {"submitCreate"}
  BY <1>6 DEF Written, ToSend
<1>10. QED
  BY <1>1, <1>6, <1>7, <1>8, <1>9, BeginReads

\* assignTicket reads the ticket.
LEMMA AssignTicketReadConsistent ==
  ASSUME Consistent, NEW r \in Requests, NEW u \in Users, NEW t \in DOMAIN tickets,
         NEW assignee \in Users \cup {Nobody}, AssignTicketRead(r, u, t, assignee)
  PROVE  Onward
<1>1. PICK row \in TicketRead(u, t) :
        /\ Begin(r, "assignTicket", [About(u, t, row, "assign") EXCEPT !.assignee = assignee])
        /\ UNCHANGED <<rows, sent, settings, reported>>
  BY DEF AssignTicketRead
<1>2. PICK p : p = About(u, t, row, "assign")
  OBVIOUS
<1>3. "assign" \in Steps
  BY DEF Steps
<1>4. /\ p \in Request /\ p.step = "assign" /\ p.ticket = t /\ p.row = row
      /\ p.threading = NoThreading
      /\ t \in 1..Len(tickets) /\ row \in Ticket
  BY <1>2, <1>3, MemberRead
<1>5. PICK q : q = [p EXCEPT !.assignee = assignee]
  OBVIOUS
<1>6. /\ q \in Request /\ q.step = "assign" /\ q.ticket = t /\ q.row = row
      /\ q.threading = NoThreading
  BY <1>4, <1>5, Zenon DEF Request
<1>7. Ready(q, Len(tickets), messages, mails)
  BY <1>4, <1>6, EarlyReady, NothingToKnow
<1>8. Begin(r, "assignTicket", q)
  BY <1>1, <1>2, <1>5
<1>9. q.step \notin Written \cup {"submitCreate"}
  BY <1>6 DEF Written, ToSend
<1>10. QED
  BY <1>1, <1>6, <1>7, <1>8, <1>9, BeginReads

\* A change of a list, with the address it is about.
LEMMA ListEditBegins ==
  ASSUME Consistent, NEW r \in Requests, NEW u \in Users, NEW t \in DOMAIN tickets,
         NEW row \in TicketRead(u, t), NEW op, NEW step \in Listing, NEW email \in Address,
         Begin(r, op, [About(u, t, row, step) EXCEPT !.email = email]),
         UNCHANGED <<rows, sent, settings, reported>>
  PROVE  Onward
<1>1. PICK p : p = About(u, t, row, step)
  OBVIOUS
<1>2. step \in Steps
  BY DEF Steps, Listing
<1>3. /\ p \in Request /\ p.step = step /\ p.ticket = t /\ p.row = row
      /\ p.threading = NoThreading
      /\ t \in 1..Len(tickets) /\ row \in Ticket
  BY <1>1, <1>2, MemberRead
<1>4. PICK q : q = [p EXCEPT !.email = email]
  OBVIOUS
<1>5. /\ q \in Request /\ q.step = step /\ q.ticket = t /\ q.row = row
      /\ q.threading = NoThreading /\ q.email = email
  BY <1>3, <1>4, Zenon DEF Request
<1>6. Ready(q, Len(tickets), messages, mails)
  BY <1>3, <1>5, NothingToKnow DEF Ready, Listing, Authored, Unsent, Written, ToSend
<1>7. Begin(r, op, q)
  BY <1>1, <1>4
<1>8. q.step \notin Written \cup {"submitCreate"}
  BY <1>5 DEF Written, ToSend, Listing
<1>9. QED
  BY <1>5, <1>6, <1>7, <1>8, BeginReads

\* addTicketRequester, addTicketCc and removeTicketCc read the ticket.
LEMMA ListEditReadConsistent ==
  ASSUME Consistent, NEW r \in Requests, NEW u \in Users, NEW t \in DOMAIN tickets,
         NEW op, NEW step \in Listing, NEW email \in Customers,
         ListEditRead(r, u, t, op, step, email)
  PROVE  Onward
BY ListEditBegins, PeopleAssumption DEF ListEditRead

\* removeTicketRequester reads the ticket.
LEMMA RemoveTicketRequesterReadConsistent ==
  ASSUME Consistent, NEW r \in Requests, NEW u \in Users, NEW t \in DOMAIN tickets,
         NEW email \in Customers, RemoveTicketRequesterRead(r, u, t, email)
  PROVE  Onward
<1>1. "removeRequester" \in Listing
  BY DEF Listing
<1>2. QED
  BY <1>1, ListEditBegins, PeopleAssumption DEF RemoveTicketRequesterRead

\* addInternalNote reads the ticket.
LEMMA AddInternalNoteReadConsistent ==
  ASSUME Consistent, NEW r \in Requests, NEW u \in Users, NEW t \in DOMAIN tickets,
         AddInternalNoteRead(r, u, t)
  PROVE  Onward
<1>1. PICK row \in TicketRead(u, t) :
        /\ Begin(r, "addInternalNote",
                 [About(u, t, row, "noteCreate") EXCEPT !.event = Event("internalNote")])
        /\ UNCHANGED <<rows, sent, settings, reported>>
  BY DEF AddInternalNoteRead
<1>2. PICK p : p = About(u, t, row, "noteCreate")
  OBVIOUS
<1>3. "noteCreate" \in Steps
  BY DEF Steps
<1>4. /\ p \in Request /\ p.step = "noteCreate" /\ p.actor = u /\ p.ticket = t /\ p.row = row
      /\ p.threading = NoThreading
      /\ t \in 1..Len(tickets) /\ row \in Ticket
  BY <1>2, <1>3, MemberRead
<1>5. PICK q : q = [p EXCEPT !.event = Event("internalNote")]
  OBVIOUS
<1>6. q \in Request
  BY <1>4, <1>5, Zenon DEF Request, Event, Updates
<1>7. /\ q.step = "noteCreate" /\ q.actor = u /\ q.ticket = t /\ q.row = row
      /\ q.threading = NoThreading
  BY <1>4, <1>5, Zenon DEF Request
<1>8. Ready(q, Len(tickets), messages, mails)
  BY <1>4, <1>7, NothingToKnow DEF Ready, Listing, Authored, Unsent, Written, ToSend
<1>9. Begin(r, "addInternalNote", q)
  BY <1>1, <1>2, <1>5
<1>10. q.step \notin Written \cup {"submitCreate"}
  BY <1>7 DEF Written, ToSend
<1>11. QED
  BY <1>1, <1>6, <1>8, <1>9, <1>10, BeginReads

\* What a reply answers is of its ticket.
LEMMA ThreadingKnown ==
  ASSUME Consistent, NEW t,
         NEW threading \in threading_for({messages[m] : m \in DOMAIN messages}, t)
  PROVE  /\ threading \in [inReplyTo : MessageId \cup {None}, references : Seq(MessageId)]
         /\ \A id \in Named(threading) : Known(id, t, messages, mails)
<1>1. CASE threading = NoThreading
  BY <1>1, NothingNamed
<1>2. ASSUME NEW k \in DOMAIN messages, messages[k].rfc # None, messages[k].ticket = t,
             threading = Following(messages[k])
      PROVE  /\ threading \in [inReplyTo : MessageId \cup {None}, references : Seq(MessageId)]
             /\ \A id \in Named(threading) : Known(id, t, messages, mails)
  <2>1. k \in 1..Len(messages)
    BY LenProperties DEF Consistent, TablesSound, MessagesSound
  <2>2. messages[k] \in TicketMessage
    BY <2>1, RowsTyped DEF Consistent
  <2>3. PICK refs \in Seq(MessageId) : refs = messages[k].references
    BY <2>2, SMT DEF TicketMessage
  <2>4. PICK rfc \in MessageId : rfc = messages[k].rfc
    BY <1>2, <2>2, SMT DEF TicketMessage
  <2>5. threading = [inReplyTo |-> rfc, references |-> Append(refs, rfc)]
    BY <1>2, <2>3, <2>4 DEF Following
  <2>6. Append(refs, rfc) \in Seq(MessageId)
    BY Added
  <2>7. Known(rfc, t, messages, mails)
    <3>1. /\ messages[k].rfc \in (IF messages[k].kind = "inbound" THEN Incoming ELSE 1..Len(mails))
                                 \cup {None}
          /\ messages[k].kind # "inbound" => StampedAs(k, mails[messages[k].rfc])
      BY <1>2, <2>1 DEF Consistent, TablesSound, MessagesSound, RecordSound
    <3>2. QED
      BY <1>2, <2>1, <2>4, <3>1 DEF Known, StampedAs
  <2>8. \A id \in Range(refs) : Known(id, t, messages, mails)
    BY <1>2, <2>1, <2>3 DEF Consistent, TablesSound, MessagesSound
  <2>9. ASSUME NEW id \in Named(threading) PROVE Known(id, t, messages, mails)
    <3>1. id = rfc \/ id \in Range(Append(refs, rfc))
      BY <2>5, <2>9 DEF Named
    <3>2. id = rfc \/ id \in Range(refs)
      BY <3>1, RangeOfAppend
    <3>3. QED
      BY <2>7, <2>8, <3>2
  <2>10. QED
    BY <2>5, <2>6, <2>9
<1>3. QED
  BY <1>1, <1>2 DEF threading_for

\* replyToTicket reads ticket, messages and addresses, and builds the mail.
LEMMA ReplyToTicketReadConsistent ==
  ASSUME Consistent, NEW r \in Requests, NEW u \in Users, NEW t \in DOMAIN tickets,
         NEW attach \in {"none", "pending", "foreign"}, ReplyToTicketRead(r, u, t, attach)
  PROVE  Onward
<1>1. PICK row \in TicketRead(u, t),
           threading \in threading_for({messages[m] : m \in DOMAIN messages}, t) :
        LET q == [About(u, t, row, "replyCreate") EXCEPT
                    !.attach = attach, !.threading = threading, !.event = Event("agentReply")] IN
        /\ Built(q) # None
        /\ Begin(r, "replyToTicket", q)
        /\ UNCHANGED <<rows, sent, settings, reported>>
  BY DEF ReplyToTicketRead
<1>2. PICK p : p = About(u, t, row, "replyCreate")
  OBVIOUS
<1>3. "replyCreate" \in Steps
  BY DEF Steps
<1>4. /\ p \in Request /\ p.step = "replyCreate" /\ p.actor = u /\ p.ticket = t /\ p.row = row
      /\ t \in 1..Len(tickets) /\ row \in Ticket
  BY <1>2, <1>3, MemberRead
<1>5. /\ threading \in [inReplyTo : MessageId \cup {None}, references : Seq(MessageId)]
      /\ \A id \in Named(threading) : Known(id, t, messages, mails)
  BY ThreadingKnown
<1>6. PICK a : a = [p EXCEPT !.attach = attach]
  OBVIOUS
<1>7. a \in Request /\ a.step = "replyCreate" /\ a.actor = u /\ a.ticket = t /\ a.row = row
  BY <1>4, <1>6, Zenon DEF Request
<1>8. PICK b : b = [a EXCEPT !.threading = threading]
  OBVIOUS
<1>9. /\ b \in Request /\ b.step = "replyCreate" /\ b.actor = u /\ b.ticket = t /\ b.row = row
      /\ b.threading = threading
  BY <1>5, <1>7, <1>8, Zenon DEF Request
<1>10. PICK q : q = [b EXCEPT !.event = Event("agentReply")]
  OBVIOUS
<1>11. q \in Request
  BY <1>9, <1>10, Zenon DEF Request, Event, Updates
<1>12. /\ q.step = "replyCreate" /\ q.actor = u /\ q.ticket = t /\ q.row = row
       /\ q.threading = threading
  BY <1>9, <1>10, Zenon DEF Request
<1>13. /\ Built(q) # None /\ Begin(r, "replyToTicket", q)
       /\ UNCHANGED <<rows, sent, settings, reported>>
  <2>1. q = [About(u, t, row, "replyCreate") EXCEPT
               !.attach = attach, !.threading = threading, !.event = Event("agentReply")]
    BY <1>2, <1>6, <1>8, <1>10, Zenon
  <2>2. QED
    BY <1>1, <2>1, Zenon
<1>14. Ready(q, Len(tickets), messages, mails)
  BY <1>4, <1>5, <1>12, <1>13 DEF Ready, Listing, Authored, Unsent, Written, ToSend
<1>15. q.step \notin Written \cup {"submitCreate"}
  BY <1>12 DEF Written, ToSend
<1>16. QED
  BY <1>11, <1>13, <1>14, <1>15, BeginReads

\* A resolver stops.
LEMMA StopConsistent ==
  ASSUME Consistent, NEW r \in Requests, Stop(r)
  PROVE  Onward
<1>1. /\ Idle \in Request /\ Idle.step = "idle" /\ Ready(Idle, Len(tickets), messages, mails)
  BY IdleIsReady
<1>2. Idle.step \notin Written \cup {"submitCreate"}
  BY <1>1 DEF Written, ToSend
<1>3. QED
  BY <1>1, <1>2, Reads DEF Stop, Return, Continue

-----------------------------------------------------------------------------
(* Writes of ticket rows.                                                  *)

\* What a resolver's write of its ticket's row comes to, if it goes on as q.
LEMMA WritesTicket ==
  ASSUME Consistent, NEW r \in Requests, NEW q \in Request,
         requests' = [requests EXCEPT ![r] = q],
         NEW t \in 1..Len(tickets), NEW row \in Ticket, WriteTicket(t, row),
         Agrees(row), row.instance = tickets[t].instance, row.number = tickets[t].number,
         row.hasAttachments => \/ tickets[t].hasAttachments
                               \/ \E m \in 1..Len(messages) :
                                    messages[m].ticket = t /\ messages[m].attachments,
         Ready(q, Len(tickets), messages, mails), q.step # "submitCreate",
         q.step \in Written => requests[r].step \in Written /\ q.message = requests[r].message,
         q.step \in ToSend => requests[r].step \in ToSend,
         UNCHANGED <<lastNumber, messages, mails, notices, settings, reported>>
  PROVE  Onward
<1>1. /\ TablesSound' /\ Kept /\ Len(tickets') = Len(tickets)
      /\ \A s \in 1..Len(tickets) : /\ tickets'[s].instance = tickets[s].instance
                                    /\ tickets'[s].number = tickets[s].number
  BY TicketWritten DEF Consistent
<1>2. Ready(q, Len(tickets'), messages', mails')
  BY <1>1
<1>3. QED
  BY <1>1, <1>2, GoesOnQuietly

\* A resolver may return at any time.
LEMMA IdleAgain ==
  /\ Idle \in Request /\ Ready(Idle, Len(tickets), messages, mails)
  /\ Idle.step \notin Written \cup {"submitCreate"} /\ ToSend \subseteq Written
<1>1. Idle \in Request /\ Idle.step = "idle" /\ Ready(Idle, Len(tickets), messages, mails)
  BY IdleIsReady
<1>2. QED
  BY <1>1 DEF Written, ToSend

\* compute_ticket_markers: a row whose status and assignee are written with
\* their markers agrees with them.
LEMMA StatusAndAssignee ==
  ASSUME Consistent, NEW t \in 1..Len(tickets), NEW status \in Statuses,
         NEW assignee \in Users \cup {Nobody}, SetStatusAndAssignee(t, status, assignee)
  PROVE  \E row \in Ticket :
           /\ WriteTicket(t, row) /\ Agrees(row)
           /\ row.instance = tickets[t].instance /\ row.number = tickets[t].number
           /\ row.hasAttachments = tickets[t].hasAttachments
<1>1. PICK x \in Ticket : x = tickets[t]
  BY RowsTyped DEF Consistent
<1>2. PICK marks \in TicketMarkers :
        /\ marks = compute_ticket_markers(x.instance, status, assignee)
        /\ marks.status = status
        /\ marks.visible = (IF status = "deleted" THEN None ELSE x.instance)
        /\ marks.assignee = (IF status = "deleted" THEN Nobody ELSE assignee)
  <2>1. x.instance \in Instances
    BY SMT DEF Ticket
  <2>2. compute_ticket_markers(x.instance, status, assignee) \in TicketMarkers
    BY <2>1, SMT DEF compute_ticket_markers, TicketMarkers
  <2>3. QED
    BY <2>2 DEF compute_ticket_markers
<1>3. PICK row : row = [x EXCEPT !.status = status, !.assignee = assignee, !.markers = marks]
  OBVIOUS
<1>4. /\ row \in Ticket /\ row.status = status /\ row.assignee = assignee /\ row.markers = marks
      /\ row.instance = x.instance /\ row.number = x.number
      /\ row.hasAttachments = x.hasAttachments
  BY <1>3, Zenon DEF Ticket
<1>5. Agrees(row)
  BY <1>2, <1>4 DEF Agrees
<1>6. WriteTicket(t, row)
  BY <1>1, <1>2, <1>3, Zenon DEF SetStatusAndAssignee
<1>7. QED
  BY <1>1, <1>4, <1>5, <1>6

\* setTicketStatus writes the status with the assignee it read.
LEMMA SetTicketStatusWriteConsistent ==
  ASSUME Consistent, NEW r \in Requests, SetTicketStatusWrite(r)
  PROVE  Onward
<1>1. PICK q \in Request : q = requests[r] /\ Ready(q, Len(tickets), messages, mails)
  BY InFlight
<1>2. q.step = "setStatus"
  BY <1>1 DEF SetTicketStatusWrite
<1>3. /\ q.ticket \in 1..Len(tickets) /\ q.row \in Ticket
      /\ \A id \in Named(q.threading) : Known(id, q.ticket, messages, mails)
      /\ q.message = 0
  BY <1>1, <1>2 DEF Ready, Unsent
<1>4. PICK row \in Ticket :
        /\ WriteTicket(q.ticket, row) /\ Agrees(row)
        /\ row.instance = tickets[q.ticket].instance /\ row.number = tickets[q.ticket].number
        /\ row.hasAttachments = tickets[q.ticket].hasAttachments
  <2>1. q.status \in Statuses /\ q.row.assignee \in Users \cup {Nobody}
    BY <1>3, Zenon DEF Request, Ticket
  <2>2. SetStatusAndAssignee(q.ticket, q.status, q.row.assignee)
    BY <1>1 DEF SetTicketStatusWrite
  <2>3. QED
    BY <1>3, <2>1, <2>2, StatusAndAssignee
<1>5. UNCHANGED <<lastNumber, messages, mails, notices, settings, reported>>
  BY DEF SetTicketStatusWrite, sent
<1>6. PICK next : next = [q EXCEPT !.row.status = q.status,
                                   !.event = StatusChanged(q.row.status, q.status)]
  OBVIOUS
<1>7. /\ next \in Request /\ next.ticket = q.ticket /\ next.row \in Ticket
      /\ next.threading = q.threading /\ next.message = q.message
  <2>1. PICK status \in Statuses : status = q.status
    BY Zenon DEF Request
  <2>2. PICK now \in Ticket : now = [q.row EXCEPT !.status = status]
    <3>1. [q.row EXCEPT !.status = status] \in Ticket
      BY <1>3, Zenon DEF Ticket
    <3>2. QED
      BY <3>1
  <2>3. PICK event \in Occurrence : event = StatusChanged(q.row.status, q.status)
    <3>1. q.row.status \in Statuses /\ q.status \in Statuses
      BY <1>3, Zenon DEF Request, Ticket
    <3>2. StatusChanged(q.row.status, q.status) \in Occurrence
      BY <3>1, SMT DEF StatusChanged, Occurrence, Updates
    <3>3. QED
      BY <3>2
  <2>4. next = [q EXCEPT !.row = now, !.event = event]
    BY <1>6, <2>1, <2>2, <2>3, Zenon
  <2>5. QED
    BY <2>4, Zenon DEF Request, Occurrence
<1>8. ASSUME NEW s \in {"noticeSend", "notify"}, Continue(r, [next EXCEPT !.step = s])
      PROVE  Onward
  <2>1. PICK p : p = [next EXCEPT !.step = s]
    OBVIOUS
  <2>2. s \in Steps
    BY DEF Steps
  <2>3. /\ p \in Request /\ p.step = s /\ p.ticket = q.ticket /\ p.row \in Ticket
        /\ p.threading = q.threading /\ p.message = q.message
    BY <1>7, <2>1, <2>2, Stepped
  <2>4. Ready(p, Len(tickets), messages, mails)
    BY <1>3, <2>3, EarlyReady
  <2>5. requests' = [requests EXCEPT ![r] = p]
    BY <1>8, <2>1 DEF Continue
  <2>6. p.step \notin Written \cup ToSend \cup {"submitCreate"}
    BY <2>3 DEF Written, ToSend
  <2>7. QED
    BY <1>3, <1>4, <1>5, <2>3, <2>4, <2>5, <2>6, WritesTicket
<1>9. CASE Return(r)
  <2>1. requests' = [requests EXCEPT ![r] = Idle]
    BY <1>9 DEF Return, Continue
  <2>2. QED
    BY <1>3, <1>4, <1>5, <2>1, IdleAgain, WritesTicket
<1>10. \/ Continue(r, [next EXCEPT !.step = "noticeSend"])
       \/ Continue(r, [next EXCEPT !.step = "notify"])
       \/ Return(r)
  <2>1. LET old == status_notice_body(q.row.status, q.status) IN
        CASE old -> Continue(r, [next EXCEPT !.step = "noticeSend"])
          [] ~old /\ q.status # "deleted" -> Continue(r, [next EXCEPT !.step = "notify"])
          [] OTHER -> Return(r)
    BY <1>1, <1>6, Zenon DEF SetTicketStatusWrite
  <2>2. QED
    BY <2>1
<1>11. QED
  BY <1>8, <1>9, <1>10

\* assignTicket writes the assignee with the status it read.
LEMMA AssignTicketWriteConsistent ==
  ASSUME Consistent, NEW r \in Requests, AssignTicketWrite(r)
  PROVE  Onward
<1>1. PICK q \in Request : q = requests[r] /\ Ready(q, Len(tickets), messages, mails)
  BY InFlight
<1>2. q.step = "assign"
  BY <1>1 DEF AssignTicketWrite
<1>3. /\ q.ticket \in 1..Len(tickets) /\ q.row \in Ticket
      /\ \A id \in Named(q.threading) : Known(id, q.ticket, messages, mails)
  BY <1>1, <1>2 DEF Ready
<1>4. PICK row \in Ticket :
        /\ WriteTicket(q.ticket, row) /\ Agrees(row)
        /\ row.instance = tickets[q.ticket].instance /\ row.number = tickets[q.ticket].number
        /\ row.hasAttachments = tickets[q.ticket].hasAttachments
  <2>1. q.row.status \in Statuses /\ q.assignee \in Users \cup {Nobody}
    BY <1>3, Zenon DEF Request, Ticket
  <2>2. SetStatusAndAssignee(q.ticket, q.row.status, q.assignee)
    BY <1>1 DEF AssignTicketWrite
  <2>3. QED
    BY <1>3, <2>1, <2>2, StatusAndAssignee
<1>5. UNCHANGED <<lastNumber, messages, mails, notices, settings, reported>>
  BY DEF AssignTicketWrite, sent
<1>6. CASE Return(r)
  <2>1. requests' = [requests EXCEPT ![r] = Idle]
    BY <1>6 DEF Return, Continue
  <2>2. QED
    BY <1>3, <1>4, <1>5, <2>1, IdleAgain, WritesTicket
<1>7. CASE Continue(r, [q EXCEPT !.step = "notify",
                                 !.event = Assigned(q.row.assignee, q.assignee)])
  <2>1. PICK a \in Request : a = [q EXCEPT !.step = "notify"]
    <3>1. "notify" \in Steps
      BY DEF Steps
    <3>2. QED
      BY <3>1, Stepped
  <2>2. a.step = "notify" /\ a.ticket = q.ticket /\ a.row = q.row /\ a.threading = q.threading
    BY <2>1, Zenon DEF Request
  <2>3. PICK event \in Occurrence : event = Assigned(q.row.assignee, q.assignee)
    <3>1. q.row.assignee \in Users \cup {Nobody} /\ q.assignee \in Users \cup {Nobody}
      BY <1>3, Zenon DEF Request, Ticket
    <3>2. Assigned(q.row.assignee, q.assignee) \in Occurrence
      BY <3>1, SMT DEF Assigned, Occurrence, Updates
    <3>3. QED
      BY <3>2
  <2>4. PICK p : p = [a EXCEPT !.event = event]
    OBVIOUS
  <2>5. p \in Request
    BY <2>4, Zenon DEF Request, Occurrence
  <2>6. p.step = "notify" /\ p.ticket = q.ticket /\ p.row = q.row /\ p.threading = q.threading
    BY <2>2, <2>4, Zenon DEF Request
  <2>7. Ready(p, Len(tickets), messages, mails)
    BY <1>3, <2>6, EarlyReady
  <2>8. requests' = [requests EXCEPT ![r] = p]
    BY <1>7, <2>1, <2>3, <2>4, Zenon DEF Continue
  <2>9. p.step \notin Written \cup ToSend \cup {"submitCreate"}
    BY <2>6 DEF Written, ToSend
  <2>10. QED
    BY <1>3, <1>4, <1>5, <2>5, <2>7, <2>8, <2>9, WritesTicket
<1>8. QED
  BY <1>1, <1>6, <1>7 DEF AssignTicketWrite

\* A row with other people on its lists.
LEMMA ListsWritten ==
  ASSUME NEW x \in Ticket, Agrees(x), NEW people \in SUBSET Address, NEW row,
         row = [x EXCEPT !.requesters = people] \/ row = [x EXCEPT !.ccs = people]
  PROVE  /\ row \in Ticket /\ Agrees(row)
         /\ row.instance = x.instance /\ row.number = x.number
         /\ row.hasAttachments = x.hasAttachments
<1>1. CASE row = [x EXCEPT !.requesters = people]
  <2>1. /\ row \in Ticket
        /\ row.instance = x.instance /\ row.number = x.number
        /\ row.hasAttachments = x.hasAttachments
        /\ row.status = x.status /\ row.assignee = x.assignee /\ row.markers = x.markers
    BY <1>1, Zenon DEF Ticket
  <2>2. QED
    BY <2>1 DEF Agrees
<1>2. CASE row = [x EXCEPT !.ccs = people]
  <2>1. /\ row \in Ticket
        /\ row.instance = x.instance /\ row.number = x.number
        /\ row.hasAttachments = x.hasAttachments
        /\ row.status = x.status /\ row.assignee = x.assignee /\ row.markers = x.markers
    BY <1>2, Zenon DEF Ticket
  <2>2. QED
    BY <2>1 DEF Agrees
<1>3. QED
  BY <1>1, <1>2

\* The row of a ticket there is.
LEMMA RowAgrees ==
  ASSUME Consistent, NEW t \in 1..Len(tickets)
  PROVE  tickets[t] \in Ticket /\ Agrees(tickets[t])
BY RowsTyped DEF Consistent, TablesSound, TicketsSound

\* Requesters or CCs are added to or deleted from, whatever else was written since.
LEMMA ListEditWriteConsistent ==
  ASSUME Consistent, NEW r \in Requests, ListEditWrite(r)
  PROVE  Onward
<1>1. PICK q \in Request : q = requests[r] /\ Ready(q, Len(tickets), messages, mails)
  BY InFlight
<1>2. q.step \in Listing
  BY <1>1 DEF ListEditWrite, Listing
<1>3. q.ticket \in 1..Len(tickets) /\ q.email \in Address
  BY <1>1, <1>2 DEF Ready, Listing
<1>4. PICK x \in Ticket : x = tickets[q.ticket] /\ Agrees(x)
  BY <1>3, RowAgrees
<1>5. PICK people \in SUBSET Address :
        \/ WriteTicket(q.ticket, [x EXCEPT !.requesters = people])
        \/ WriteTicket(q.ticket, [x EXCEPT !.ccs = people])
  <2>1. x.requesters \in SUBSET Address /\ x.ccs \in SUBSET Address
    BY Zenon DEF Ticket
  <2>2. /\ x.requesters \cup {q.email} \in SUBSET Address
        /\ x.requesters \ {q.email} \in SUBSET Address
        /\ x.ccs \cup {q.email} \in SUBSET Address
        /\ x.ccs \ {q.email} \in SUBSET Address
    BY <1>3, <2>1
  <2>3. \/ WriteTicket(q.ticket, [x EXCEPT !.requesters = x.requesters \cup {q.email}])
        \/ WriteTicket(q.ticket, [x EXCEPT !.requesters = x.requesters \ {q.email}])
        \/ WriteTicket(q.ticket, [x EXCEPT !.ccs = x.ccs \cup {q.email}])
        \/ WriteTicket(q.ticket, [x EXCEPT !.ccs = x.ccs \ {q.email}])
    BY <1>1, <1>4, Zenon DEF ListEditWrite, AddRequester, RemoveRequester, AddCc, RemoveCc
  <2>4. QED
    BY <2>2, <2>3, Zenon
<1>6. PICK row \in Ticket :
        /\ WriteTicket(q.ticket, row) /\ Agrees(row)
        /\ row.instance = x.instance /\ row.number = x.number
        /\ row.hasAttachments = x.hasAttachments
  <2>1. PICK row : /\ WriteTicket(q.ticket, row)
                   /\ \/ row = [x EXCEPT !.requesters = people]
                      \/ row = [x EXCEPT !.ccs = people]
    BY <1>5
  <2>2. /\ row \in Ticket /\ Agrees(row)
        /\ row.instance = x.instance /\ row.number = x.number
        /\ row.hasAttachments = x.hasAttachments
    BY <1>4, <2>1, ListsWritten
  <2>3. QED
    BY <2>1, <2>2
<1>7. requests' = [requests EXCEPT ![r] = Idle]
  BY DEF ListEditWrite, Return, Continue
<1>8. UNCHANGED <<lastNumber, messages, mails, notices, settings, reported>>
  BY DEF ListEditWrite, sent
<1>9. QED
  BY <1>3, <1>4, <1>6, <1>7, <1>8, IdleAgain, WritesTicket

\* The ticket gets its paperclip after the reply's row has its files.
LEMMA ReplyToTicketFlagConsistent ==
  ASSUME Consistent, NEW r \in Requests, ReplyToTicketFlag(r)
  PROVE  Onward
<1>1. PICK q \in Request : q = requests[r] /\ Ready(q, Len(tickets), messages, mails)
  BY InFlight
<1>2. q.step = "replyFlag"
  BY <1>1 DEF ReplyToTicketFlag
<1>3. /\ q.ticket \in 1..Len(tickets)
      /\ q.message \in 1..Len(messages)
      /\ messages[q.message].ticket = q.ticket /\ messages[q.message].attachments
  BY <1>1, <1>2 DEF Ready, Written, ToSend
<1>4. PICK x \in Ticket : x = tickets[q.ticket] /\ Agrees(x)
  BY <1>3, RowAgrees
<1>5. PICK row : row = [x EXCEPT !.hasAttachments = TRUE]
  OBVIOUS
<1>6. /\ row \in Ticket
      /\ row.instance = x.instance /\ row.number = x.number
      /\ row.status = x.status /\ row.assignee = x.assignee /\ row.markers = x.markers
  BY <1>5, Zenon DEF Ticket
<1>7. Agrees(row)
  BY <1>4, <1>6 DEF Agrees
<1>8. WriteTicket(q.ticket, row)
  BY <1>1, <1>4, <1>5, Zenon DEF ReplyToTicketFlag, MarkHasAttachments
<1>9. PICK p : p = [q EXCEPT !.step = "replySend"]
  OBVIOUS
<1>10. /\ p \in Request /\ p.step = "replySend" /\ p.ticket = q.ticket /\ p.row = q.row
       /\ p.threading = q.threading /\ p.message = q.message
  BY <1>9, ZenonT(60) DEF Request, Steps
<1>11. Built(p) = Built(q)
  BY <1>10, BuiltSame
<1>12. Ready(p, Len(tickets), messages, mails)
  BY <1>1, <1>2, <1>10, <1>11 DEF Ready, Listing, Authored, Unsent, Written, ToSend
<1>13. requests' = [requests EXCEPT ![r] = p]
  BY <1>1, <1>9 DEF ReplyToTicketFlag, Goto, Continue
<1>14. UNCHANGED <<lastNumber, messages, mails, notices, settings, reported>>
  BY DEF ReplyToTicketFlag, sent
<1>15. p.step # "submitCreate" /\ q.step \in Written /\ q.step \in ToSend
  BY <1>2, <1>10 DEF Written, ToSend
<1>16. QED
  BY <1>1, <1>3, <1>4, <1>6, <1>7, <1>8, <1>10, <1>12, <1>13, <1>14, <1>15, WritesTicket

-----------------------------------------------------------------------------
(* Writes of message rows.                                                 *)

\* A row with no threading names nothing.
LEMMA NoReferences ==
  <<>> \in Seq(MessageId) /\ Range(<<>>) = {}
<1>1. Range(<<>>) = {}
  BY SMT DEF Range
<1>2. QED
  BY <1>1, EmptySeq

\* A resolver creates a row of its ticket, and has written no reply.
LEMMA WritesMessage ==
  ASSUME Consistent, NEW r \in Requests, NEW q \in Request,
         requests' = [requests EXCEPT ![r] = q],
         NEW row \in TicketMessage, CreateTicketMessage(row),
         row.ticket \in 1..Len(tickets), row.rfc = None, ~row.attachments,
         row.references = <<>>,
         Ready(q, Len(tickets), messages, mails), q.step \notin Written \cup {"submitCreate"},
         UNCHANGED <<tickets, ticketSeen, lastNumber, sent, settings, reported>>
  PROVE  Onward
<1>1. \A id \in Range(row.references) : Known(id, row.ticket, messages, mails)
  BY NoReferences
<1>2. UNCHANGED <<tickets, ticketSeen, lastNumber, mails, notices, settings, reported>>
  BY DEF sent
<1>3. TablesSound' /\ Kept
  BY <1>1, <1>2, MessageCreated DEF Consistent
<1>4. Ready(q, Len(tickets'), messages', mails')
  BY <1>3, ReadyKept DEF Kept, Grown, TicketsKept, Longer
<1>5. ToSend \subseteq Written
  BY DEF Written
<1>6. QED
  BY <1>2, <1>3, <1>4, <1>5, GoesOnQuietly

\* addInternalNote creates the note's row.
LEMMA AddInternalNoteCreateConsistent ==
  ASSUME Consistent, NEW r \in Requests, AddInternalNoteCreate(r)
  PROVE  Onward
<1>1. PICK q \in Request : q = requests[r] /\ Ready(q, Len(tickets), messages, mails)
  BY InFlight
<1>2. q.step = "noteCreate"
  BY <1>1 DEF AddInternalNoteCreate
<1>3. /\ q.ticket \in 1..Len(tickets) /\ q.row \in Ticket
      /\ \A id \in Named(q.threading) : Known(id, q.ticket, messages, mails)
      /\ q.actor \in Users \cup Address
  BY <1>1, <1>2 DEF Ready, Authored
<1>4. PICK row : row = NewMessage(q.ticket, "note", q.actor, {}, {}, <<>>)
  OBVIOUS
<1>5. /\ row \in TicketMessage
      /\ row.ticket = q.ticket /\ row.rfc = None /\ row.references = <<>> /\ ~row.attachments
  <2>1. "note" \in Kinds /\ q.actor \in Users \cup Address \cup {None} /\ q.ticket \in Nat
    BY <1>3, Zenon DEF Kinds, Request
  <2>2. {} \in SUBSET Address /\ <<>> \in Seq(MessageId)
    BY NoReferences
  <2>3. QED
    BY <1>4, <2>1, <2>2, Zenon DEF NewMessage, TicketMessage
<1>6. PICK p : p = [q EXCEPT !.step = "notify"]
  OBVIOUS
<1>7. /\ p \in Request /\ p.step = "notify" /\ p.ticket = q.ticket /\ p.row = q.row
      /\ p.threading = q.threading
  BY <1>6, ZenonT(60) DEF Request, Steps
<1>8. Ready(p, Len(tickets), messages, mails)
  BY <1>3, <1>7, EarlyReady
<1>9. /\ requests' = [requests EXCEPT ![r] = p] /\ CreateTicketMessage(row)
      /\ UNCHANGED <<tickets, ticketSeen, lastNumber, sent, settings, reported>>
  BY <1>1, <1>4, <1>6 DEF AddInternalNoteCreate, Goto, Continue
<1>10. p.step \notin Written \cup {"submitCreate"}
  BY <1>7 DEF Written, ToSend
<1>11. QED
  BY <1>3, <1>5, <1>7, <1>8, <1>9, <1>10, WritesMessage

\* open_submitted_ticket creates the first message of the ticket it created.
LEMMA SubmittedMessageConsistent ==
  ASSUME Consistent, NEW r \in Requests, SubmittedMessage(r)
  PROVE  Onward
<1>1. PICK q \in Request : q = requests[r] /\ Ready(q, Len(tickets), messages, mails)
  BY InFlight
<1>2. q.step = "submitMessage"
  BY <1>1 DEF SubmittedMessage
<1>3. /\ q.ticket \in 1..Len(tickets) /\ q.row \in Ticket
      /\ \A id \in Named(q.threading) : Known(id, q.ticket, messages, mails)
      /\ q.actor \in Users \cup Address /\ q.message = 0
  BY <1>1, <1>2 DEF Ready, Authored, Unsent
<1>4. PICK row : row = NewMessage(q.ticket, "inbound", q.actor, {}, {}, <<>>)
  OBVIOUS
<1>5. /\ row \in TicketMessage
      /\ row.ticket = q.ticket /\ row.rfc = None /\ row.references = <<>> /\ ~row.attachments
  <2>1. "inbound" \in Kinds /\ q.actor \in Users \cup Address \cup {None} /\ q.ticket \in Nat
    BY <1>3, Zenon DEF Kinds, Request
  <2>2. {} \in SUBSET Address /\ <<>> \in Seq(MessageId)
    BY NoReferences
  <2>3. QED
    BY <1>4, <2>1, <2>2, Zenon DEF NewMessage, TicketMessage
<1>6. PICK p : p = [q EXCEPT !.step = "noticeSend"]
  OBVIOUS
<1>7. /\ p \in Request /\ p.step = "noticeSend" /\ p.ticket = q.ticket /\ p.row = q.row
      /\ p.threading = q.threading /\ p.message = q.message
  BY <1>6, ZenonT(60) DEF Request, Steps
<1>8. Ready(p, Len(tickets), messages, mails)
  BY <1>3, <1>7, EarlyReady
<1>9. /\ requests' = [requests EXCEPT ![r] = p] /\ CreateTicketMessage(row)
      /\ UNCHANGED <<tickets, ticketSeen, lastNumber, sent, settings, reported>>
  BY <1>1, <1>4, <1>6 DEF SubmittedMessage, Goto, Continue
<1>10. p.step \notin Written \cup {"submitCreate"}
  BY <1>7 DEF Written, ToSend
<1>11. QED
  BY <1>3, <1>5, <1>7, <1>8, <1>9, <1>10, WritesMessage

\* The row a reply gets is nobody else's and was never sent.
LEMMA ReplyToTicketCreateConsistent ==
  ASSUME Consistent, NEW r \in Requests, ReplyToTicketCreate(r)
  PROVE  Onward
<1>1. PICK q \in Request : q = requests[r] /\ Ready(q, Len(tickets), messages, mails)
  BY InFlight
<1>2. q.step = "replyCreate"
  BY <1>1 DEF ReplyToTicketCreate
<1>3. /\ q.ticket \in 1..Len(tickets) /\ q.row \in Ticket
      /\ \A id \in Named(q.threading) : Known(id, q.ticket, messages, mails)
      /\ q.actor \in Users \cup Address /\ Built(q) # None
  BY <1>1, <1>2 DEF Ready, Authored
<1>4. PICK row : row = NewMessage(q.ticket, "reply", q.actor, Built(q).to, Built(q).cc,
                                  q.threading.references)
  OBVIOUS
<1>5. /\ row \in TicketMessage
      /\ row.ticket = q.ticket /\ row.kind = "reply"
      /\ row.to = Built(q).to /\ row.cc = Built(q).cc
      /\ row.rfc = None /\ row.references = q.threading.references /\ ~row.attachments
  <2>1. "reply" \in Kinds /\ q.actor \in Users \cup Address \cup {None} /\ q.ticket \in Nat
    BY <1>3, Zenon DEF Kinds, Request
  <2>2. Built(q).to \in SUBSET Address /\ Built(q).cc \in SUBSET Address
    BY <1>3, BuiltIsEnvelope, Zenon DEF Envelope
  <2>3. q.threading.references \in Seq(MessageId)
    BY Zenon DEF Request
  <2>4. QED
    BY <1>4, <2>1, <2>2, <2>3, Zenon DEF NewMessage, TicketMessage
<1> DEFINE n == Len(messages)
           step == IF q.attach = "none" THEN "replySend" ELSE "replyAttach"
<1>6. PICK p : p = [q EXCEPT !.message = n + 1, !.step = step]
  OBVIOUS
<1>7. n \in Nat
  BY RowsTyped DEF Consistent
<1>8. /\ p \in Request /\ p.step = step /\ p.message = n + 1
      /\ p.ticket = q.ticket /\ p.row = q.row /\ p.threading = q.threading
  <2>1. n + 1 \in Nat /\ step \in Steps
    BY <1>7, SMT DEF Steps
  <2>2. p \in Request
    BY <1>6, <2>1, ZenonT(60) DEF Request
  <2>3. p.step = step /\ p.message = n + 1
    BY <1>6, Zenon DEF Request
  <2>4. p.ticket = q.ticket
    BY <1>6, Zenon DEF Request
  <2>5. p.row = q.row /\ p.threading = q.threading
    BY <1>6, Zenon DEF Request
  <2>6. QED
    BY <2>2, <2>3, <2>4, <2>5
<1>9. /\ requests' = [requests EXCEPT ![r] = p] /\ CreateTicketMessage(row)
      /\ UNCHANGED <<tickets, ticketSeen, lastNumber, mails, notices, settings, reported>>
  BY <1>1, <1>4, <1>6 DEF ReplyToTicketCreate, Continue, sent
<1>10. /\ TablesSound' /\ Kept
       /\ Len(messages') = n + 1 /\ messages'[n + 1] = row
  <2>1. \A id \in Range(row.references) : Known(id, row.ticket, messages, mails)
    BY <1>3, <1>5 DEF Named
  <2>2. QED
    BY <1>3, <1>5, <1>9, <2>1, MessageCreated DEF Consistent
<1>11. Ready(p, Len(tickets'), messages', mails')
  <2>1. Built(p) = Built(q)
    BY <1>8, BuiltSame
  <2>2. \A id \in Named(p.threading) : Known(id, p.ticket, messages', mails')
    BY <1>3, <1>8, <1>10, KnownKept DEF Kept, Grown
  <2>3. p.message \in 1..Len(messages') /\ messages'[p.message] = row
    BY <1>7, <1>8, <1>10, SMT
  <2>4. p.step \in {"replySend", "replyAttach"}
    BY <1>8
  <2>5. QED
    BY <1>3, <1>5, <1>8, <1>9, <2>1, <2>2, <2>3, <2>4
    DEF Ready, Listing, Authored, Unsent, Written, ToSend
<1>12. RepliesApart'
  <2>1. \A s \in Requests : requests'[s] = IF s = r THEN p ELSE requests[s]
    BY <1>9 DEF Consistent, RequestsReady
  <2>2. \A s \in Requests : requests[s].step \in Written => requests[s].message # n + 1
    <3>1. \A s \in Requests : requests[s].step \in Written => requests[s].message \in 1..n
      BY InFlight DEF Ready
    <3>2. QED
      BY <1>7, <3>1, SMT
  <2>3. \A i \in 1..Len(mails) : mails[i].message # n + 1
    BY <1>7, SMT DEF Consistent, TablesSound, MailsSound
  <2>4. ASSUME NEW s \in Requests, NEW u \in Requests, s # u,
               requests'[s].step \in Written, requests'[u].step \in Written
        PROVE  requests'[s].message # requests'[u].message
    BY <1>8, <2>1, <2>2, <2>4 DEF Consistent, RepliesApart
  <2>5. ASSUME NEW s \in Requests, requests'[s].step \in ToSend, NEW i \in 1..Len(mails)
        PROVE  mails[i].message # requests'[s].message
    BY <1>8, <2>1, <2>3, <2>5 DEF Consistent, RepliesApart
  <2>6. QED
    BY <1>9, <2>4, <2>5 DEF RepliesApart
<1>13. NumbersHandedOut' /\ FreeStays
  <2>1. p.step # "submitCreate"
    BY <1>8
  <2>2. QED
    BY <1>8, <1>9, <2>1, NumbersStay DEF Consistent
<1>14. QED
  BY <1>8, <1>9, <1>10, <1>11, <1>12, <1>13, GoesOn

\* The files are recorded on the reply's row.
LEMMA ReplyToTicketAttachConsistent ==
  ASSUME Consistent, NEW r \in Requests, ReplyToTicketAttach(r)
  PROVE  Onward
<1>1. PICK q \in Request : q = requests[r] /\ Ready(q, Len(tickets), messages, mails)
  BY InFlight
<1>2. q.step = "replyAttach"
  BY <1>1 DEF ReplyToTicketAttach
<1>3. q.message \in 1..Len(messages)
  BY <1>1, <1>2 DEF Ready, Written, ToSend
<1>4. PICK p : p = [q EXCEPT !.step = "replyFlag"]
  OBVIOUS
<1>5. /\ p \in Request /\ p.step = "replyFlag" /\ p.ticket = q.ticket /\ p.row = q.row
      /\ p.threading = q.threading /\ p.message = q.message
  BY <1>4, ZenonT(60) DEF Request, Steps
<1>6. /\ requests' = [requests EXCEPT ![r] = p] /\ SetAttachments(q.message)
      /\ UNCHANGED <<tickets, ticketSeen, lastNumber, mails, notices, settings, reported>>
  BY <1>1, <1>4 DEF ReplyToTicketAttach, Goto, Continue, sent
<1>7. /\ TablesSound' /\ Kept /\ messages'[q.message].attachments
  BY <1>3, <1>6, FilesAttached DEF Consistent
<1>8. Ready(p, Len(tickets'), messages', mails')
  <2>1. Built(p) = Built(q)
    BY <1>5, BuiltSame
  <2>2. Ready(q, Len(tickets'), messages', mails')
    BY <1>1, <1>7, ReadyKept DEF Kept, Grown, TicketsKept, Longer
  <2>3. QED
    BY <1>2, <1>5, <1>7, <2>1, <2>2 DEF Ready, Listing, Authored, Unsent, Written, ToSend
<1>9. p.step # "submitCreate" /\ q.step \in Written /\ q.step \in ToSend
  BY <1>2, <1>5 DEF Written, ToSend
<1>10. QED
  BY <1>1, <1>5, <1>6, <1>7, <1>8, <1>9, GoesOnQuietly

\* What is stamped on a reply is the Message-ID of the one mail that was sent of it.
LEMMA ReplyToTicketStampConsistent ==
  ASSUME Consistent, NEW r \in Requests, ReplyToTicketStamp(r)
  PROVE  Onward
<1>1. PICK q \in Request : q = requests[r] /\ Ready(q, Len(tickets), messages, mails)
  BY InFlight
<1>2. q.step = "replyStamp"
  BY <1>1 DEF ReplyToTicketStamp
<1>3. /\ q.ticket \in 1..Len(tickets) /\ q.row \in Ticket
      /\ \A id \in Named(q.threading) : Known(id, q.ticket, messages, mails)
      /\ q.message \in 1..Len(messages) /\ messages[q.message].kind = "reply"
      /\ q.rfc \in 1..Len(mails) /\ mails[q.rfc].message = q.message
  BY <1>1, <1>2 DEF Ready, Written
<1>4. StampedAs(q.message, mails[q.rfc])
  <2>1. q.message # 0
    BY <1>3, SMT
  <2>2. SentAs(mails[q.rfc], messages[q.message])
    BY <1>3, <2>1 DEF Consistent, TablesSound, RecordSound
  <2>3. QED
    BY <1>3, <2>2 DEF SentAs, StampedAs
<1>5. PICK p : p = [q EXCEPT !.step = "notify"]
  OBVIOUS
<1>6. /\ p \in Request /\ p.step = "notify" /\ p.ticket = q.ticket /\ p.row = q.row
      /\ p.threading = q.threading
  BY <1>5, ZenonT(60) DEF Request, Steps
<1>7. /\ requests' = [requests EXCEPT ![r] = p]
      /\ SetRfcMessageId(q.message, q.rfc) /\ reported' = reported \cup {q.message}
      /\ UNCHANGED <<tickets, ticketSeen, lastNumber, mails, notices, settings>>
  BY <1>1, <1>5 DEF ReplyToTicketStamp, Goto, Continue, sent
<1>8. TablesSound' /\ Kept
  BY <1>3, <1>4, <1>7, MessageStamped DEF Consistent
<1>9. Ready(p, Len(tickets'), messages', mails')
  <2>1. Ready(p, Len(tickets), messages, mails)
    BY <1>3, <1>6, EarlyReady
  <2>2. QED
    BY <1>8, <2>1, ReadyKept DEF Kept, Grown, TicketsKept, Longer
<1>10. p.step \notin Written \cup ToSend \cup {"submitCreate"}
  BY <1>6 DEF Written, ToSend
<1>11. QED
  BY <1>6, <1>7, <1>8, <1>9, <1>10, GoesOnQuietly

\* The row of a notice is as the mail that was sent.
LEMMA NoticeRowConsistent ==
  ASSUME Consistent, NEW r \in Requests, NoticeRow(r)
  PROVE  Onward
<1>1. PICK q \in Request : q = requests[r] /\ Ready(q, Len(tickets), messages, mails)
  BY InFlight
<1>2. q.step = "noticeRow"
  BY <1>1 DEF NoticeRow
<1>3. /\ q.ticket \in 1..Len(tickets) /\ q.row \in Ticket
      /\ \A id \in Named(q.threading) : Known(id, q.ticket, messages, mails)
      /\ Built(q) # None
      /\ q.rfc \in 1..Len(mails) /\ mails[q.rfc].ticket = q.ticket /\ mails[q.rfc].message = 0
      /\ mails[q.rfc].envelope = Built(q)
  BY <1>1, <1>2 DEF Ready
<1>4. UNCHANGED <<tickets, ticketSeen, lastNumber, mails, notices, settings, reported>>
  BY DEF NoticeRow, sent
<1>5. CASE Goto(r, "notify") /\ UNCHANGED messages
  <2>1. PICK p : p = [q EXCEPT !.step = "notify"]
    OBVIOUS
  <2>2. /\ p \in Request /\ p.step = "notify" /\ p.ticket = q.ticket /\ p.row = q.row
        /\ p.threading = q.threading
    BY <2>1, ZenonT(60) DEF Request, Steps
  <2>3. Ready(p, Len(tickets), messages, mails) /\ p.step \notin Written \cup {"submitCreate"}
    BY <1>3, <2>2, EarlyReady DEF Written, ToSend
  <2>4. requests' = [requests EXCEPT ![r] = p]
    BY <1>1, <1>5, <2>1 DEF Goto, Continue
  <2>5. QED
    BY <1>4, <1>5, <2>2, <2>3, <2>4, Reads DEF rows, sent
<1> DEFINE n == Len(messages)
<1>6. CASE /\ CreateTicketMessage(NewMessage(q.ticket, "system", None,
                                             Built(q).to, Built(q).cc, <<>>))
           /\ Continue(r, [q EXCEPT !.step = "noticeStamp", !.message = n + 1])
  <2>1. PICK row : row = NewMessage(q.ticket, "system", None, Built(q).to, Built(q).cc, <<>>)
    OBVIOUS
  <2>2. /\ row \in TicketMessage
        /\ row.ticket = q.ticket /\ row.kind = "system"
        /\ row.to = Built(q).to /\ row.cc = Built(q).cc
        /\ row.rfc = None /\ row.references = <<>> /\ ~row.attachments
    <3>1. "system" \in Kinds /\ None \in Users \cup Address \cup {None} /\ q.ticket \in Nat
      BY Zenon DEF Kinds, Request
    <3>2. Built(q).to \in SUBSET Address /\ Built(q).cc \in SUBSET Address
      BY <1>3, BuiltIsEnvelope, Zenon DEF Envelope
    <3>3. <<>> \in Seq(MessageId)
      BY NoReferences
    <3>4. QED
      BY <2>1, <3>1, <3>2, <3>3, Zenon DEF NewMessage, TicketMessage
  <2>3. PICK p : p = [q EXCEPT !.message = n + 1, !.step = "noticeStamp"]
    OBVIOUS
  <2>4. n \in Nat
    BY RowsTyped DEF Consistent
  <2>5. /\ p \in Request /\ p.step = "noticeStamp" /\ p.message = n + 1 /\ p.rfc = q.rfc
        /\ p.ticket = q.ticket /\ p.row = q.row /\ p.threading = q.threading
    <3>1. n + 1 \in Nat /\ "noticeStamp" \in Steps
      BY <2>4, SMT DEF Steps
    <3>2. QED
      BY <2>3, <3>1, Zenon DEF Request
  <2>6. /\ requests' = [requests EXCEPT ![r] = p] /\ CreateTicketMessage(row)
    <3>1. p = [q EXCEPT !.step = "noticeStamp", !.message = n + 1]
      BY <2>3, Zenon DEF Request
    <3>2. QED
      BY <1>6, <2>1, <3>1 DEF Continue
  <2>7. /\ TablesSound' /\ Kept
        /\ Len(messages') = n + 1 /\ messages'[n + 1] = row
    <3>1. \A id \in Range(row.references) : Known(id, row.ticket, messages, mails)
      BY <2>2, NoReferences
    <3>2. QED
      BY <1>3, <1>4, <2>2, <2>6, <3>1, MessageCreated DEF Consistent
  <2>8. Ready(p, Len(tickets'), messages', mails')
    <3>1. \A id \in Named(p.threading) : Known(id, p.ticket, messages', mails')
      BY <1>3, <2>5, <2>7, KnownKept DEF Kept, Grown
    <3>2. p.message \in 1..Len(messages') /\ messages'[p.message] = row
      BY <2>4, <2>5, <2>7, SMT
    <3>3. QED
      BY <1>3, <1>4, <2>2, <2>5, <3>1, <3>2
      DEF Ready, Listing, Authored, Unsent, Written, ToSend
  <2>9. p.step \notin Written \cup ToSend \cup {"submitCreate"}
    BY <2>5 DEF Written, ToSend
  <2>10. QED
    BY <1>4, <2>5, <2>6, <2>7, <2>8, <2>9, GoesOnQuietly
<1>7. QED
  BY <1>1, <1>5, <1>6 DEF NoticeRow

\* The row of a notice gets the Message-ID of the mail it was made for, or nothing.
LEMMA NoticeStampConsistent ==
  ASSUME Consistent, NEW r \in Requests, NoticeStamp(r)
  PROVE  Onward
<1>1. PICK q \in Request : q = requests[r] /\ Ready(q, Len(tickets), messages, mails)
  BY InFlight
<1>2. q.step = "noticeStamp"
  BY <1>1 DEF NoticeStamp
<1>3. /\ q.ticket \in 1..Len(tickets) /\ q.row \in Ticket
      /\ \A id \in Named(q.threading) : Known(id, q.ticket, messages, mails)
      /\ q.message \in 1..Len(messages) /\ q.rfc \in 1..Len(mails)
      /\ messages[q.message].kind = "system" /\ StampedAs(q.message, mails[q.rfc])
  BY <1>1, <1>2 DEF Ready, StampedAs
<1>4. PICK p : p = [q EXCEPT !.step = "notify"]
  OBVIOUS
<1>5. /\ p \in Request /\ p.step = "notify" /\ p.ticket = q.ticket /\ p.row = q.row
      /\ p.threading = q.threading
  BY <1>4, ZenonT(60) DEF Request, Steps
<1>6. Ready(p, Len(tickets), messages, mails)
  BY <1>3, <1>5, EarlyReady
<1>7. p.step \notin Written \cup ToSend \cup {"submitCreate"}
  BY <1>5 DEF Written, ToSend
<1>8. /\ requests' = [requests EXCEPT ![r] = p]
      /\ SetRfcMessageId(q.message, q.rfc) \/ UNCHANGED messages
      /\ UNCHANGED <<tickets, ticketSeen, lastNumber, mails, notices, settings, reported>>
  BY <1>1, <1>4 DEF NoticeStamp, Goto, Continue, sent
<1>9. CASE UNCHANGED messages
  BY <1>5, <1>6, <1>7, <1>8, <1>9, Reads DEF rows, sent
<1>10. CASE SetRfcMessageId(q.message, q.rfc)
  <2>1. TablesSound' /\ Kept
    BY <1>3, <1>8, <1>10, MessageStamped DEF Consistent
  <2>2. Ready(p, Len(tickets'), messages', mails')
    BY <1>6, <2>1, ReadyKept DEF Kept, Grown, TicketsKept, Longer
  <2>3. QED
    BY <1>5, <1>7, <1>8, <2>1, <2>2, GoesOnQuietly
<1>11. QED
  BY <1>8, <1>9, <1>10

-----------------------------------------------------------------------------
(* Sending.                                                                *)

\* What the mail service accepts is a mail of the resolver's ticket, in its thread.
LEMMA AcceptedMail ==
  ASSUME TablesSound, NEW q \in Request, q.row \in Ticket, Built(q) # None,
         \E k \in 1..Attempts : Accept(q, k)
  PROVE  \E mail \in Mail, k \in 1..Attempts :
           /\ Attempted(mail, k)
           /\ mail.ticket = q.ticket /\ mail.message = q.message /\ mail.envelope = Built(q)
           /\ Named(mail.envelope) = Named(q.threading)
           /\ Match(Routes, mail.envelope.replyTo) # None
<1>1. /\ Built(q) \in Envelope /\ Named(Built(q)) = Named(q.threading)
      /\ Match(Routes, Built(q).replyTo) # None
  BY BuiltIsEnvelope, ReplyToIsOurs
<1>2. PICK k \in 1..Attempts : Accept(q, k)
  OBVIOUS
<1>3. k \in Nat /\ k >= 1
  BY AttemptsAssumption
<1>4. q.ticket \in Nat /\ q.message \in Nat /\ q.event \in Occurrence
  BY Zenon DEF Request, Occurrence
<1> DEFINE attempt(i) == [ticket |-> q.ticket, message |-> q.message,
                          envelope |-> Built(q), event |-> q.event, attempt |-> i]
<1>5. \A i \in Nat : /\ attempt(i) \in Mail /\ attempt(i).attempt = i
                     /\ attempt(i).ticket = q.ticket /\ attempt(i).message = q.message
                     /\ attempt(i).envelope = Built(q)
  BY <1>1, <1>4, Zenon DEF Mail
<1>6. PICK copies : copies = [i \in 1..k |-> attempt(i)]
  OBVIOUS
<1>7. mails' = mails \o copies
  BY <1>2, <1>6, Zenon DEF Accept
<1> HIDE DEF attempt
<1>8. copies \in Seq(Mail) /\ Len(copies) = k /\ \A i \in 1..k : copies[i] = attempt(i)
  <2>1. \A i \in 1..k : attempt(i) \in Mail
    BY <1>3, <1>5
  <2>2. QED
    BY <1>3, <1>6, <2>1
<1>9. mails \in Seq(Mail) /\ Len(mails) \in Nat
  BY RowsTyped DEF TablesSound, MailsSound
<1>10. PICK next \in Seq(Mail) : next = mails \o copies
  BY <1>8, <1>9, ConcatProperties
<1>11. /\ Len(next) = Len(mails) + k
       /\ \A i \in 1..Len(mails) : next[i] = mails[i]
       /\ \A i \in (Len(mails) + 1)..(Len(mails) + k) : next[i] = copies[i - Len(mails)]
  BY <1>3, <1>8, <1>9, <1>10
<1>12. \A i \in (Len(mails) + 1)..(Len(mails) + k) : i - Len(mails) \in 1..k /\ i - Len(mails) \in Nat
  BY <1>3, <1>9, SMT
<1>13. \A i \in (Len(mails) + 1)..(Len(mails) + k) : next[i] = attempt(i - Len(mails))
  BY <1>8, <1>11, <1>12
<1>14. Attempted(attempt(1), k)
  BY <1>3, <1>5, <1>7, <1>10, <1>11, <1>12, <1>13 DEF Attempted
<1>15. QED
  BY <1>1, <1>2, <1>5, <1>14

\* A reply is sent just as its row says, by one send, and nobody else's row is.
LEMMA ReplyToTicketSendConsistent ==
  ASSUME Consistent, NEW r \in Requests, ReplyToTicketSend(r)
  PROVE  Onward
<1>1. PICK q \in Request : q = requests[r] /\ Ready(q, Len(tickets), messages, mails)
  BY InFlight
<1>2. q.step = "replySend"
  BY <1>1 DEF ReplyToTicketSend
<1>3. /\ q.ticket \in 1..Len(tickets) /\ q.row \in Ticket
      /\ \A id \in Named(q.threading) : Known(id, q.ticket, messages, mails)
      /\ Built(q) # None
      /\ q.message \in 1..Len(messages)
      /\ messages[q.message].kind = "reply" /\ messages[q.message].ticket = q.ticket
      /\ messages[q.message].to = Built(q).to /\ messages[q.message].cc = Built(q).cc
  BY <1>1, <1>2 DEF Ready, Written, ToSend
<1>4. q.step \in ToSend /\ q.step \in Written
  BY <1>2 DEF Written, ToSend
<1>5. /\ \E k \in 1..Attempts : Accept(q, k)
      /\ UNCHANGED <<tickets, ticketSeen, lastNumber, messages, notices, settings, reported>>
  BY <1>1 DEF ReplyToTicketSend, rows
<1>6. PICK mail \in Mail, k \in 1..Attempts :
        /\ Attempted(mail, k)
        /\ mail.ticket = q.ticket /\ mail.message = q.message /\ mail.envelope = Built(q)
        /\ Named(mail.envelope) = Named(q.threading)
        /\ Match(Routes, mail.envelope.replyTo) # None
  BY <1>3, <1>5, AcceptedMail DEF Consistent
<1> DEFINE n == Len(mails')
<1>7. /\ TablesSound' /\ Kept /\ n \in Nat /\ n \in 1..n
      /\ \A i \in 1..n : i \in 1..Len(mails) \/ mails'[i].message = mail.message
      /\ \A i \in 1..Len(mails) : mails'[i] = mails[i]
      /\ mails'[n].message = mail.message
  <2>1. SentAs(mail, messages[mail.message])
    BY <1>3, <1>6 DEF SentAs
  <2>2. \A j \in 1..Len(mails) : mails[j].message # mail.message
    BY <1>1, <1>4, <1>6 DEF Consistent, RepliesApart
  <2>3. mail.message \in 0..Len(messages)
    BY <1>3, <1>6, SMT
  <2>4. QED
    BY <1>3, <1>5, <1>6, <2>1, <2>2, <2>3, MailSent DEF Consistent
<1>8. ASSUME NEW p \in Request, requests' = [requests EXCEPT ![r] = p],
             p.step \in Written => p.step = "replyStamp" /\ p.message = q.message,
             p.step # "submitCreate", Ready(p, Len(tickets'), messages', mails')
      PROVE  Onward
  <2>1. \A s \in Requests : requests'[s] = IF s = r THEN p ELSE requests[s]
    BY <1>8 DEF Consistent, RequestsReady
  <2>2. ASSUME NEW s \in Requests, NEW u \in Requests, s # u,
               requests'[s].step \in Written, requests'[u].step \in Written
        PROVE  requests'[s].message # requests'[u].message
    BY <1>1, <1>4, <1>8, <2>1, <2>2 DEF Consistent, RepliesApart
  <2>3. ASSUME NEW s \in Requests, requests'[s].step \in ToSend, NEW i \in 1..n
        PROVE  mails'[i].message # requests'[s].message
    <3>1. s # r /\ requests'[s] = requests[s]
      BY <1>8, <2>1, <2>3 DEF Written, ToSend
    <3>2. requests[s].step \in Written
      BY <2>3, <3>1 DEF Written
    <3>3. requests[s].message # q.message
      BY <1>1, <1>4, <3>1, <3>2 DEF Consistent, RepliesApart
    <3>4. QED
      BY <1>6, <1>7, <2>3, <3>1, <3>3 DEF Consistent, RepliesApart
  <2>4. RepliesApart'
    BY <1>7, <2>2, <2>3 DEF RepliesApart
  <2>5. NumbersHandedOut' /\ FreeStays
    BY <1>5, <1>8, NumbersStay DEF Consistent
  <2>6. QED
    BY <1>5, <1>7, <1>8, <2>4, <2>5, GoesOn
<1>9. CASE Return(r)
  <2>1. requests' = [requests EXCEPT ![r] = Idle]
    BY <1>9 DEF Return, Continue
  <2>2. Ready(Idle, Len(tickets'), messages', mails')
    BY IdleIsReady
  <2>3. QED
    BY <1>8, <2>1, <2>2, IdleAgain
<1>10. CASE Continue(r, [q EXCEPT !.step = "replyStamp", !.rfc = n])
  <2>1. PICK p : p = [q EXCEPT !.step = "replyStamp", !.rfc = n]
    OBVIOUS
  <2>2. n \in Nat
    BY <1>7
  <2>3. /\ p \in Request /\ p.step = "replyStamp" /\ p.rfc = n /\ p.message = q.message
        /\ p.ticket = q.ticket /\ p.row = q.row /\ p.threading = q.threading
    BY <2>1, <2>2, ZenonT(60) DEF Request, Steps
  <2>4. Built(p) = Built(q)
    BY <2>3, BuiltSame
  <2>5. \A id \in Named(p.threading) : Known(id, p.ticket, messages', mails')
    BY <1>3, <1>7, <2>3, KnownKept DEF Kept, Grown
  <2>6. p.rfc \in 1..Len(mails') /\ mails'[p.rfc].message = p.message
    BY <1>6, <1>7, <2>3
  <2>7. Ready(p, Len(tickets'), messages', mails')
    BY <1>3, <1>5, <2>3, <2>4, <2>5, <2>6 DEF Ready, Listing, Authored, Unsent, Written, ToSend
  <2>8. requests' = [requests EXCEPT ![r] = p]
    BY <1>10, <2>1 DEF Continue
  <2>9. p.step # "submitCreate"
    BY <2>3
  <2>10. QED
    BY <1>8, <2>3, <2>7, <2>8, <2>9
<1>11. QED
  BY <1>1, <1>9, <1>10 DEF ReplyToTicketSend

\* A notice is for no row yet.
LEMMA NoticeSendConsistent ==
  ASSUME Consistent, NEW r \in Requests, NoticeSend(r)
  PROVE  Onward
<1>1. PICK q \in Request : q = requests[r] /\ Ready(q, Len(tickets), messages, mails)
  BY InFlight
<1>2. q.step = "noticeSend"
  BY <1>1 DEF NoticeSend
<1>3. /\ q.ticket \in 1..Len(tickets) /\ q.row \in Ticket
      /\ \A id \in Named(q.threading) : Known(id, q.ticket, messages, mails)
      /\ q.message = 0
  BY <1>1, <1>2 DEF Ready, Unsent
<1>4. UNCHANGED <<tickets, ticketSeen, lastNumber, messages, notices, settings, reported>>
  BY DEF NoticeSend, rows
<1>5. PICK p : p = [q EXCEPT !.step = "notify"]
  OBVIOUS
<1>6. /\ p \in Request /\ p.step = "notify" /\ p.ticket = q.ticket /\ p.row = q.row
      /\ p.threading = q.threading
  BY <1>5, ZenonT(60) DEF Request, Steps
<1>7. Ready(p, Len(tickets), messages, mails) /\ p.step \notin Written \cup {"submitCreate"}
  BY <1>3, <1>6, EarlyReady DEF Written, ToSend
<1>8. Goto(r, "notify") => requests' = [requests EXCEPT ![r] = p]
  BY <1>1, <1>5 DEF Goto, Continue
<1>9. CASE Goto(r, "notify") /\ UNCHANGED mails
  BY <1>4, <1>6, <1>7, <1>8, <1>9, Reads DEF rows, sent
<1> DEFINE n == Len(mails')
<1>10. CASE /\ Built(q) # None /\ \E k \in 1..Attempts : Accept(q, k)
            /\ \/ Goto(r, "notify")
               \/ Continue(r, [q EXCEPT !.step = "noticeRow", !.rfc = n])
  <2>1. PICK mail \in Mail, k \in 1..Attempts :
          /\ Attempted(mail, k)
          /\ mail.ticket = q.ticket /\ mail.message = q.message /\ mail.envelope = Built(q)
          /\ Named(mail.envelope) = Named(q.threading)
          /\ Match(Routes, mail.envelope.replyTo) # None
    BY <1>3, <1>10, AcceptedMail DEF Consistent
  <2>2. /\ TablesSound' /\ Kept /\ n \in Nat /\ n \in 1..n
        /\ \A i \in 1..n : i \in 1..Len(mails) \/ mails'[i].message = mail.message
        /\ \A i \in 1..Len(mails) : mails'[i] = mails[i]
        /\ mails'[n].ticket = mail.ticket /\ mails'[n].message = mail.message
        /\ mails'[n].envelope = mail.envelope
    <3>1. mail.message \in 0..Len(messages)
      BY <1>3, <2>1, RowsTyped, SMT DEF Consistent
    <3>2. QED
      BY <1>3, <1>4, <2>1, <3>1, MailSent DEF Consistent
  <2>3. ASSUME NEW x \in Request, requests' = [requests EXCEPT ![r] = x],
               x.step \notin Written \cup {"submitCreate"},
               Ready(x, Len(tickets'), messages', mails')
        PROVE  Onward
    <3>1. \A s \in Requests : requests'[s] = IF s = r THEN x ELSE requests[s]
      BY <2>3 DEF Consistent, RequestsReady
    <3>2. ASSUME NEW s \in Requests, NEW u \in Requests, s # u,
                 requests'[s].step \in Written, requests'[u].step \in Written
          PROVE  requests'[s].message # requests'[u].message
      BY <2>3, <3>1, <3>2 DEF Consistent, RepliesApart
    <3>3. ASSUME NEW s \in Requests, requests'[s].step \in ToSend, NEW i \in 1..n
          PROVE  mails'[i].message # requests'[s].message
      <4>1. requests'[s] = requests[s] /\ requests[s].step \in Written
        BY <2>3, <3>1, <3>3 DEF Written
      <4>2. requests[s].message \in 1..Len(messages)
        BY <4>1, InFlight DEF Ready
      <4>3. requests[s].message # 0
        BY <4>2, SMT
      <4>4. QED
        BY <1>3, <2>1, <2>2, <3>3, <4>1, <4>3 DEF Consistent, RepliesApart
    <3>4. RepliesApart'
      BY <2>2, <3>2, <3>3 DEF RepliesApart
    <3>5. NumbersHandedOut' /\ FreeStays
      BY <1>4, <2>3, NumbersStay DEF Consistent
    <3>6. QED
      BY <1>4, <2>2, <2>3, <3>4, <3>5, GoesOn
  <2>4. CASE Goto(r, "notify")
    <3>1. Ready(p, Len(tickets'), messages', mails')
      BY <1>7, <2>2, ReadyKept DEF Kept, Grown, TicketsKept, Longer
    <3>2. QED
      BY <1>6, <1>7, <1>8, <2>3, <2>4, <3>1
  <2>5. CASE Continue(r, [q EXCEPT !.step = "noticeRow", !.rfc = n])
    <3>1. PICK x : x = [q EXCEPT !.step = "noticeRow", !.rfc = n]
      OBVIOUS
    <3>2. n \in Nat
      BY <2>2
    <3>3. /\ x \in Request /\ x.step = "noticeRow" /\ x.rfc = n /\ x.message = q.message
          /\ x.ticket = q.ticket /\ x.row = q.row /\ x.threading = q.threading
      BY <3>1, <3>2, ZenonT(60) DEF Request, Steps
    <3>4. Built(x) = Built(q)
      BY <3>3, BuiltSame
    <3>5. \A id \in Named(x.threading) : Known(id, x.ticket, messages', mails')
      BY <1>3, <2>2, <3>3, KnownKept DEF Kept, Grown
    <3>6. /\ x.rfc \in 1..Len(mails') /\ mails'[x.rfc].ticket = mail.ticket
          /\ mails'[x.rfc].message = mail.message /\ mails'[x.rfc].envelope = mail.envelope
      BY <2>2, <3>3
    <3>7. Ready(x, Len(tickets'), messages', mails')
      BY <1>3, <1>4, <1>10, <2>1, <3>3, <3>4, <3>5, <3>6
      DEF Ready, Listing, Authored, Unsent, Written, ToSend
    <3>8. requests' = [requests EXCEPT ![r] = x]
      BY <2>5, <3>1 DEF Continue
    <3>9. x.step \notin Written \cup {"submitCreate"}
      BY <3>3 DEF Written, ToSend
    <3>10. QED
      BY <2>3, <3>3, <3>7, <3>8, <3>9
  <2>6. QED
    BY <1>10, <2>4, <2>5
<1>11. QED
  BY <1>1, <1>9, <1>10 DEF NoticeSend

\* select_recipients: nobody is told of what they did, and of an assignment
\* only the two it is about.
LEMMA NotifiedRightly ==
  ASSUME NoticesConcernTheReader, NEW t, NEW row, NEW assignee, NEW event, NEW actor,
         notify_staff(t, row, assignee, event, actor)
  PROVE  NoticesConcernTheReader'
<1>1. PICK got \in SUBSET select_recipients(Members[row.instance], settings[row.instance],
                                            row.status, assignee, actor, event) :
        notices' = notices \cup {[user |-> u, ticket |-> t, event |-> event,
                                  actor |-> actor, subject |-> row.subject] : u \in got}
  BY DEF notify_staff
<1>2. ASSUME NEW u \in got
      PROVE  /\ actor \notin {u, MailboxOf[u]}
             /\ event.kind = "assigned" => u \in {event.old, event.new}
  <2>1. ~is_actor(u, actor) /\ reason_for(u, settings[row.instance][u], assignee, event)
    BY DEF select_recipients
  <2>2. "assigned" \notin Updates
    BY DEF Updates
  <2>3. QED
    BY <2>1, <2>2 DEF is_actor, reason_for
<1>3. ASSUME NEW n \in notices'
      PROVE  /\ n.actor \notin {n.user, MailboxOf[n.user]}
             /\ n.event.kind = "assigned" => n.user \in {n.event.old, n.event.new}
  <2>1. CASE n \in notices
    BY <2>1 DEF NoticesConcernTheReader
  <2>2. CASE n \notin notices
    <3>1. PICK u \in got : n = [user |-> u, ticket |-> t, event |-> event,
                                actor |-> actor, subject |-> row.subject]
      BY <1>1, <2>2
    <3>2. QED
      BY <1>2, <3>1
  <2>3. QED
    BY <2>1, <2>2
<1>4. QED
  BY <1>3 DEF NoticesConcernTheReader

\* A resolver's notices go out.
LEMMA NotifyConsistent ==
  ASSUME Consistent, NEW r \in Requests, Notify(r)
  PROVE  Onward
<1>4. NoticesConcernTheReader'
  BY NotifiedRightly DEF Notify, Consistent
<1>5. /\ requests' = [requests EXCEPT ![r] = Idle]
      /\ UNCHANGED <<tickets, ticketSeen, lastNumber, messages, mails, settings, reported>>
  BY DEF Notify, Return, Continue, rows
<1>6. TablesSound' /\ Kept
  BY <1>5, TablesLeft DEF Consistent
<1>7. Ready(Idle, Len(tickets'), messages', mails')
  BY IdleIsReady
<1>8. RequestsReady'
  BY <1>5, <1>6, <1>7, IdleAgain, OneGoesOn DEF Consistent
<1>9. RepliesApart'
  BY <1>5, IdleAgain, ApartStays DEF Consistent
<1>10. NumbersHandedOut' /\ FreeStays
  BY <1>5, IdleAgain, NumbersStay DEF Consistent
<1>11. SettingsTyped'
  BY <1>5 DEF Consistent, SettingsTyped
<1>12. QED
  BY <1>4, <1>6, <1>8, <1>9, <1>10, <1>11 DEF Consistent, Onward

\* Nothing but settings changes, or nothing at all.
LEMMA OthersLeft ==
  ASSUME Consistent, UNCHANGED <<rows, sent, reported, requests>>, SettingsTyped'
  PROVE  Onward
<1>1. UNCHANGED <<tickets, ticketSeen, lastNumber, messages, mails, notices, reported, requests>>
  BY DEF rows, sent
<1>2. TablesSound' /\ Kept
  BY <1>1, TablesLeft DEF Consistent
<1>3. RequestsReady' /\ RepliesApart'
  BY <1>1 DEF Consistent, RequestsReady, RepliesApart
<1>4. NumbersHandedOut'
  BY <1>1 DEF Consistent, NumbersHandedOut, Pending
<1>5. NoticesConcernTheReader'
  BY <1>1 DEF Consistent, NoticesConcernTheReader
<1>6. FreeStays
  BY <1>1 DEF FreeStays, Free, Pending
<1>7. QED
  BY <1>2, <1>3, <1>4, <1>5, <1>6 DEF Consistent, Onward

\* updateNotificationSettings patches one member's settings.
LEMMA UpdateNotificationSettingsConsistent ==
  ASSUME Consistent, NEW i \in Instances, NEW u \in Users, NEW on \in SUBSET Reasons,
         NEW off \in SUBSET Reasons, UpdateNotificationSettings(i, u, on, off)
  PROVE  Onward
<1>1. /\ settings' = [settings EXCEPT ![i][u] = merged_onto(on, off, @)]
      /\ UNCHANGED <<rows, sent, reported, requests>>
  BY DEF UpdateNotificationSettings
<1>2. SettingsTyped'
  <2>1. settings[i] \in [Users -> SUBSET Reasons]
    BY DEF Consistent, SettingsTyped
  <2>2. merged_onto(on, off, settings[i][u]) \in SUBSET Reasons
    BY <2>1 DEF merged_onto
  <2>3. [settings[i] EXCEPT ![u] = merged_onto(on, off, settings[i][u])]
            \in [Users -> SUBSET Reasons]
    BY <2>1, <2>2
  <2>4. settings' = [settings EXCEPT ![i] =
                       [settings[i] EXCEPT ![u] = merged_onto(on, off, settings[i][u])]]
    BY <1>1, Zenon
  <2>5. QED
    BY <2>3, <2>4 DEF Consistent, SettingsTyped
<1>3. QED
  BY <1>1, <1>2, OthersLeft

-----------------------------------------------------------------------------
(* Submitted tickets.                                                      *)

\* create_ticket puts an open, unassigned row with its markers and no paperclip.
LEMMA NewTicketTyped ==
  ASSUME NEW t \in Nat, NEW instance \in Instances, NEW number \in Nat,
         NEW subject \in SubjectTag, NEW requesters \in SUBSET Address,
         NEW ccs \in SUBSET Address, NEW row,
         row = NewTicket(t, instance, number, subject, requesters, ccs)
  PROVE  /\ row \in Ticket /\ Agrees(row) /\ ~row.hasAttachments
         /\ row.instance = instance /\ row.number = number
<1>1. PICK marks \in TicketMarkers :
        /\ marks = compute_ticket_markers(instance, "open", Nobody)
        /\ marks.status = "open" /\ marks.visible = instance /\ marks.assignee = Nobody
  <2>1. compute_ticket_markers(instance, "open", Nobody)
          = [status |-> "open", visible |-> instance, assignee |-> Nobody]
    BY DEF compute_ticket_markers
  <2>2. [status |-> "open", visible |-> instance, assignee |-> Nobody] \in TicketMarkers
    BY DEF TicketMarkers, Statuses
  <2>3. QED
    BY <2>1, <2>2
<1>2. "open" \in Statuses /\ Nobody \in Users \cup {Nobody} /\ FALSE \in BOOLEAN
  BY DEF Statuses
<1>3. /\ row \in Ticket /\ ~row.hasAttachments
      /\ row.instance = instance /\ row.number = number
      /\ row.status = "open" /\ row.assignee = Nobody /\ row.markers = marks
  BY <1>1, <1>2, Zenon DEF NewTicket, Ticket
<1>4. Agrees(row)
  BY <1>1, <1>3 DEF Agrees
<1>5. QED
  BY <1>3, <1>4

\* increment_ticket_counter: a number is taken that no ticket has and no other
\* resolver holds.
LEMMA NumberedConsistent ==
  ASSUME Consistent, NEW r \in Requests, NEW op, NEW i \in Instances,
         NEW subject \in SubjectTag, NEW requesters \in SUBSET Address,
         NEW ccs \in SUBSET Address, NEW from \in Address,
         Numbered(r, op, i, subject, requesters, ccs, from, "submitCreate")
  PROVE  Onward
<1> DEFINE last == lastNumber[i]
<1>1. last \in Nat /\ lastNumber \in [Instances -> Nat]
  BY DEF Consistent, NumbersHandedOut
<1>2. /\ lastNumber' = [lastNumber EXCEPT ![i] = last + 1]
      /\ lastNumber' \in [Instances -> Nat]
      /\ \A j \in Instances : lastNumber'[j] = IF j = i THEN last + 1 ELSE lastNumber[j]
  <2>1. lastNumber' = [lastNumber EXCEPT ![i] = last + 1]
    BY DEF Numbered, TakeNumber
  <2>2. QED
    BY <1>1, <2>1
<1>3. PICK row : row = NewTicket(0, i, last + 1, subject, requesters, ccs)
  OBVIOUS
<1>4. /\ row \in Ticket /\ Agrees(row) /\ ~row.hasAttachments
      /\ row.instance = i /\ row.number = last + 1
  <2>1. last + 1 \in Nat /\ 0 \in Nat
    BY <1>1
  <2> HIDE DEF last
  <2>2. QED
    BY <1>3, <2>1, NewTicketTyped
<1>5. PICK q : q = [Idle EXCEPT !.step = "submitCreate", !.actor = from, !.row = row]
  OBVIOUS
<1>6. /\ q \in Request /\ q.step = "submitCreate" /\ q.actor = from /\ q.row = row
      /\ q.threading = NoThreading /\ q.message = 0
  <2>1. Idle \in Request
    BY IdleIsReady
  <2>2. PICK a \in Request : a = Idle /\ a.threading = NoThreading /\ a.message = 0
    BY <2>1 DEF Idle
  <2>3. q = [a EXCEPT !.step = "submitCreate", !.actor = from, !.row = row]
    BY <1>5, <2>2
  <2>4. /\ "submitCreate" \in Steps /\ from \in Users \cup Address \cup {Nobody}
        /\ row \in Ticket \cup {None}
    BY <1>4 DEF Steps
  <2>5. q \in Request
    BY <2>3, <2>4, Zenon DEF Request
  <2>6. /\ q.step = "submitCreate" /\ q.actor = from /\ q.row = row
        /\ q.threading = a.threading /\ q.message = a.message
    BY <2>3, Zenon DEF Request
  <2>7. QED
    BY <2>2, <2>5, <2>6
<1>7. Ready(q, Len(tickets), messages, mails)
  BY <1>4, <1>6, NothingToKnow DEF Ready, Listing, Authored, Unsent, Written, ToSend
<1>8. /\ requests[r] = Idle /\ requests' = [requests EXCEPT ![r] = q]
      /\ UNCHANGED <<tickets, ticketSeen, messages, mails, notices, settings, reported>>
  <2>1. lastNumber'[i] = last + 1
    BY <1>2
  <2>2. Begin(r, op, [Idle EXCEPT !.step = "submitCreate", !.actor = from,
                      !.row = NewTicket(0, i, lastNumber'[i], subject, requesters, ccs)])
    BY Zenon DEF Numbered
  <2>3. requests[r] = Idle /\ requests' = [requests EXCEPT ![r] = q]
    BY <1>3, <1>5, <2>1, <2>2, Zenon DEF Begin
  <2>4. QED
    BY <2>3 DEF Numbered, sent
<1>9. TablesSound' /\ Kept
  BY <1>8, TablesLeft DEF Consistent
<1>10. Ready(q, Len(tickets'), messages', mails')
  BY <1>7, <1>8
<1>11. RepliesApart'
  <2>1. q.step \notin Written /\ q.step \notin ToSend
    BY <1>6 DEF Written, ToSend
  <2>2. QED
    BY <1>6, <1>8, <2>1, ApartStays DEF Consistent
<1>12. NumbersHandedOut'
  <2>1. \A s \in Requests : requests'[s] = IF s = r THEN q ELSE requests[s]
    BY <1>8 DEF Consistent, RequestsReady
  <2>2. ASSUME NEW t \in 1..Len(tickets)
        PROVE  /\ tickets[t].number <= lastNumber'[tickets[t].instance]
               /\ tickets[t].instance = i => tickets[t].number # last + 1
    <3>1. tickets[t] \in Ticket
      BY RowsTyped DEF Consistent
    <3>2. tickets[t].number \in Nat /\ tickets[t].instance \in Instances
      BY <3>1, SMT DEF Ticket
    <3>3. tickets[t].number <= lastNumber[tickets[t].instance]
      BY DEF Consistent, NumbersHandedOut
    <3>4. QED
      BY <1>1, <1>2, <3>2, <3>3, SMT
  <2>3. ASSUME NEW s \in Requests, s # r, Pending(s)'
        PROVE  /\ Pending(s) /\ requests'[s] = requests[s]
               /\ requests[s].row.number <= lastNumber'[requests[s].row.instance]
               /\ requests[s].row.instance = i => requests[s].row.number # last + 1
    <3>1. requests'[s] = requests[s] /\ Pending(s)
      BY <2>1, <2>3 DEF Pending
    <3>2. requests[s].row \in Ticket
      BY <3>1, InFlight DEF Pending, Ready
    <3>3. requests[s].row.number \in Nat /\ requests[s].row.instance \in Instances
      BY <3>2, SMT DEF Ticket
    <3>4. requests[s].row.number <= lastNumber[requests[s].row.instance]
      BY <3>1 DEF Consistent, NumbersHandedOut
    <3>5. QED
      BY <1>1, <1>2, <3>1, <3>3, <3>4, SMT
  <2>4. ASSUME NEW s \in Requests, Pending(s)'
        PROVE  /\ requests'[s].row.number <= lastNumber'[requests'[s].row.instance]
               /\ \A t \in 1..Len(tickets) : tickets[t].instance = requests'[s].row.instance
                                                => tickets[t].number # requests'[s].row.number
    <3>1. CASE s = r
      <4>1. requests'[s].row.number = last + 1 /\ requests'[s].row.instance = i
        BY <1>4, <1>6, <2>1, <3>1
      <4>2. lastNumber'[i] = last + 1
        BY <1>2
      <4>3. last + 1 <= last + 1
        BY <1>1
      <4>4. QED
        BY <2>2, <4>1, <4>2, <4>3
    <3>2. CASE s # r
      BY <2>3, <2>4, <3>2 DEF Consistent, NumbersHandedOut
    <3>3. QED
      BY <3>1, <3>2
  <2>5. ASSUME NEW s \in Requests, NEW u \in Requests, s # u, Pending(s)', Pending(u)',
               requests'[s].row.instance = requests'[u].row.instance
        PROVE  requests'[s].row.number # requests'[u].row.number
    <3>1. requests'[r].row.number = last + 1 /\ requests'[r].row.instance = i
      BY <1>4, <1>6, <2>1
    <3>2. CASE s = r
      BY <2>3, <2>5, <3>1, <3>2
    <3>3. CASE u = r
      BY <2>3, <2>5, <3>1, <3>3
    <3>4. CASE s # r /\ u # r
      BY <2>3, <2>5, <3>4 DEF Consistent, NumbersHandedOut
    <3>5. QED
      BY <3>2, <3>3, <3>4
  <2>6. \A s, t \in 1..Len(tickets) : s # t /\ tickets[s].instance = tickets[t].instance
                                        => tickets[s].number # tickets[t].number
    BY DEF Consistent, NumbersHandedOut
  <2>7. QED
    BY <1>2, <1>8, <2>2, <2>4, <2>5, <2>6 DEF NumbersHandedOut
<1>13. FreeStays
  <2>1. \A s \in Requests : requests'[s] = IF s = r THEN q ELSE requests[s]
    BY <1>8 DEF Consistent, RequestsReady
  <2>2. ASSUME NEW j \in Instances, NEW k \in Nat, Free(j, k)
        PROVE  Free(j, k)'
    <3>1. k <= lastNumber'[j] /\ (j = i => k # last + 1)
      BY <1>1, <1>2, <2>2, SMT DEF Free
    <3>2. ASSUME NEW s \in Requests, Pending(s)', requests'[s].row.instance = j
          PROVE  requests'[s].row.number # k
      <4>1. CASE s = r
        BY <1>4, <1>6, <2>1, <3>1, <3>2, <4>1
      <4>2. CASE s # r
        BY <2>1, <2>2, <3>2, <4>2 DEF Free, Pending
      <4>3. QED
        BY <4>1, <4>2
    <3>3. QED
      BY <1>8, <2>2, <3>1, <3>2 DEF Free
  <2>3. QED
    BY <2>2 DEF FreeStays
<1>14. QED
  BY <1>6, <1>8, <1>9, <1>10, <1>11, <1>12, <1>13, GoesOn

\* open_submitted_ticket: the ticket has the number that was taken for it.
LEMMA SubmittedCreateConsistent ==
  ASSUME Consistent, NEW r \in Requests, SubmittedCreate(r)
  PROVE  Onward
<1>1. PICK q \in Request : q = requests[r] /\ Ready(q, Len(tickets), messages, mails)
  BY InFlight
<1>2. q.step = "submitCreate"
  BY <1>1 DEF SubmittedCreate
<1>3. /\ q.row \in Ticket /\ q.threading = NoThreading /\ ~q.row.hasAttachments /\ Agrees(q.row)
      /\ q.actor \in Users \cup Address /\ q.message = 0
  BY <1>1, <1>2 DEF Ready, Authored, Unsent
<1> DEFINE n == Len(tickets)
<1>4. n \in Nat
  BY RowsTyped DEF Consistent
<1>5. PICK row : row = [q.row EXCEPT !.token = n + 1]
  OBVIOUS
<1>6. /\ row \in Ticket /\ ~row.hasAttachments
      /\ row.instance = q.row.instance /\ row.number = q.row.number
      /\ row.status = q.row.status /\ row.assignee = q.row.assignee /\ row.markers = q.row.markers
  <2>1. n + 1 \in Nat
    BY <1>4
  <2>2. PICK x \in Ticket : x = q.row /\ ~x.hasAttachments
    BY <1>3
  <2>3. row = [x EXCEPT !.token = n + 1]
    BY <1>5, <2>2
  <2>4. /\ row \in Ticket /\ row.hasAttachments = x.hasAttachments
        /\ row.instance = x.instance /\ row.number = x.number
        /\ row.status = x.status /\ row.assignee = x.assignee /\ row.markers = x.markers
    BY <2>1, <2>3, Zenon DEF Ticket
  <2>5. QED
    BY <2>2, <2>4
<1>7. Agrees(row)
  BY <1>3, <1>6 DEF Agrees
<1>8. PICK p : p = [q EXCEPT !.step = "submitMessage", !.ticket = n + 1, !.row = row]
  OBVIOUS
<1>9. /\ p \in Request /\ p.step = "submitMessage" /\ p.ticket = n + 1 /\ p.row = row
      /\ p.threading = q.threading /\ p.actor = q.actor /\ p.message = q.message
  <2>1. n + 1 \in Nat
    BY <1>4
  <2>2. QED
    BY <1>6, <1>8, <2>1, ZenonT(60) DEF Request, Steps
<1>10. /\ CreateTicket(row) /\ requests' = [requests EXCEPT ![r] = p]
       /\ UNCHANGED <<lastNumber, messages, mails, notices, settings, reported>>
  BY <1>1, <1>5, <1>8, Zenon DEF SubmittedCreate, Continue, sent
<1>11. /\ TablesSound' /\ Kept
       /\ Len(tickets') = n + 1
       /\ \A s \in 1..n : tickets'[s] = tickets[s]
       /\ tickets'[n + 1] = row
  BY <1>6, <1>7, <1>10, TicketCreated DEF Consistent
<1>12. Ready(p, Len(tickets'), messages', mails')
  <2>1. p.ticket \in 1..Len(tickets')
    BY <1>4, <1>9, <1>11, SMT
  <2>2. QED
    BY <1>3, <1>6, <1>9, <2>1, NothingToKnow
    DEF Ready, Listing, Authored, Unsent, Written, ToSend
<1>13. RepliesApart'
  <2>1. p.step \notin Written /\ p.step \notin ToSend
    BY <1>9 DEF Written, ToSend
  <2>2. QED
    BY <1>9, <1>10, <2>1, ApartStays DEF Consistent
<1>14. NumbersHandedOut'
  <2>1. \A s \in Requests : requests'[s] = IF s = r THEN p ELSE requests[s]
    BY <1>10 DEF Consistent, RequestsReady
  <2>2. \A s \in Requests : Pending(s)' => s # r /\ Pending(s) /\ requests'[s] = requests[s]
    BY <1>9, <2>1 DEF Pending
  <2>3. Pending(r) /\ requests[r].row = q.row
    BY <1>1, <1>2 DEF Pending
  <2>4. \A t \in 1..(n + 1) : t \in 1..n \/ t = n + 1
    BY <1>4, SMT
  <2>5. /\ row.number <= lastNumber[row.instance]
        /\ \A t \in 1..n : tickets[t].instance = row.instance => tickets[t].number # row.number
    BY <1>6, <2>3 DEF Consistent, NumbersHandedOut
  <2>6. \A t \in 1..(n + 1) : tickets'[t].number <= lastNumber'[tickets'[t].instance]
    BY <1>10, <1>11, <2>4, <2>5 DEF Consistent, NumbersHandedOut
  <2>7. ASSUME NEW s \in 1..(n + 1), NEW t \in 1..(n + 1), s # t,
               tickets'[s].instance = tickets'[t].instance
        PROVE  tickets'[s].number # tickets'[t].number
    BY <1>11, <2>4, <2>5, <2>7 DEF Consistent, NumbersHandedOut
  <2>8. ASSUME NEW s \in Requests, Pending(s)'
        PROVE  /\ requests'[s].row.number <= lastNumber'[requests'[s].row.instance]
               /\ \A t \in 1..(n + 1) : tickets'[t].instance = requests'[s].row.instance
                                            => tickets'[t].number # requests'[s].row.number
    <3>1. s # r /\ Pending(s) /\ requests'[s] = requests[s]
      BY <2>2, <2>8
    <3>2. /\ requests[s].row.number <= lastNumber[requests[s].row.instance]
          /\ \A t \in 1..n : tickets[t].instance = requests[s].row.instance
                                => tickets[t].number # requests[s].row.number
      BY <3>1 DEF Consistent, NumbersHandedOut
    <3>3. row.instance = requests[s].row.instance => row.number # requests[s].row.number
      BY <1>6, <2>3, <3>1 DEF Consistent, NumbersHandedOut
    <3>4. QED
      BY <1>10, <1>11, <2>4, <3>1, <3>2, <3>3
  <2>9. ASSUME NEW s \in Requests, NEW u \in Requests, s # u, Pending(s)', Pending(u)',
               requests'[s].row.instance = requests'[u].row.instance
        PROVE  requests'[s].row.number # requests'[u].row.number
    BY <2>2, <2>9 DEF Consistent, NumbersHandedOut
  <2>10. lastNumber' \in [Instances -> Nat]
    BY <1>10 DEF Consistent, NumbersHandedOut
  <2>11. QED
    BY <1>11, <2>6, <2>7, <2>8, <2>9, <2>10 DEF NumbersHandedOut
<1>15. FreeStays
  <2>1. \A s \in Requests : requests'[s] = IF s = r THEN p ELSE requests[s]
    BY <1>10 DEF Consistent, RequestsReady
  <2>2. \A s \in Requests : Pending(s)' => Pending(s) /\ requests'[s] = requests[s]
    BY <1>9, <2>1 DEF Pending
  <2>3. Pending(r) /\ requests[r].row = q.row
    BY <1>1, <1>2 DEF Pending
  <2>4. \A t \in 1..(n + 1) : t \in 1..n \/ t = n + 1
    BY <1>4, SMT
  <2>5. ASSUME NEW j \in Instances, NEW k \in Nat, Free(j, k)
        PROVE  Free(j, k)'
    <3>1. k <= lastNumber'[j]
      BY <1>10, <2>5 DEF Free
    <3>2. row.instance = j => row.number # k
      BY <1>6, <2>3, <2>5 DEF Free
    <3>3. \A t \in 1..(n + 1) : tickets'[t].instance = j => tickets'[t].number # k
      BY <1>11, <2>4, <2>5, <3>2 DEF Free
    <3>4. QED
      BY <1>11, <2>2, <2>5, <3>1, <3>3 DEF Free
  <2>6. QED
    BY <2>5 DEF FreeStays
<1>16. QED
  BY <1>9, <1>10, <1>11, <1>12, <1>13, <1>14, <1>15, GoesOn

-----------------------------------------------------------------------------
(* The tickets that exist initially.                                       *)

\* Some of n tickets are finitely many.
LEMMA OwnCounted ==
  ASSUME NEW n \in Nat, NEW own, own \subseteq 1..n
  PROVE  IsFiniteSet(own) /\ Cardinality(own) \in Nat
<1>1. IsFiniteSet(1..n)
  BY FS_Interval
<1>2. own \in SUBSET (1..n)
  OBVIOUS
<1>3. IsFiniteSet(own)
  BY <1>1, <1>2, FS_Subset
<1>4. QED
  BY <1>3, FS_CardinalityType

\* A set with one element more is larger.
LEMMA FewerBefore ==
  ASSUME NEW few, NEW many, IsFiniteSet(many), few \subseteq many,
         NEW t \in many, t \notin few
  PROVE  Cardinality(few) < Cardinality(many)
<1>1. IsFiniteSet(many \ {t}) /\ Cardinality(many \ {t}) = Cardinality(many) - 1
  BY FS_RemoveElement
<1>2. few \in SUBSET (many \ {t})
  OBVIOUS
<1>3. Cardinality(few) <= Cardinality(many \ {t})
  BY <1>1, <1>2, FS_Subset
<1>4. Cardinality(many) \in Nat /\ Cardinality(few) \in Nat
  <2>1. IsFiniteSet(few)
    BY <1>1, <1>2, FS_Subset
  <2>2. QED
    BY <2>1, FS_CardinalityType
<1>5. QED
  BY <1>1, <1>3, <1>4

\* A table with one row for each of n.
LEMMA TableOf ==
  ASSUME NEW S, NEW n \in Nat, NEW f \in [1..n -> S]
  PROVE  f \in Seq(S) /\ Len(f) = n
<1>1. f \in Seq(S)
  BY SeqDef
<1>2. Len(f) \in Nat /\ DOMAIN f = 1..Len(f) /\ DOMAIN f = 1..n
  BY <1>1, LenProperties
<1>3. QED
  BY <1>2, SMT

\* The tickets there are initially are numbered, each with its first message.
LEMMA InitConsistent ==
  ASSUME Init
  PROVE  Consistent
<1> DEFINE n      == Len(Opened)
           own(t) == {s \in 1..t : Opened[s].instance = Opened[t].instance}
           all(i) == {t \in DOMAIN Opened : Opened[t].instance = i}
           first(t) == NewTicket(t, Opened[t].instance, Cardinality(own(t)), None,
                                 Opened[t].requesters, Opened[t].ccs)
           author(t) == CHOOSE e \in Opened[t].requesters : TRUE
           opening(t) == NewMessage(t, "inbound", author(t), {}, {}, <<>>)
<1>1. n \in Nat /\ DOMAIN Opened = 1..n
  BY OpenedAssumption, LenProperties
<1>2. /\ tickets = [t \in 1..n |-> first(t)]
      /\ ticketSeen = [t \in 1..n |-> {first(t)}]
      /\ lastNumber = [i \in Instances |-> Cardinality(all(i))]
      /\ messages = [t \in 1..n |-> opening(t)]
      /\ mails = <<>> /\ notices = {} /\ reported = {}
      /\ settings = [i \in Instances |-> [u \in Users |-> DefaultSettings]]
      /\ requests = [r \in Requests |-> Idle]
  <2>1. DOMAIN Opened = 1..n
    BY <1>1
  <2>2. QED
    BY <2>1, Zenon DEF Init
<1>3. ASSUME NEW t \in 1..n
      PROVE  /\ Opened[t].instance \in Instances
             /\ Opened[t].requesters \in SUBSET Address /\ Opened[t].requesters # {}
             /\ Opened[t].ccs \in SUBSET Address
  <2>1. PICK x \in [instance   : Instances,
                    requesters : (SUBSET Address) \ {{}},
                    ccs        : SUBSET Address] : x = Opened[t]
    BY OpenedAssumption, ElementOfSeq
  <2>2. /\ x.instance \in Instances
        /\ x.requesters \in (SUBSET Address) \ {{}}
        /\ x.ccs \in SUBSET Address
    BY Zenon
  <2>3. QED
    BY <2>1, <2>2
<1>4. ASSUME NEW t \in 1..n
      PROVE  /\ own(t) \subseteq all(Opened[t].instance) /\ own(t) \subseteq 1..n /\ t \in own(t)
             /\ Cardinality(own(t)) \in Nat
  <2>1. t \in Nat /\ 1..t \subseteq 1..n /\ t \in 1..t
    BY <1>1, SMT
  <2>2. own(t) \subseteq all(Opened[t].instance) /\ own(t) \subseteq 1..n /\ t \in own(t)
    BY <1>1, <2>1
  <2>3. QED
    BY <1>1, <2>2, OwnCounted
<1>5. ASSUME NEW i \in Instances
      PROVE  IsFiniteSet(all(i)) /\ Cardinality(all(i)) \in Nat
  <2>1. all(i) \subseteq 1..n
    BY <1>1
  <2>2. QED
    BY <1>1, <2>1, OwnCounted
<1>6. ASSUME NEW t \in 1..n
      PROVE  /\ first(t) \in Ticket /\ Agrees(first(t)) /\ ~first(t).hasAttachments
             /\ first(t).instance = Opened[t].instance
             /\ first(t).number = Cardinality(own(t))
  <2>1. PICK row : row = first(t)
    OBVIOUS
  <2>2. t \in Nat /\ None \in SubjectTag
    BY <1>1, SMT DEF SubjectTag
  <2>3. Cardinality(own(t)) \in Nat
    BY <1>4
  <2> HIDE DEF own
  <2>4. /\ row \in Ticket /\ Agrees(row) /\ ~row.hasAttachments
        /\ row.instance = Opened[t].instance /\ row.number = Cardinality(own(t))
    BY <1>3, <2>1, <2>2, <2>3, NewTicketTyped
  <2>5. QED
    BY <2>1, <2>4
<1>7. ASSUME NEW t \in 1..n
      PROVE  /\ opening(t) \in TicketMessage
             /\ opening(t).ticket = t /\ opening(t).kind = "inbound"
             /\ opening(t).rfc = None /\ opening(t).references = <<>>
  <2>1. author(t) \in Address
    BY <1>3
  <2>2. /\ t \in Nat /\ "inbound" \in Kinds /\ {} \in SUBSET Address
        /\ <<>> \in Seq(MessageId)
    BY <1>1, NoReferences DEF Kinds
  <2> HIDE DEF author
  <2>3. QED
    BY <2>1, <2>2, Zenon DEF NewMessage, TicketMessage
<1> HIDE DEF first, opening, own, all
<1>8. /\ tickets \in Seq(Ticket) /\ Len(tickets) = n
      /\ ticketSeen \in Seq(SUBSET Ticket) /\ Len(ticketSeen) = n
      /\ messages \in Seq(TicketMessage) /\ Len(messages) = n
  <2>1. /\ tickets \in [1..n -> Ticket] /\ ticketSeen \in [1..n -> SUBSET Ticket]
        /\ messages \in [1..n -> TicketMessage]
    BY <1>2, <1>6, <1>7
  <2>2. QED
    BY <1>1, <2>1, TableOf
<1>9. TicketsSound
  BY <1>2, <1>6, <1>8 DEF TicketsSound
<1>10. MessagesSound
  <2>1. \A m \in 1..n : messages[m] = opening(m)
    BY <1>2
  <2>2. \A m \in 1..n : Range(messages[m].references) = {}
    BY <1>7, <2>1, NoReferences
  <2>3. QED
    BY <1>7, <1>8, <2>1, <2>2 DEF MessagesSound
<1>11. mails \in Seq(Mail) /\ Len(mails) = 0 /\ 1..Len(mails) = {}
  BY <1>2, EmptySeq, SMT
<1>12. MailsSound
  BY <1>11 DEF MailsSound
<1>13. RecordSound
  <2>1. \A m \in 1..n : messages[m].kind = "inbound"
    BY <1>2, <1>7
  <2>2. QED
    BY <1>2, <1>8, <1>11, <2>1 DEF RecordSound
<1>14. PaperclipsSound
  BY <1>2, <1>6, <1>8 DEF PaperclipsSound
<1>15. RequestsReady
  BY <1>2, IdleIsReady DEF RequestsReady
<1>16. RepliesApart
  BY <1>2, IdleIsReady DEF RepliesApart, Written, ToSend
<1>17. NumbersHandedOut
  <2>1. \A r \in Requests : ~Pending(r)
    BY <1>2, IdleIsReady DEF Pending
  <2>2. lastNumber \in [Instances -> Nat]
    BY <1>2, <1>5
  <2>3. \A t \in 1..n : /\ tickets[t].number = Cardinality(own(t))
                        /\ tickets[t].instance = Opened[t].instance
    BY <1>2, <1>6
  <2>4. ASSUME NEW t \in 1..n
        PROVE  tickets[t].number <= lastNumber[tickets[t].instance]
    <3>1. Opened[t].instance \in Instances
      BY <1>3
    <3>2. own(t) \in SUBSET all(Opened[t].instance) /\ IsFiniteSet(all(Opened[t].instance))
      BY <1>4, <1>5, <3>1
    <3>3. Cardinality(own(t)) <= Cardinality(all(Opened[t].instance))
      BY <3>2, FS_Subset
    <3>4. QED
      BY <1>2, <2>3, <3>1, <3>3
  <2>5. ASSUME NEW s \in 1..n, NEW t \in 1..n, s < t, Opened[s].instance = Opened[t].instance
        PROVE  Cardinality(own(s)) < Cardinality(own(t))
    <3>1. own(s) \subseteq own(t) /\ t \notin own(s)
      <4>1. 1..s \subseteq 1..t /\ t \notin 1..s
        BY <1>1, <2>5, SMT
      <4>2. QED
        BY <2>5, <4>1 DEF own
    <3>2. t \in own(t) /\ IsFiniteSet(own(t))
      BY <1>1, <1>4, OwnCounted
    <3>3. QED
      BY <3>1, <3>2, FewerBefore
  <2>6. ASSUME NEW s \in 1..n, NEW t \in 1..n, s # t, tickets[s].instance = tickets[t].instance
        PROVE  tickets[s].number # tickets[t].number
    <3>1. Opened[s].instance = Opened[t].instance
      BY <2>3, <2>6
    <3>2. s < t \/ t < s
      BY <1>1, <2>6, SMT
    <3>3. \/ Cardinality(own(s)) < Cardinality(own(t))
          \/ Cardinality(own(t)) < Cardinality(own(s))
      BY <2>5, <3>1, <3>2
    <3>4. Cardinality(own(s)) \in Nat /\ Cardinality(own(t)) \in Nat
      BY <1>4
    <3>5. Cardinality(own(s)) # Cardinality(own(t))
      BY <3>3, <3>4
    <3>6. QED
      BY <2>3, <3>5
  <2>7. QED
    BY <1>8, <2>1, <2>2, <2>4, <2>6 DEF NumbersHandedOut
<1>18. SettingsTyped
  <2>1. DefaultSettings \in SUBSET Reasons
    BY DEF DefaultSettings
  <2>2. QED
    BY <1>2, <2>1 DEF SettingsTyped
<1>19. NoticesConcernTheReader
  BY <1>2 DEF NoticesConcernTheReader
<1>20. QED
  BY <1>9, <1>10, <1>12, <1>13, <1>14, <1>15, <1>16, <1>17, <1>18, <1>19
  DEF Consistent, TablesSound

-----------------------------------------------------------------------------
(* Every step.                                                             *)

\* Whichever mutation begins.
LEMMA ReadConsistent ==
  ASSUME Consistent, NEW r \in Requests, Read(r)
  PROVE  Onward
<1>1. PICK u \in Users, t \in DOMAIN tickets :
        \/ \E status \in Statuses : SetTicketStatusRead(r, u, t, status)
        \/ \E assignee \in Users \cup {Nobody} : AssignTicketRead(r, u, t, assignee)
        \/ \E email \in Customers :
            \/ ListEditRead(r, u, t, "addTicketRequester", "addRequester", email)
            \/ RemoveTicketRequesterRead(r, u, t, email)
            \/ ListEditRead(r, u, t, "addTicketCc", "addCc", email)
            \/ ListEditRead(r, u, t, "removeTicketCc", "removeCc", email)
        \/ AddInternalNoteRead(r, u, t)
        \/ \E attach \in {"none", "pending", "foreign"} : ReplyToTicketRead(r, u, t, attach)
  BY DEF Read
<1>2. CASE \E status \in Statuses : SetTicketStatusRead(r, u, t, status)
  BY <1>2, SetTicketStatusReadConsistent
<1>3. CASE \E assignee \in Users \cup {Nobody} : AssignTicketRead(r, u, t, assignee)
  BY <1>3, AssignTicketReadConsistent
<1>4. ASSUME NEW op, NEW step \in Listing, NEW email \in Customers,
             ListEditRead(r, u, t, op, step, email)
      PROVE  Onward
  BY <1>4, ListEditReadConsistent
<1>5. ASSUME NEW email \in Customers, RemoveTicketRequesterRead(r, u, t, email)
      PROVE  Onward
  BY <1>5, RemoveTicketRequesterReadConsistent
<1>6. CASE AddInternalNoteRead(r, u, t)
  BY <1>6, AddInternalNoteReadConsistent
<1>7. CASE \E attach \in {"none", "pending", "foreign"} : ReplyToTicketRead(r, u, t, attach)
  BY <1>7, ReplyToTicketReadConsistent
<1>8. "addRequester" \in Listing /\ "addCc" \in Listing /\ "removeCc" \in Listing
  BY DEF Listing
<1>9. QED
  BY <1>1, <1>2, <1>3, <1>4, <1>5, <1>6, <1>7, <1>8

\* submitTicket and submitVerifiedTicket begin.
LEMMA SubmitConsistent ==
  ASSUME Consistent, NEW r \in Requests, Submit(r)
  PROVE  Onward
<1>1. PICK i \in Instances, subject \in Subjects, from \in Customers :
        \/ SubmitTicket(r, i, from, subject)
        \/ \E to, cc \in SUBSET Customers : SubmitVerifiedTicket(r, i, to, cc, from, subject)
  BY DEF Submit
<1>2. subject \in SubjectTag /\ from \in Address /\ {from} \in SUBSET Address
      /\ SUBSET Customers \subseteq SUBSET Address /\ {} \in SUBSET Address
  BY SubjectsAssumption, PeopleAssumption
<1>3. CASE SubmitTicket(r, i, from, subject)
  BY <1>2, <1>3, NumberedConsistent DEF SubmitTicket
<1>4. ASSUME NEW to \in SUBSET Customers, NEW cc \in SUBSET Customers,
             SubmitVerifiedTicket(r, i, to, cc, from, subject)
      PROVE  Onward
  <2>1. to \in SUBSET Address /\ cc \in SUBSET Address
    BY <1>2
  <2>2. QED
    BY <1>2, <1>4, <2>1, NumberedConsistent DEF SubmitVerifiedTicket
<1>5. QED
  BY <1>1, <1>3, <1>4

\* Whichever storage call or send is next.
LEMMA StepConsistent ==
  ASSUME Consistent, NEW r \in Requests, Step(r)
  PROVE  Onward
BY SetTicketStatusWriteConsistent, AssignTicketWriteConsistent, ListEditWriteConsistent,
   AddInternalNoteCreateConsistent, ReplyToTicketCreateConsistent, ReplyToTicketAttachConsistent,
   ReplyToTicketFlagConsistent, ReplyToTicketSendConsistent, ReplyToTicketStampConsistent,
   SubmittedCreateConsistent, SubmittedMessageConsistent, NoticeSendConsistent,
   NoticeRowConsistent, NoticeStampConsistent, NotifyConsistent
DEF Step

\* Any step of any resolver, or of a member's settings.
LEMMA NextConsistent ==
  ASSUME Consistent, [Next]_vars
  PROVE  Onward
<1>1. CASE \E r \in Requests : Read(r) \/ Submit(r) \/ Step(r) \/ Stop(r)
  BY <1>1, ReadConsistent, SubmitConsistent, StepConsistent, StopConsistent
<1>2. ASSUME NEW i \in Instances, NEW u \in Users, NEW reason \in Reasons,
             \/ UpdateNotificationSettings(i, u, {reason}, {})
             \/ UpdateNotificationSettings(i, u, {}, {reason})
      PROVE  Onward
  BY <1>2, UpdateNotificationSettingsConsistent
<1>3. CASE UNCHANGED vars
  <2>1. UNCHANGED <<rows, sent, settings, reported, requests>>
    BY <1>3 DEF vars, rows, sent
  <2>2. SettingsTyped'
    BY <2>1 DEF Consistent, SettingsTyped
  <2>3. QED
    BY <2>1, <2>2, OthersLeft
<1>4. QED
  BY <1>1, <1>2, <1>3 DEF Next

\* Whatever resolvers do in whatever order, and wherever they stop, the tables,
\* the mails and what the resolvers hold belong together.
THEOREM AlwaysConsistent == Spec => []Consistent
<1>1. Init => Consistent
  BY InitConsistent
<1>2. Consistent /\ [Next]_vars => Consistent'
  BY NextConsistent DEF Onward
<1>3. QED
  BY <1>1, <1>2, PTL DEF Spec

-----------------------------------------------------------------------------
(* What follows.                                                           *)

\* Tables are indexed from 1.
LEMMA TablesHaveRows ==
  ASSUME Consistent
  PROVE  /\ DOMAIN tickets = 1..Len(tickets) /\ DOMAIN ticketSeen = 1..Len(tickets)
         /\ DOMAIN messages = 1..Len(messages) /\ DOMAIN mails = 1..Len(mails)
BY LenProperties DEF Consistent, TablesSound, TicketsSound, MessagesSound, MailsSound

\* Where no mail comes in, a customer's message names nothing.
Bare == \A m \in 1..Len(messages) : messages[m].kind = "inbound" => messages[m].references = <<>>

\* submitTicket and submitVerifiedTicket: so it is in Tickets.
LEMMA AlwaysBare == Spec => []Bare
<1>1. Init => Bare
  <2> SUFFICES ASSUME Init PROVE Bare
    OBVIOUS
  <2>2. Consistent
    BY InitConsistent
  <2>3. 1..Len(messages) = DOMAIN messages
    BY <2>2, TablesHaveRows
  <2>4. \A t \in DOMAIN messages : messages[t].references = <<>>
    BY DEF Init, NewMessage
  <2>5. QED
    BY <2>3, <2>4 DEF Bare
<1>2. Consistent /\ Bare /\ [Next]_vars => Bare'
  <2> SUFFICES ASSUME Consistent, Bare, [Next]_vars PROVE Bare'
    OBVIOUS
  <2>1. MessagesKept(messages, messages') /\ ReceivedStay
    BY NextConsistent DEF Onward, Kept, Grown
  <2>2. QED
    BY <2>1 DEF Bare, MessagesKept, ReceivedStay
<1>3. QED
  BY <1>1, <1>2, AlwaysConsistent, PTL DEF Spec

\* Rows, mails and requests are well formed.
LEMMA ConsistentTyped ==
  ASSUME Consistent
  PROVE  TypeOK
<1>1. /\ tickets \in Seq(Ticket)
      /\ DOMAIN ticketSeen = DOMAIN tickets
      /\ \A t \in DOMAIN tickets : tickets[t] \in ticketSeen[t] /\ ticketSeen[t] \subseteq Ticket
  BY TablesHaveRows, RowsTyped DEF Consistent, TablesSound, TicketsSound
<1>2. /\ lastNumber \in [Instances -> Nat]
      /\ settings \in [Instances -> [Users -> SUBSET Reasons]]
      /\ messages \in Seq(TicketMessage)
      /\ \A m \in DOMAIN messages : messages[m].ticket \in DOMAIN tickets
  BY TablesHaveRows DEF Consistent, NumbersHandedOut, SettingsTyped, TablesSound, MessagesSound
<1>3. \A m \in DOMAIN mails : mails[m].envelope \in Envelope
  BY TablesHaveRows, RowsTyped, SMT DEF Consistent, Mail
<1>4. reported \subseteq DOMAIN messages
  BY TablesHaveRows DEF Consistent, TablesSound, RecordSound
<1>5. ASSUME NEW r \in Requests
      PROVE  /\ requests[r].step \notin {"idle", "submitCreate"}
                  => requests[r].ticket \in DOMAIN tickets
             /\ requests[r].step \in {"replyAttach", "replySend", "replyStamp", "noticeStamp"}
                  => requests[r].message \in DOMAIN messages
  BY TablesHaveRows, InFlight DEF Ready, Written, ToSend
<1>6. requests \in [Requests -> Request]
  BY DEF Consistent, RequestsReady
<1>7. QED
  BY <1>1, <1>2, <1>3, <1>4, <1>5, <1>6 DEF TypeOK

\* Type correctness: rows, mails and requests are well formed, and what a
\* resolver in flight carries names a ticket, and for a row to be stamped a
\* message, that exists.
THEOREM TypeCorrect == Spec => []TypeOK
BY ConsistentTyped, AlwaysConsistent, PTL

\* compute_ticket_markers "is the single place that decides": every row a
\* ticket ever has is in just the listings its own status and assignee put it
\* in, whichever of the racing status and assignee writes came last.
THEOREM MarkersAlwaysAgree == Spec => []MarkersAgree
<1>1. Consistent => MarkersAgree
  BY TablesHaveRows DEF Consistent, TablesSound, TicketsSound, Agrees, MarkersAgree
<1>2. QED
  BY <1>1, AlwaysConsistent, PTL

\* Record, mails, reports and paperclips agree.
LEMMA ConsistentRecorded ==
  ASSUME Consistent
  PROVE  RepliesAsRecorded
<1>1. ReplyOnRecord
  BY TablesHaveRows, ZenonT(60) DEF Consistent, TablesSound, RecordSound, OneSend, SentAs, StampedAs, ReplyOnRecord
<1>2. ReportedWereSent
  <2>1. ASSUME NEW m \in reported
        PROVE  messages[m].rfc # None /\ mails[messages[m].rfc].message = m
    <3>1. m \in 1..Len(messages) /\ messages[m].kind = "reply" /\ messages[m].rfc # None
      BY DEF Consistent, TablesSound, RecordSound
    <3>2. StampedAs(m, mails[messages[m].rfc])
      BY <3>1 DEF Consistent, TablesSound, RecordSound
    <3>3. QED
      BY <3>1, <3>2 DEF StampedAs
  <2>2. QED
    BY <2>1 DEF ReportedWereSent
<1>3. PaperclipTrue
  BY TablesHaveRows DEF Consistent, TablesSound, PaperclipsSound, PaperclipTrue
<1>4. QED
  BY <1>1, <1>2, <1>3 DEF RepliesAsRecorded

\* replyToTicket: whatever fails or is edited between its steps, customers have
\* no reply that is not on record with just those recipients, and those of one row
\* are one mail, as often as the SDK's attempts of one send were accepted; what an
\* agent was told was sent was; a paperclip has a file.
THEOREM RepliesAlwaysAsRecorded == Spec => []RepliesAsRecorded
BY ConsistentRecorded, AlwaysConsistent, PTL

\* The headers of a mail (threading_for) name mail of its own ticket only, and no two
\* tickets of an instance have one number (increment_ticket_counter).
THEOREM MailsAlwaysNameTheirTicket == Spec => []MailsNameTheirTicket
<1>1. Consistent /\ Bare => MailsNameTheirTicket
  <2> SUFFICES ASSUME Consistent, Bare PROVE MailsNameTheirTicket
    OBVIOUS
  <2>1. NumbersUnique
    BY TablesHaveRows DEF Consistent, NumbersHandedOut, NumbersUnique
  <2>2. ASSUME NEW i \in DOMAIN mails, NEW id \in Named(mails[i].envelope)
        PROVE  \/ id \in 1..(i - 1) /\ mails[id].ticket = mails[i].ticket
               \/ id \in Incoming /\ \E m \in DOMAIN messages :
                    messages[m].rfc = id /\ messages[m].ticket = mails[i].ticket
    <3>1. /\ Known(id, mails[i].ticket, messages, mails)
          /\ id \in Nat => id < i \/ Heard(id, mails[i].ticket, messages)
      BY TablesHaveRows DEF Consistent, TablesSound, MailsSound
    <3>2. ~Heard(id, mails[i].ticket, messages)
      BY NoReferences DEF Heard, Bare
    <3>3. CASE id \in 1..Len(mails) /\ mails[id].ticket = mails[i].ticket
      <4>1. id \in 1..(i - 1)
        BY <3>1, <3>3, <3>2, TablesHaveRows, SMT
      <4>2. QED
        BY <3>3, <4>1
    <3>4. CASE id \in Incoming /\ \E m \in 1..Len(messages) :
                    messages[m].rfc = id /\ messages[m].ticket = mails[i].ticket
      BY <3>4, TablesHaveRows
    <3>5. QED
      BY <3>1, <3>3, <3>4, <3>2 DEF Known
  <2>3. ThreadsWithinTicket
    BY <2>2 DEF ThreadsWithinTicket, Named
  <2>4. QED
    BY <2>1, <2>3 DEF MailsNameTheirTicket
<1>2. QED
  BY <1>1, AlwaysConsistent, AlwaysBare, PTL

\* staff_notify.rs: "assignment doesn't fan out to the rest of the team", and
\* nobody is told of what they did themselves.
THEOREM NoticesAlwaysConcernTheReader == Spec => []NoticesConcernTheReader
<1>1. Consistent => NoticesConcernTheReader
  BY DEF Consistent
<1>2. QED
  BY <1>1, AlwaysConsistent, PTL
=============================================================================
