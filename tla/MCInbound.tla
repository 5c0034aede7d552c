----------------------------- MODULE MCInbound -----------------------------
(***************************************************************************)
(* Small instances of InboundMail for TLC: the people, addresses and       *)
(* tickets of MCTickets, and the mails customers write.  A behaviour is of *)
(* one of four mixes; the configuration gives the constants of the first.  *)
(***************************************************************************)
EXTENDS MCTickets, InboundMail

To(local, domain, tag) == [local |-> local, domain |-> domain, tag |-> tag]
Token(t, token)        == [ticket |-> t, token |-> token]

Letter(from, to, subject, files) ==
    [from |-> from, to |-> to, headers |-> Plain, id |-> 0, inReplyTo |-> None,
     references |-> <<>>, subject |-> subject, files |-> files]

HelpA == To("help", "a.org", None)
AnyB  == To("info", "b.org", None)

\* Ann asks A something, with a file, and tells Bob.
Question  == Letter(Ann, <<HelpA, To("bob", "c.org", None)>>, None, TRUE)
Plainly   == Letter(Ann, <<HelpA>>, None, FALSE)
\* Bob guesses at ticket 1.
Guess     == Letter(Bob, <<To("help", "a.org", Token(1, 7))>>, None, FALSE)
\* Bob has ticket 1's address, and adds a subject that names ticket 2.
Misleads  == Letter(Bob, <<To("help", "a.org", Token(1, 1))>>, [slug |-> A, number |-> 2], FALSE)
\* Bob's mail is to B, with the tag of ticket 1, which is A's, in CC.
CrossOver == Letter(Bob, <<AnyB, To("help", "a.org", Token(1, 1))>>, None, FALSE)
\* Nobody's address.
Stray     == Letter(Ann, <<To("bob", "c.org", None)>>, None, FALSE)

JustPlain == {Plainly}
Letters   == {Question, Guess, Misleads, CrossOver, Stray}
\* Ann and Bob were each passed ticket 1's address, by Cat, whose ticket it is.
JoinsIn(from) == Letter(from, <<To("help", "a.org", Token(1, 1))>>, None, FALSE)
Joining   == {JoinsIn(Ann), JoinsIn(Bob), Guess}
CatsTicket == <<From(A, {Cat}, {})>>
JustJoins == {Misleads}

KeepAll  == {{"tag", "ids", "subject"}}
KeepSome == {{"tag"}, {"ids"}, {"subject"}, {}}
NoAnswers == {}
NoStaff   == (A :> {} @@ B :> {})

MCLocals    == LocalParts \cup {"info"}
NoneDefunct == {}

InboundSymmetry == Permutations(Requests) \cup Permutations(Workers) \cup Permutations(Incoming)

-----------------------------------------------------------------------------
(* Mixes                                                                   *)

\* Mails and answers that keep part of what they answer; a mail is sent once.
Answering == INSTANCE InboundMail WITH
    Keeps <- KeepSome, Attempts <- 1, MaxReceives <- 1, Lag <- FALSE

\* Two senders join one ticket at once; a mail is sent once.
Meeting == INSTANCE InboundMail WITH
    Opened <- CatsTicket, Fresh <- Joining, Keeps <- NoAnswers, Members <- NoStaff,
    Attempts <- 1, MaxReceives <- 1, Lag <- FALSE

\* An answer, to whichever of the mails of one send, arrives while an agent closes
\* the ticket or replies.
Working == INSTANCE InboundMail WITH
    Opened <- OneTicket, Fresh <- JustJoins, MaxReceives <- 1, Lag <- FALSE,
    Offered <- {"setTicketStatus", "replyToTicket"}, MaxCalls <- 1

\* Bounds of each mix: mails, deliveries of a mail, and workers at work.
AtMost(mailed, delivered, busy) ==
    /\ Cardinality({s \in Incoming : content[s] # None}) <= mailed
    /\ \A d \in Delivery : d[2] > delivered => deliveries[d] = "unsent"
    /\ Cardinality({w \in Workers : work[w].step # "idle"}) <= busy

MailMixInit ==
    \/ mix = "redelivering" /\ InboundInit
    \/ mix = "answering"    /\ Answering!InboundInit
    \/ mix = "meeting"      /\ Meeting!InboundInit
    \/ mix = "working"      /\ Working!InboundInit

MailMixNext ==
    /\ UNCHANGED mix
    /\ \/ mix = "redelivering" /\ InboundNext           /\ AtMost(1, 2, 2)'
       \/ mix = "answering"    /\ Answering!InboundNext /\ AtMost(2, 1, 1)'
       \/ mix = "meeting"      /\ Meeting!InboundNext   /\ AtMost(2, 1, 2)'
       \/ mix = "working"      /\ Working!InboundNext   /\ AtMost(1, 1, 1)'

MailMixSpec == MailMixInit /\ [][MailMixNext]_<<allVars, mix>>

\* Where lookups are up to date, an answer sent to a Reply-To of ours is stored
\* on that ticket and no other, whatever its other headers and its subject say;
\* and with mail coming in, too, records, mails and threads of a ticket agree.
\* Threads stay within the ticket altogether here, where what customers write
\* unprompted names no mail; whatever it names, ThreadsAsReceived bounds them.
TicketsHoldTogether ==
    /\ mix # "redelivering" => AnswersThread
    /\ MailsNameTheirTicket /\ ThreadsAsReceived
    /\ RepliesAsRecorded
=============================================================================
