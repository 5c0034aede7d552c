----------------------------- MODULE MCTickets -----------------------------
(***************************************************************************)
(* Small instances of Tickets for TLC: instance A with two members and an  *)
(* exact address, instance B with a wildcard only.  A behaviour is of one  *)
(* of four mixes of calls, which differ in Opened, Offered and MaxCalls;   *)
(* the configuration gives these for the first.                            *)
(***************************************************************************)
EXTENDS Tickets, TLC

CONSTANTS A, B, u1, u2

Mail(local, domain) == [local |-> local, domain |-> domain]

TwoInstances == {A, B}
TwoUsers     == {u1, u2}
BothInA      == (A :> {u1, u2} @@ B :> {u1})
OneUser      == {u1}
OnlyInA      == (A :> {u1} @@ B :> {})
OneMailbox   == (u1 :> Mail("u1", "staff.org"))
Mailboxes    == (u1 :> Mail("u1", "staff.org") @@ u2 :> Mail("u2", "staff.org"))

Ann == Mail("ann", "c.org")
Bob == Mail("bob", "c.org")
Cat == Mail("cat", "c.org")
TwoCustomers == {Ann, Bob}

LocalParts  == {"ann", "bob", "cat", "u1", "u2", "help", "*"}
MailDomains == {"c.org", "staff.org", "a.org", "b.org"}

\* A is help@a.org; B has everything else at b.org.
Table == (Mail("help", "a.org") :> [instance |-> A, created |-> 1] @@
          Mail("*", "b.org")    :> [instance |-> B, created |-> 2])

NoTags == {None}

From(i, requesters, ccs) == [instance |-> i, requesters |-> requesters, ccs |-> ccs]

NoTickets  == <<>>
OneTicket  == <<From(A, {Ann}, {})>>
TwoTickets == <<From(A, {Ann}, {Bob}), From(A, {Bob}, {})>>

Symmetry == Permutations(Requests)

-----------------------------------------------------------------------------
(* Mixes                                                                   *)

VARIABLE mix

\* Members change their settings while notes and assignments are made.
Noticing == INSTANCE Tickets WITH
    Offered <- {"updateNotificationSettings", "assignTicket", "addInternalNote"},
    MaxCalls <- 3

\* Replies, notes and edits of the recipients race on two tickets.
Replying == INSTANCE Tickets WITH
    Opened <- TwoTickets,
    Offered <- {"replyToTicket", "addInternalNote", "addTicketRequester",
                "removeTicketRequester", "addTicketCc", "removeTicketCc"},
    MaxCalls <- 2

\* Tickets are submitted to two instances at once; a mail is sent once.
Submitting == INSTANCE Tickets WITH
    Members <- OnlyInA, Opened <- NoTickets,
    Offered <- {"submitTicket", "submitVerifiedTicket"}, Attempts <- 1, MaxCalls <- 2

MixInit ==
    \/ mix = "editing"    /\ Init
    \/ mix = "noticing"   /\ Noticing!Init
    \/ mix = "replying"   /\ Replying!Init
    \/ mix = "submitting" /\ Submitting!Init

MixNext ==
    /\ UNCHANGED mix
    /\ \/ mix = "editing"    /\ Next
       \/ mix = "noticing"   /\ Noticing!Next
       \/ mix = "replying"   /\ Replying!Next
       \/ mix = "submitting" /\ Submitting!Next

MixSpec == MixInit /\ [][MixNext]_<<vars, mix>>
=============================================================================
