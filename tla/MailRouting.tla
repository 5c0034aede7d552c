---------------------------- MODULE MailRouting ----------------------------
(***************************************************************************)
(* The pure parts of mail handling: which instance an address belongs to   *)
(* (api/src/inbound/routing.rs), which ticket a message answers            *)
(* (api/src/inbound/resolution.rs), which messages are dropped as loops    *)
(* (api/src/mailloop.rs), and what goes on the envelope and the threading  *)
(* headers of outgoing mail (api/src/outbound.rs).                         *)
(*                                                                         *)
(* An address is its lower-cased local part and domain; a recipient also   *)
(* carries the +tag of its local part.  A subject is the ticket tag it     *)
(* contains, if any: parse_subject_tag finds it wherever it stands.        *)
(***************************************************************************)
EXTENDS Naturals, Sequences, FiniteSets, SequencesExt

CONSTANTS
    Instances,  \* ids of instances; an instance's slug stands for it in a tag
    Locals,     \* local parts of addresses
    Domains,    \* mail domains
    Star,       \* the local part of a wildcard row
    Support,    \* the local part synthesized for a wildcard-only instance
    None        \* an absent value

ASSUME InstancesAssumption == None \notin Instances

Address   == [local : Locals \cup {Support}, domain : Domains]
AddressOf(recipient) == [local |-> recipient.local, domain |-> recipient.domain]

\* The keys of inbound_address rows: an exact address, or *@domain.
AddressKeys == Address \cup [local : {Star}, domain : Domains]

\* An inbound_address row: whose it is, and when it was added.
AddressRow == [instance : Instances, created : Nat]

wildcard_for_domain(domain) == [local |-> Star, domain |-> domain]

-----------------------------------------------------------------------------
(* Recipient to instance                                                   *)

\* The keys to try for one recipient: the address without its tag, then the
\* wildcard of its domain.
lookup_keys(recipient) == <<AddressOf(recipient), wildcard_for_domain(recipient.domain)>>

\* Mutated: the wildcard is tried before the exact address.
Match_WildcardFirst(table, recipient) ==
    LET hits == {k \in 1..2 : lookup_keys(recipient)[k] \in DOMAIN table} IN
    IF hits = {} THEN None
    ELSE table[lookup_keys(recipient)[Max(hits)]].instance

\* The instance one recipient belongs to, by the first of its keys that is a row.
Match(table, recipient) ==
    LET hits == {k \in 1..2 : lookup_keys(recipient)[k] \in DOMAIN table} IN
    IF hits = {} THEN None
    ELSE table[lookup_keys(recipient)[Min(hits)]].instance

\* resolve_instance_id: the first recipient that belongs to any instance decides.
resolve_instance_id(table, recipients) ==
    LET hits == {i \in DOMAIN recipients : Match(table, recipients[i]) # None} IN
    IF hits = {} THEN None ELSE Match(table, recipients[Min(hits)])

\* list_inbound_addresses_by_instance
AddressesOf(table, instance) ==
    [k \in {a \in DOMAIN table : table[a].instance = instance} |-> table[k]]

\* An address is the instance's own: listed, or under one of its wildcards.
is_own_address(own, address) ==
    \/ AddressOf(address) \in DOMAIN own
    \/ wildcard_for_domain(address.domain) \in DOMAIN own

-----------------------------------------------------------------------------
(* Outgoing mail                                                           *)

\* The earliest of some rows (ties, broken alphabetically, by any fixed order).
Earliest(own, keys) ==
    CHOOSE k \in keys : \A j \in keys : own[k].created <= own[j].created

\* The address mail is sent from: the earliest exact one, or support@ the
\* domain of the earliest wildcard.
primary_inbound_address(own) ==
    LET wildcards == {k \in DOMAIN own : k.local = Star}
        exact     == DOMAIN own \ wildcards IN
    CASE exact # {}     -> Earliest(own, exact)
      [] exact = {} /\ wildcards # {} ->
            [local |-> Support, domain |-> Earliest(own, wildcards).domain]
      [] OTHER          -> None

\* The Reply-To: the address sent from, with the ticket and its token as tag.
reply_to_address(from, ticket, token) ==
    [local |-> from.local, domain |-> from.domain,
     tag |-> [ticket |-> ticket, token |-> token]]

\* What a subject becomes: a tag already in it is kept.
tag_subject(slug, number, subject) ==
    IF subject # None THEN subject ELSE [slug |-> slug, number |-> number]

NoThreading == [inReplyTo |-> None, references |-> <<>>]

\* The threading of a message that follows the row last.
Following(last) ==
    [inReplyTo |-> last.rfc, references |-> Append(last.references, last.rfc)]

\* Mutated: messages of other tickets are among the prior ones.
threading_for_AnyTicket(rows, ticket) ==
    {NoThreading} \cup {Following(m) : m \in {n \in rows : n.rfc # None}}

\* threading_for on an eventually consistent listing of the ticket's rows:
\* whichever row with a Message-ID is the last one the index shows, or none.
threading_for(rows, ticket) ==
    {NoThreading} \cup {Following(m) : m \in {n \in rows : n.rfc # None /\ n.ticket = ticket}}

\* The envelope and headers build_outbound makes, or None where it fails:
\* nothing to send from, or nobody left to send to.
build_outbound(own, ticket, row, requesters, ccs, threading) ==
    LET to == {e \in requesters : ~is_own_address(own, e)}
        cc == {e \in ccs : ~is_own_address(own, e)} IN
    IF primary_inbound_address(own) = None \/ to \cup cc = {} THEN None
    ELSE [to         |-> to,
          cc         |-> cc,
          replyTo    |-> reply_to_address(primary_inbound_address(own), ticket, row.token),
          subject    |-> tag_subject(row.instance, row.number, row.subject),
          inReplyTo  |-> threading.inReplyTo,
          references |-> threading.references]

\* status_notice_body: is a status change mailed to requesters and CCs?
status_notice_body(old, new) ==
    \/ new = "closed"
    \/ new = "open" /\ old # "open"

-----------------------------------------------------------------------------
(* Incoming mail                                                           *)

\* check_structural: Auto-Submitted (not "no"), Precedence (bulk, list or
\* junk), or our own loop header.
check_structural(headers) ==
    headers.autoSubmitted \/ headers.bulk \/ headers.loop

\* The first occurrences in a sequence, in order.
Distinct(s) ==
    LET firsts == SetToSortSeq({i \in DOMAIN s : \A j \in 1..(i - 1) : s[j] # s[i]}, <) IN
    [k \in DOMAIN firsts |-> s[firsts[k]]]

\* The reply tags of the recipients, in order.
extract_reply_tags(recipients) ==
    Distinct(SelectSeq([i \in DOMAIN recipients |-> recipients[i].tag], LAMBDA t : t # None))

\* The Message-IDs a mail may answer: its direct parent, then References from
\* the newest to the oldest.
candidate_message_ids(inReplyTo, references) ==
    Distinct((IF inReplyTo = None THEN <<>> ELSE <<inReplyTo>>) \o Reverse(references))

\* strip_own_addresses: the CCs of a ticket opened by a mail.
strip_own_addresses(own, recipients, from) ==
    {AddressOf(recipients[i]) : i \in {j \in DOMAIN recipients :
        /\ AddressOf(recipients[j]) # from
        /\ ~is_own_address(own, recipients[j])}}
=============================================================================
