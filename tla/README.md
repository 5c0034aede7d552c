# Toolbox: TLA+ models, checks and proofs

Toolbox is a multi-tenant helpdesk and invoicing application: a Rust GraphQL API on
AWS Lambda over DynamoDB (`api/`), a React client (`web/`) and Terraform (`infra/`).
These modules model its core logic: invoicing, tickets and their mail in both
directions, the ways to log in, credentials of other programs, administration, and the
reads that span many rows.

Every API call runs in a Lambda invocation of its own. There is no lock and no process
that lives between calls; resolvers interleave freely at every `await`, and what holds
the data together is the condition expression on each write. The models therefore work at
the granularity of one storage call.

## Files

| file | what it is |
| --- | --- |
| `Invoicing.tla` | the resolvers and storage calls of invoicing, one action per storage call; its properties |
| `InvoiceLedger.tla` | what invoicing promises: every operation atomic, every read current |
| `Money.tla` | rounding, GST and totals (`invoicing/money.rs`, `invoicing/snapshot.rs`) |
| `MailRouting.tla` | pure parts of mail handling: routing, resolution, loop checks, envelopes, threading |
| `StaffNotices.tla` | which members are mailed about an event, and why |
| `Tickets.tla` | the ticket mutations and public submission, the rows they write, the mail they send |
| `InboundMail.tla` | queue, workers and pipeline of received mail; extends `Tickets` |
| `Inbox.tla` | what inbound mail promises: kept once at most, where it was addressed to |
| `Login.tla` | login and submit codes, sessions, submit tokens |
| `Passkeys.tla` | registering, using, renaming and deleting passkeys |
| `Grants.tla` | OAuth codes and grants, API tokens |
| `Administration.tla` | instances, users, memberships, inbound addresses |
| `Listings.tla` | paged listings of tickets, items and invoices |
| `BatchReads.tla`, `ThreadReads.tla` | batch reads by id; the messages of a ticket |
| `MC*.tla`, `*.cfg` | the instances TLC checks |
| `InvoicingProofs.tla` | types, membership, snapshots, finality, numbers, the item cap, the totals and the PDFs, and that `Invoicing` implements `InvoiceLedger`, for every value of the constants |
| `GrantsProofs.tla` | rotation, end and revocation of grants and the verdicts on API tokens, likewise |
| `AdministrationProofs.tla` | memberships, deleted users and removals under racing writers, likewise |
| `TicketsProofs.tla` | replies, threads, numbers, markers and notices of tickets, likewise |
| `LoginProofs.tla` | codes, what they buy, their attempts and refusals, and sessions, likewise |
| `PasskeysProofs.tla` | labels, deletion and the cap of passkeys, likewise |
| `InboundMailProofs.tla` | `InboundMail` implements `Inbox`; mail loops, senders and threads, on top of `TicketsProofs`, likewise |
| `BatchReadsProofs.tla` | what a None in a batch read says, and the bounds on its chunks and attempts, likewise |
| `PROJECT.json` | components, runs, mutants, the map from definitions to source lines, findings, hazards, theorems |

## Inventory

Paths are below `src/api/src/` unless they say otherwise.

| component | state it keeps | operations | what makes it correct |
| --- | --- | --- | --- |
| **Invoicing** (`graphql/mutations.rs` 3364-3942, `dynamodb.rs` 2545-3464, `invoicing/`) | rows of `project`, `billable_item`, `invoice`, `counter`; settings on the `instance` row; PDF objects in S3 | create, edit and delete an item; create, extend, shrink, delete and finalize a draft; mark paid; download a PDF; set the next number | both directions of item/invoice membership agree; a finalized invoice is final and froze what was there; numbers are unique; a PDF shows the frozen snapshot |
| **Money** (`invoicing/money.rs`) | none | parse, format, round, total | totals are exact and fit a JS number |
| **Tickets** (`graphql/mutations.rs` 106-770, 1907-2690; `dynamodb.rs` 3556-4335) | `ticket` (status, assignee, requesters, CCs), `ticket_message`, `counter` | create, reply, note, assign, set status, edit requesters and CCs | no update is lost; at least one requester stays; messages go to the ticket they answer |
| **Inbound mail** (`inbound/`, `mailloop.rs`, `bin/inbound-mail/`) | `processed_message` claims; an SQS queue; the raw mail in S3 | claim, resolve instance and ticket, append or open, reopen, notify | each mail is handled at most once and, unless dropped for a stated reason, at least once; no mail loops |
| **Outbound mail** (`outbound.rs`, `staff_notify.rs`, `mail.rs`, `sesmail.rs`) | none (threading is read from messages) | reply, acknowledgement, status notice, staff notice | the right recipients, the right thread, never staff notes |
| **Login codes, sessions, passkeys** (`auth.rs`, `graphql/mutations.rs` 861-1066, 2751-3140) | `login_code`, `user_token`, `ephemeral_state`, `webauthn_credential` | request and verify a code, log out, register and use a passkey | a code is used once, within its attempts and its time |
| **Submit codes** (`graphql/mutations.rs` 1068-1300, `turnstile.rs`) | `ephemeral_state` | request, verify, submit a ticket | one submission per verified address and token |
| **API tokens, OAuth** (`oauth.rs`, `oauth_http.rs`, `dynamodb.rs` 2199-2385) | `oauth_grant`, tokens | issue, exchange, rotate, revoke | one winner per rotation; revoked means revoked |
| **Administration** (`graphql/mutations.rs` 1305-1800) | `instance`, `inbound_address`, `user`, `membership` | create, edit, soft-delete, add and remove members | an address maps to one instance; deleting a user finishes |
| **Listings, batch reads** (`dynamodb.rs` 844-1008, 2918-3005, 3466-3553, 3917-4012, `graphql/pagination.rs`) | cursors held by clients | page through an index; retry unprocessed keys | no row that stays is skipped; a row not read is never "not there" |
| **MCP, CLI, local mode, mocks, telemetry, web, infra** | none of their own | | not modelled: front ends, test doubles, plumbing and layout |

The components meet in DynamoDB rows and nowhere else: inbound mail and the ticket
resolvers update the same ticket rows; the OAuth and MCP front ends reach the same
storage trait (`db::Handler`) as the GraphQL resolvers. Invoicing instances and support
instances share no rows besides `instance` and `counter` (two different attributes of it),
which is why invoicing can be modelled alone. `InboundMail` extends `Tickets`, because the
two write the same rows. The ways in (`Login`, `Passkeys`, `Grants`) share only a user's
`enabled` flag, `Administration` writes what all others read as constants (who is a member,
which address is whose), and the reads of `Listings`, `BatchReads` and `ThreadReads` change
nothing.

What is hard here, in one list: checks made on a read that is stale by the time of the
write; eventually consistent reads; writes whose response is lost and which the SDK sends
again; several writes of which a later one fails; two rows that must agree. `hazards` in
`PROJECT.json` gives each with its line and the properties aimed at it.

## Plan

1. *(done)* `Invoicing`, `InvoiceLedger`: runs, type invariant, safety proofs.
2. *(done)* `Tickets` with `MailRouting` and `StaffNotices`.
3. *(done)* `InboundMail` composed with `Tickets`; the abstract `Inbox`; liveness.
4. *(done)* `Login`, `Passkeys`, `Grants`.
5. *(done)* `Administration`.
6. *(done)* `Listings`, `BatchReads`, `ThreadReads`.
7. *(done)* Proofs that `Invoicing` implements `InvoiceLedger`, of all of `Grants`, and of
   `Administration`.
8. *(done)* Proofs of the invariants of `Tickets`, from an inductive invariant that relates
   rows, mails and resolvers in flight.
9. *(done)* Proofs of the invariants of `Login`.
10. *(done)* Proofs of `InboundMail`, on top of those of `Tickets`, and that it implements
    `Inbox`.
11. *(done)* Proofs of `Passkeys`.
12. *(done)* Proofs of `BatchReads`.
13. Left: `ThreadReads` and the walks of `Listings`. Both sort, and a fact about the sorts first
    needs an induction (see *What is only model-checked*); with one taken as a hypothesis on the
    order, the rest can follow step by step.

## How the models are made

- **One action per storage call or send**, with the checks that follow it up to the next
  one. A request (or worker) record holds the step it is at and what it has read; nothing
  else survives an `await`.
- **Stale reads.** Where the code reads with eventual consistency, an action returns any
  value the row has had, kept in a variable named `...Seen` or `...seen`; an index has its
  own copy of a row (`shown`). Where the code asks for a consistent read, it returns the
  row. `Lag` turns staleness off in instances whose question is another.
- **Failures.** `Stop` (of a worker: `Fail`) ends a call after any step: an error return, a
  failed storage call, a timeout, a crash. A write or send whose response is lost is an
  alternative of its action where the code or the SDK then does something else.
- **Ids and secrets** are positions in a sequence or versions, so "unguessable" is "not
  among what was handed out", and two draws never collide.
- **Time** is a clock in steps of the shortest duration; lifetimes are constants in the
  proportions of the code.
- **Limits of the instances** are constants named `Max...`; `Offered` is the set of
  mutations clients call.

The storage service's own behaviour (conditional writes, `ADD`, transactions, unprocessed
keys, empty pages, indexes that lag, at-least-once delivery) is modelled from how the code
calls it; those definitions are marked external in `PROJECT.json`.

## Invoicing

### State

| variable | code |
| --- | --- |
| `items`, `invoices`, `projects` | the tables `billable_item`, `invoice`, `project` |
| `settings` | the invoicing attributes of the `instance` row |
| `counter` | `next_invoice_number` of the instance's `counter` row |
| `pdfs` | the S3 object under each invoice's key |
| `requests` | per invocation in flight: the step it is at, its arguments and what it has read |
| `itemSeen`, `projectSeen`, `settingsSeen` | every value a row has had, which is what an eventually consistent read may return |
| `started` | calls made so far (a bound) |

One instance is modelled: rows of different instances never meet, because every
resolver authorizes through the row's own `instance_id`. Authorization itself changes no
state and is left out. An item's date, text, quantity and unit price are one value, its
line amount (`Amounts`); a project's client fields are one value (`Clients`); of the
settings only what decides anything is kept: whether the business name is set, and GST.

### Actions

An action is one storage call with the checks that follow it, up to the next call.
Adjacent reads that can only see old values of rows are one action. A resolver is thus a
short sequence, for example `finalizeInvoice`:

| action | code (`graphql/mutations.rs`) |
| --- | --- |
| `FinalizeInvoiceRead` | consistent read of the draft, non-empty check (3688-3697) |
| `FinalizeInvoiceReadItem`, once per item | the consistent batch read; DynamoDB reads each row at a moment of its own (3700-3722) |
| `FinalizeInvoiceReadDetails` | project and instance, eventually consistent (3724-3751) |
| `FinalizeInvoiceAllocate` | `ADD next_invoice_number`, snapshot, total check (3753-3772) |
| `FinalizeInvoiceAllocateLost` | the `ADD` applied, its response lost, the SDK sends it again |
| `FinalizeInvoiceWrite` | the write conditioned on `status = draft AND version = :expected` (`dynamodb.rs` 3244-3306) |

`Stop` ends a resolver between any two calls: an error return after a read, a failed
storage call, a timeout or a crash of the invocation. A failed condition leaves the tables
alone and returns (`CONFLICT`). `setInvoicePaid` reads and writes under the same
condition, which never turns false, so it is one action.

A transaction (`transact_write`) is one atomic action: DynamoDB applies all its items
or none, and the SDK sends it with an idempotency token, so a resent one has no second
effect. Resent conditional updates are harmless (a resent finalize fails its own
condition; a resent `SET` writes the same value or fails); only the `ADD` of the counter
is not, and it is modelled. What the SDK sends again in the other components is under
"Resent calls" below.

### The abstract specification and fairness

No fairness is assumed here: an invocation may be lost at any point and nothing restarts
it, so no liveness of a single call holds.

`InvoiceLedger` has items, the invoice each is on, and issued invoices. Issuing
prints the work on the invoice as it is in that very step, under a number no issued
invoice has (or the last one, where numbering saturates). It knows no versions, requests,
stale reads or allocated numbers. The refinement mapping takes `content` and `on` from
the item rows and `ledger` from the finalized invoice rows, so it says that each resolver
takes effect in one step, at its conditional write, with what is true at that moment.

## Tickets

| variable | code |
| --- | --- |
| `tickets`, `ticketSeen` | the `ticket` table with its sparse index attributes (`markers`), and every row a ticket has had: `get_tickets` is eventually consistent |
| `messages` | the `ticket_message` table |
| `lastNumber` | `next_ticket_number` of each instance's `counter` row |
| `mails`, `notices` | what the mail service accepted for customers, and for members |
| `settings` | the notification attributes of `membership` rows |
| `reported` | replies whose agent was told they were sent (history) |
| `requests`, `calls` | resolvers in flight; calls made so far (a bound) |

Each mutation of `graphql/mutations.rs` is a read action followed by its writes and sends.
`replyToTicket` is the longest: `ReplyToTicketRead` (row, recipients, threading),
the message row, `ReplyToTicketAttach` (files, then the ticket's paperclip), `ReplyToTicketSend`,
the stamp with the Message-ID, and the notices to staff. `setTicketStatus` writes status
and assignee together, as read; the four recipient edits add to or delete from a set.
`MailRouting` has what decides where mail goes (`Match`, `resolve_instance_id`,
`extract_reply_tags`, `candidate_message_ids`, `threading_for`, `primary_inbound_address`,
`strip_own_addresses`, `check_structural`) and `StaffNotices` has the reasons of `select_recipients` (`reason_for`).

A send may be accepted more than once: `send_raw` (`sesmail.rs` 115) has no token that tells
attempts apart, and when a response is lost the SDK, with its default retries, sends the mail again.
So a send (`Accept`) makes up to `Attempts` mails, each with a Message-ID of its own, and the resolver
knows the last one's, or none.

`RepliesAsRecorded` relates four steps of a reply that can each fail: what customers have
is on the record with those recipients, what an agent was told was sent was sent, a
paperclip means a file. Customers may have a reply twice, as attempts of one send: then they are alike,
and no more than the SDK makes; no second *send* is made for a row.
`MailsNameTheirTicket`: threading headers name mail of the mail's own ticket only, and
no two tickets of an instance have one number. The tag in a subject is not claimed to be the
ticket's: `tag_subject` (`outbound.rs` 200) keeps a tag that is already there, also one that a
person typed and that is another ticket's. `MarkersAgree`: the index attributes of every row a ticket ever
had agree with that row's status and assignee. `NoticesConcernTheReader`: nobody is told
of their own act, and an assignment only concerns the two people it is about.

## Inbound mail

`InboundMail` adds to `Tickets`: the mail behind each SES id (`content`), where each
delivery on the queue is and how often it was received (`deliveries`, `receives`), the
`processed_message` table (`claims`), the Lambda invocations (`work`), and, as history, the
rows each mail became (`kept`) and what the pipeline dropped (`refused`).

A worker goes through `inbound/pipeline.rs` in the code's order: `Claim`, `Refuse` or
`Resolve`, then `AddSender` and `Reopen` or `Number` and `Open`, `Store`, `Stamp`, `Files`,
`Flag`, `Others` with its own row, sends and stamp, `Staff`. What a mail can be: written
unprompted (`Write`), an answer to one of ours that keeps some of tag, ids and subject
(`Answer`), the same mail to another instance (`Copy`), our own mail sent back (`Echo`).

**`Inbox`** is the abstract specification: a mail that arrived is kept once at most,
on a ticket of the instance it was addressed to, or given up, for good. It has no queue, no
claims and no workers. The mapping (`MailBox`) takes a mail's place from `kept`, and calls
it gone once it is claimed and no worker is between the claim and the row:
so it also says that a mail given up is never put on a ticket later.

`NoLoops`: nothing that a machine or this program sent is put on a ticket. `SenderHears`: who
wrote to a ticket is on it, though workers read stale rows and two senders join at once.
`AnswersThread`: an answer to a Reply-To of ours goes to that ticket, whatever else it says.
`ThreadsAsReceived` is what becomes of `Tickets.ThreadsWithinTicket` with mail coming in: a
reply repeats the `References` of the mail it answers, and a customer's own mail may name
anything there, another ticket's mail included. So a thread names mail of its ticket, or what
its customers' mail has put there. In the run, whose customers name no mail unprompted, the
stronger form holds too and is checked with it.

**Liveness.** `Drains`: every mail comes to an end. Assumed is `InboundFairness`: the queue is
polled (`WF(Queue)`), and every invocation ends, by completing a step or by failing
(`WF(Work(w) \/ Fail(w))`), because Lambda stops each at its timeout, which
is below the visibility timeout (`infra/sqs.tf`). Nothing says that any attempt succeeds;
what ends redelivery is the redrive policy (`ToDlq`), and a mutant without it loops forever.
`CallsEnd` (of `Listings`): a call that reads an index in rounds answers; assumed is that
the call is not cut off (`WF(Round)`).

## The ways in

`Login` has both kinds of emailed code (a row per address, and per instance and address),
sessions with their throttled, sliding touch, submit tokens, TTL deletion (`Expire`), and a
user being disabled. `issued` is every code with what it was drawn for: `CodesBuyTheirOwn`
compares that to what sessions and tokens were given for. `Ghost` is the row that the `ADD` of an attempt
creates if the code was deleted since; `RefusalsJustified` says that it never keeps anyone
from a code. `UseKeepsAlive` bounds the error of the throttled touch.
`CodePut` is an unconditional put that the SDK may send again, over a row that has
been counted on; the count starts over. `LoginAttemptsKept` says of a row that it counts every
verification since its code was put, and so every one since the code was mailed. It says that no
count is lost, not that there are few: verifications that have read the row and not counted yet
are not bounded by `LOGIN_CODE_MAX_ATTEMPTS`.

`Passkeys` has the two ceremonies, each two calls joined by a challenge row. The library's
verification is not modelled; a device answers a challenge, or not. `CapAlmostHolds` states what the
second count buys: the cap can be exceeded by calls whose counts and puts overlap, and by no
more. A registration's put (`create_webauthn_credential`, `dynamodb.rs` 4349) is unconditional
and keyed by the credential's id, and the challenge goes only afterwards. So a client that
repeats its call, or the SDK that repeats the put, writes over the row of a credential put
before, and brings it back if it was deleted (`PutAgain`; the run does both). `DeletedUnlessPut`,
a part of `EndedStaysEnded`: a deleted passkey comes back by that put alone, as new, and by no login or rename.

`Grants` has the authorization code, the exchange, rotation as a compare-and-swap with reuse
detection, access, touch and revocation, and API tokens. A secret is a version of a grant, so
`OneSuccessor` (no version is replaced by two others) is about what clients were given,
lost answers included. `VerdictsAreCurrent` compares what an API token was found to be
with what it was during the call.

## Administration

Rows of `user`, `instance`, `membership` and `inbound_address`, with what each index shows of
them (`shown`; `CatchUp` lets an index catch up). Every mutation is a lookup,
often by index, and then writes. `PartsAreKept`: a membership's role and settings are each
what was last written to that part, though writers overlap. `RemovedStayOut`: a write on its way does not
put a deleted membership back. `DismissedAreOut`: when `deleteUser` answers, all that the
index listed at its start is deleted, also if an earlier call was cut short.

## Reads

`Listings` is one index partition in key order; a call reads it in rounds of a limited scan
and a filter (`Round`), makes a connection of what it got (`BuildConnection`), and the
client walks on from the last cursor, while `Change` moves, adds and removes rows.
An update of a ticket sets `last_activity_at` to a time its caller read before (inbound
mail at `pipeline.rs` 98, written at 238-264), with no condition on the old one, so a change may
move a ticket back. `WalksAreFaithful`: a walk shows every row that stood still exactly once; it goes
from newer to older, within a page and from page to page, and no row comes up twice, even
one that changed, unless a change moved it back (`movedBack`); and a last page holds the
oldest rows. `BatchReads` is
`get_records` with unprocessed keys; `NoneMeansMissing` is what its callers take from it.
`ThreadReads` is `list_ticket_messages` over `query_all`: pages in any number, some empty,
order within a second undefined; a thread does not reshuffle and is read whole.

## Runs

Every run says `CHECK_DEADLOCK FALSE`: clients may stop calling, and the bounds make
them. Runs without liveness use `SYMMETRY` of ids and invocation slots, which nothing
compares or chooses between. Each property has a mutant, an operator next to the one it replaces
that breaks the code as a plausible bug would (comment "Mutated"), and TLC finds the
property violated under it.

### Invoicing

| run | bounds that matter | shows |
| --- | --- | --- |
| `finalize_races` | 2 items, 2 invoices, 2 resolvers in flight, 5 calls; amounts 4 and 5 with a total limit of 10, so that GST (rounded to whole cents) or one edit decides whether a total fits | `SnapshotMatchesItems`, `FinalizedTotalsFit`, `BilledOnce`, `FinalizedIsFinal`, and the refinement `ImplementsLedger` |
| `numbering` | 3 invoices of two projects, one created on the way, 3 in flight, 8 calls, counter settable up to 3, stored number saturating at 4 so that the limit is passed | `UniqueNumbers` |
| `drafts` | 3 items (one is created on the way), 2 invoices, cap 2, 2 in flight, 5 calls: of items and drafts created and deleted, items attached and detached, PDFs rendered while the client of the project and the settings change | `TypeOK`, `MembershipAgrees`, `ItemCapHolds`, `PdfMatchesSnapshot` |
| `present_settings` | 1 invoice, 1 in flight, 4 calls | violated: see Findings |

Two resolvers in flight suffice for a race on one row: a resolver holds no state but its
own reads, so a third can only change the rows in ways a finished call can too, and calls
finish within the bound. Numbering has three because two in-flight numbers can also
collide with a third's. Two items show partial overlap of item sets. The proofs below
remove these bounds for most properties.

### The other components

One mix of calls small enough to be explored in full seldom shows two hazards.
So each of these runs explores several **mixes**, each a small instance of the same
specification with constants of its own (`INSTANCE ... WITH Offered <- ...`). The variable `mix`
is set initially and never changes, so the state space is the disjoint union of the
instances, and an invariant of the run holds in each of them. Where one module's state
does not matter to a mix, it stays as it starts.

| run | mixes and their bounds | shows |
| --- | --- | --- |
| `tickets` | *editing*: status and assignee of a ticket, 2 calls; *noticing*: settings, notes, assignments, 3 calls; *replying*: replies, notes and recipient edits on two tickets, 2 calls; *submitting*: to two instances, 2 calls. Two calls at a time, two members, each send accepted once or twice (once in *submitting*), refused, or accepted with its response lost | `RepliesAsRecorded`, `MailsNameTheirTicket`, `MarkersAgree`, `NoticesConcernTheReader` |
| `inbound` | *redelivering*: one mail, 2 deliveries of 2 receives each, 2 workers, lookups that may miss; *answering*: 2 mails, 1 worker, answers that keep tag, ids, subject or none of them; *meeting*: 2 mails of 2 new senders to a third person's ticket, or of one who opens tickets, 2 workers; *working*: 1 mail while an agent closes or replies. A send is accepted once or twice in *redelivering* and *working*, and once in the others | `TicketsHoldTogether`, `NoLoops`, `SenderHears`, `InboundTypeOK`, and the refinement `ImplementsInbox` |
| `progress` | one mail, 2 deliveries of 2 receives each, 2 workers; or a listing of 3 rows, page size 1, 1 change, filter on or off. No symmetry | `Drains`, `CallsEnd`, under `FairProgressSpec` |
| `access` | *using*: one session, 4 calls, 3 time steps; *coding*: 2 addresses, 2 codes, both flows, 4 calls; *verifying*: 2 codes of one address, 2 attempts each, 5 calls; *keeping*: 2 passkeys, 2 labels, 5 calls; *crowding*: 3 devices under a cap of 1, 6 calls. Two calls at a time; puts of codes and of passkeys repeated | `CodesBuyTheirOwn`, `RefusalsJustified`, `LoginAttemptsKept`, `UseKeepsAlive`, `RenamesKept`, `CapAlmostHolds`, `EndedStaysEnded`, `AccessTypeOK` |
| `grants` | *refreshing*: an OAuth grant over its whole life of 3, 5 calls; *disabling*: API tokens, 5 calls. Two calls at a time | `OneSuccessor`, `VerdictsAreCurrent`, `GrantsEndForGood` |
| `administration` | *joining*: 5 calls, 3 at a time, on memberships; *dismissing*: 4 calls, 2 at a time, users deleted, and added meanwhile, by two superusers; *arranging*: 4 calls, 2 at a time, on instances of both kinds, accounts and an address | `PartsAreKept`, `DismissedAreOut`, `RemovedStayOut`, `TypeOK` |
| `reads` | *tickets*: 4 rows, pages of 2, 2 changes that move tickets to the front or back, both ways to walk; *items*, *invoices*: 4 rows, 1 change, equal and different sort keys, pages of 2 and of 1; *batches*: 3 ids in chunks of 2, 3 attempts; *threads*: 4 messages, 3 seconds, 3 pages | `WalksAreFaithful`, `NoneMeansMissing`, `ThreadsAreReadWhole`, `ReadsTypeOK` |
| `lost_mail` | one mail, one worker, 3 receives | violated: see Findings |

Why these bounds: a race on a row needs two calls and one row; what a third could do in
between a finished call can do too. Three calls at a time are needed where a step reads what
two others have half done (*joining*), and a cap of one is overrun by two (*crowding* has a third so that
the excess could exceed what `CapAlmostHolds` allows). Numbers and threads need two tickets
or two instances to be confused. A queue that drains after two receives does after three: the
count is compared, never used otherwise. A walk needs more rows than a page holds, and a
change on each side of the cursor.

## Proofs

Each proof module states an inductive invariant, one lemma per action that says the action
keeps it, and the theorems that follow. The rows that several calls refer to need the same
argument everywhere: what a step may do to rows others refer to is one relation between
tables before and after (`Orderly`, `GrantsKept`, `MembershipsKept`, `Kept`, `Keeps`), and what a waiting call
holds survives every step in that relation.

### Invoicing

`TypeOK` alone is not inductive, because writes store what requests hold. `Typed` adds
`RequestsTyped`, that each request has the arguments its next step needs. Then:

- **`TypeCorrect`**: `Spec => []TypeOK`.
- **`MembershipHolds`** and **`SnapshotsMatch`**: `[]MembershipAgrees`, `[]SnapshotMatchesItems`.
  Their inductive invariant is `Consistent`, which has `ReadsHold`: *while a draft is
  still at the version that a request read, the item set the request read is still the
  draft's, and the items it has read still have that content*. This is the argument for the
  optimistic version check, and it is needed because the finalize write looks at the version
  only. The proof shows each write to be `Orderly` (versions never decrease, and the items
  and their content under one version do not change), and once that `Orderly` steps keep
  what other requests hold.
- **`ItemsBilledOnce`**: `[]BilledOnce`, a consequence of the two.
- **`FinalizedStays`**: `Spec => FinalizedIsFinal`, an action property.
- **`NumbersUnique`**: `[]UniqueNumbers`, with `NumbersHandedOut`: numbers held by requests
  about to write, and numbers of finalized invoices, are at most the counter and distinct
  unless saturated.
- **`TotalsFit`**: `[]FinalizedTotalsFit`, inductive together with `Consistent`: the write
  freezes the lines whose total was checked, and `ReadsHold` makes the items it read, which
  were some, those on the draft.
- **`CapHolds`**: `[]ItemCapHolds`. `addInvoiceItems` counted the items it *read*; `ReadsHold`
  makes these the items on the draft when its conditional write succeeds. `CapKept` says of
  every step that it takes items off an invoice, or leaves it within the cap.
- **`PdfsMatch`**: `[]PdfMatchesSnapshot`, with `DownloadsCarrySnapshot`: a download that has
  read the invoice holds its frozen snapshot, and one that is about to set the key has put
  the document. `FinalizedKept` keeps both true of a download that waits.
- **`LedgerImplemented`**: `Spec => ImplementsLedger`, the refinement. Each conditional write
  is one step of `InvoiceLedger` (one lemma each), and every other step leaves what the ledger
  sees alone. Finalizing is where it needs the invariants: the lines frozen were read one
  by one, and are the work on the invoice at the time of the write because of `ReadsHold`;
  the number is issued to no one else because of `NumbersHandedOut`.

Assumed are only the two assumptions on constants (`IdsAssumption`, `BoundsAssumption`:
ids are disjoint from the absent value, item ids are finitely many, bounds are natural numbers) and
`SnapshotAssumption` (a snapshot is not the absent value). The bounds on calls, items,
totals and numbers are arbitrary in the proofs.

### Grants

All three properties that `grants` checks are theorems. The inductive invariant `Consistent`
(**`GrantsAreConsistent`**) relates four things: the rows, the secrets clients were given
(`given`, `drawn`), the history of rotations and of calls served, and what calls in flight
hold. In it a version that was replaced is below its grant's present one, a grant ends
`GrantLife` after its approval, and a call about to rotate holds the row it
read, whose end is still the grant's.

- **`RotationsDoNotFork`**: `[]OneSuccessor`. A rotation succeeds only from the present version
  and then that version is below the present one; a resent one finds it so. `GrantsKept`
  (versions only go up, ends do not move, rows do not come back) keeps this for the others.
- **`GrantsEndInTime`**, **`RevocationIsFinal`**, **`GrantsAreOverForGood`**: `NothingOutlivesTheGrant`,
  `RevokedIsFinal`, and both as `GrantsEndForGood`. The cap on a refreshed expiry is
  computed from a row read before; it is right at the write because no write moves the end.
- **`VerdictsHold`**: `[]VerdictsAreCurrent`. A check of an API token notes what the token is
  during the call; the row it then fetches, strongly consistent, is one of those.
- **`GrantsTypeCorrect`**: `[]TypeOK`.

Assumed is `LifetimesAssumption`: the lifetimes are positive. It is asserted of the
instance in `MCGrants`. `GrantsTypeCorrect` also takes `MaxTime` to be a natural number.

### Administration

The inductive invariant (**`AdministrationIsConsistent`**) has three parts worth naming. `KindsSeen`:
an instance's kind never changes, so a stale read of it is as good as a fresh one.
`wrote` is, for each membership, what was last written to each part, and must be the row.
`Owes` is the argument for `deleteUser`: what the index listed of the user when it was called
is, until it lists them again, still listed or deleted; after that it is among what is left
to delete.

- **`PartsStayAsWritten`**: `[]PartsAreKept`: overlapping updates of a role and of settings each keep the
  other's part.
- **`DismissedStayOut`**: `[]DismissedAreOut`, by `Owes`, including calls cut short and repeated.
- **`RemovalIsFinal`**: `Spec => RemovedStayOut`, from `MembershipsKept`.
- **`AdministrationTypeCorrect`**: `[]TypeOK`.

Assumed is `BootstrapAssumption`, which says of what the program starts with that it
is well formed.

### Tickets

The inductive invariant (**`AlwaysConsistent`**) is about three tables and the resolvers that
are between two of their steps. `Ready` says for each step what a resolver holds: one that is
to send a reply has a row of the reply's kind, ticket and recipients; one that is to stamp a row
has a mail that was accepted as the row says. `RepliesApart`: two replies in flight have two
rows, and what is still to be sent was not sent. `Known` is the notion of a Message-ID *of* a
ticket; whatever a message or a mail refers to, or a resolver is about to send, is known of its
ticket. `NumbersHandedOut` covers numbers that were taken for tickets not created yet.
`Kept` is what a step may do to rows others refer to: tables grow, what was sent stays sent,
a message keeps ticket, kind, recipients, references, files and the id of received mail.

- **`RepliesAlwaysAsRecorded`**: `[]RepliesAsRecorded`, for any number of `Attempts`. The mail is built once,
  from the row that was read, and the message row is written from what was built; edits of the
  ticket in between do not reach either. A resolver sends once, and what the SDK makes of that are
  mails that are alike but for their attempt (`Attempted`).
- **`MailsAlwaysNameTheirTicket`**: `[]MailsNameTheirTicket`, which is about headers and numbers. A reply follows a message with a
  Message-ID and a mail never names one that does not exist yet, so threads stay apart by
  induction on what is known of a ticket.
- **`MarkersAlwaysAgree`**: `[]MarkersAgree`, for every row a ticket has ever had.
- **`NoticesAlwaysConcernTheReader`**: `[]NoticesConcernTheReader`.
- **`TypeCorrect`**: `[]TypeOK`.

Assumed are the named assumptions of `Tickets` and `StaffNotices`: mailboxes, members, routes,
initial tickets and subjects are well formed, a ticket starts with a requester, the SDK makes one attempt at
least (`AttemptsAssumption`), and ids of received mail, ids of sent mail, the absent value and users are told apart. TLC evaluates them on
the instances it checks.

### Login

The inductive invariant (**`AlwaysConsistent`**) ties every row to the code it was stored with.
`Fits` says that a row a key ever had names a code that was stored under that key, at the time the
row says; it holds of the rows that eventually consistent reads may return and of the row a
verification carries to its later writes. That keys of login codes and of submit codes differ
(`KeysApart`) keeps the two flows apart. Of sessions, `SessionsLast` says that no row a session
ever had lasts longer than its present one, so a call let on by an old row is let on for at most as
long as the session lasts. `Keeps` is what a step may do to what calls in flight refer
to: codes keep their address, instance and time, mailed codes stay mailed, sessions
keep user and code, are not shortened and not brought back.

- **`CodesAlwaysBuyTheirOwn`**: `[]CodesBuyTheirOwn`. A request that is to issue something has
  typed the code of the row it read, which was mailed and was stored under its key.
- **`LoginAttemptsAlwaysKept`**: `[]LoginAttemptsKept`. The `ADD` counts on whatever row is there:
  if it is the code's the row counts too, and otherwise it has another code, or none. A put, also a
  repeated one, starts both counts over.
  Of submit codes, which are put back as they were read, the like fails (see below).
- **`RefusalsAlwaysJustified`**: `[]RefusalsJustified`, by `Fits`.
- **`UseAlwaysKeepsAlive`**: `[]UseKeepsAlive`, by `SessionsLast`: a call that does not touch the
  session read a row used at most `TouchAfter` before.
- **`LogoutStaysFinal`**: `Spec => LogoutIsFinal`, an action property.
- **`LoginTypeCorrect`**: `[]TypeOK`.

Assumed are the named assumptions of `Login`: durations are positive, addresses belong to users or
to nobody, and addresses, pairs of instance and address, and the absent value differ.
`Lag`, the offered calls and all bounds but the clock's, a natural number, are arbitrary.

### Passkeys

The invariant `Sound` (**`PasskeysAreSound`**) says of rows, sessions and calls in flight that what they
refer to is there, that every row a passkey ever had is its user's, and that a passkey's label is the
one last noted, and that a credential about to be put again was made for the call's challenge (`MadeFor`).

- **`LabelsAreKept`**: `[]RenamesKept`: the label is that of the last rename or put. The touch of a login writes `last_used_at` alone, so the row
  it had read, however old, does not come back.
- **`OnlyOverlapsPassTheCap`**: `[]CapAlmostHolds`, if the index is up to date (`Lag = FALSE`) and calls at a time are
  finitely many. The inductive invariant is `Capped`: a user's passkeys, and those counted for but not
  yet put, are at most the cap and the number of calls less one. A put moves a passkey from the
  second to the first; only a count adds one, and then the first are below the cap.
- **`DeletedUnlessPutAgain`**: `Spec => DeletedUnlessPut`, an action property: of all steps only the put of a
  registration with the same credential brings a deleted passkey back.
- **`PasskeysTypeCorrect`**: `[]TypeOK`.

Assumed are `LimitsAssumption` and `LagAssumption` (the cap and the life of a challenge are positive),
asserted of the instances in `MCAccess`.

### Inbound mail

`InboundMail` extends `Tickets`, and its proofs extend those of `Tickets`: agents' resolvers and
the workers write the same rows, so the invariant is of both. `InboundConsistent` is
`Consistent` of `Tickets` with

- `ContentSound`: received mail is well formed and has an id of its own, unless it is one of ours,
  which comes from an address of ours;
- `QueueSound`: what is on the queue has arrived, and a worker's delivery is held;
- `KeptSound`: a mail has one row at most, was claimed and accepted, and its row is on a ticket of the
  instance it was addressed to;
- `WorkersSound`: what each worker goes on with is there, it has claimed its mail, and as long as it
  has not stored the mail nobody has;
- `WorkersApart`: two workers have different deliveries, past the claim different mails, about to
  open a ticket different numbers, and about to stamp different rows.

The last two are the argument for the conditional put of the claim. The invariant was checked
on all states of `inbound` before it was proved. `Consistent` is stated so that it
holds with received mail in the tables, too; that no received mail names another there (`Bare`)
is used for the theorems of `Tickets` alone.

- **`InboxImplemented`**: `InboundSpec => ImplementsInbox`, the refinement. A mail's place changes
  in four ways, each a step of `Inbox`: it arrives, its row is written by the worker that claimed it,
  it is refused, or that worker fails and it is given up. `Boxes` are equal before and after
  every other step, because rows stay on tickets that stay with their instance.
- **`LoopsAlwaysEnd`**: `[]NoLoops`. What is kept was accepted, so a person wrote it from an address that
  is not ours, and by `ContentSound` its id is no mail's of ours.
- **`SendersAlwaysHear`**: `[]SenderHears`, if removing requesters and CCs is not offered (an agent
  may remove whoever wrote). It needs `SendersConsistent`: everyone on any row that a ticket
  has ever had is on the row it has now (`Listed`), so a sender found on a stale row is still there, and
  those added by another worker in between are not lost, since the add is to a set.
- **`TicketsAlwaysHoldTogether`**: `[]` of `ThreadsAsReceived`, `NumbersUnique` and
  `RepliesAsRecorded`, which are parts of `TicketsHoldTogether`.
- **`InboundTypeCorrect`**, **`InboundAlwaysConsistent`**: `[]InboundTypeOK`, `[]InboundConsistent`.

Assumed are the named assumptions of `Tickets` and `StaffNotices` and three on the mail:
`InstancesAssumption` (the absent value is no instance), `InboundAssumption` (bounds are positive, what a mail client keeps is a set of those parts) and `LettersAssumption` (what
customers write is mail, and the absent value is none). Mails, routes, tickets, staleness,
redeliveries, copies and workers are arbitrary.

### Batch reads

The inductive invariant of `BatchReadsProofs` (`Sound`) says of a call in flight: the rows that
stand are where it looks and those that are absent are not (`HistorySound`), also in the table, since an ordinary
read may catch up with it at any moment; and of the chunks asked for so far, a row that stands
is found or will be asked for again (`AskingSound`). When the last chunk has no key left, `LastChunk` (integer
division) says that all positions were reached.

- **`NoneAlwaysMeansMissing`**: `[]NoneMeansMissing` of `BatchReads`, for any chunk size, number of
  attempts and ids. `reads` checks it of the instance of the mix *batches*.
- **`BatchTypeCorrect`**: `[]TypeOK` of `BatchReads`, which bounds the attempts at a chunk by
  `BATCH_GET_MAX_ATTEMPTS` and the chunks by what the ids make.

Assumed is `BatchReadsAssumption`: the constants are positive. `MCReads` asserts it of the instance.

### What is only model-checked

- Out of the prover's reach: `Drains` and `CallsEnd` (liveness under fairness, `ENABLED`), and
  what a recursive definition computes for every input, by induction over data.
- `AnswersThread`, of `TicketsHoldTogether`. It is about the order in which `resolve_ticket` tries the
  candidates of a mail, a search through a sequence built from its headers, and holds only where lookups
  are up to date.
- `WalksAreFaithful` and `ThreadsAreReadWhole` (and the types of `Listings` and `ThreadReads`). What
  an index and a thread are in is an order chosen by `SetToSortSeq` and `SortSeq`; that a finite set can be put
  in order is an induction on its size, and without it nothing is known of the sequence chosen.

## Findings

Two runs show what the code does against what a comment or document of the repository
says, for one property each.

- `present_settings`: `SCHEMA.md` (line 904) says primary-table reads, `BatchGetItem`
  included, are strongly consistent by default. `get_records` (`dynamodb.rs` 844) does not
  set `ConsistentRead`; the comments in `db.rs` (for example on `get_invoices`, line 1689)
  call the same batch reads eventually consistent. `finalizeInvoice` reads project and
  instance through it, so an invoice can freeze settings that had been replaced before
  finalizing began. The items are read consistently, and the theorems above hold regardless.
- `lost_mail`: `claim_processed_message` speaks of "a rare dropped message that stays in S3
  and the DLQ" (`db.rs` 1967). The claim is put before the work and never withdrawn: when the work fails,
  the redelivery finds the claim and returns Ok, so the queue deletes the message and it never
  reaches the dead-letter queue. `SCHEMA.md` ("Known issues and risks", line 773) describes
  it as the code has it.

### What comments say and the code does not do

The modules have a section of this name: statements of comments that a race contradicts.
They are written as properties but no run checks them, since they do not hold; to see why,
add one to a run's configuration.

| property | the code | the comment |
| --- | --- | --- |
| `Tickets.SomeoneToReplyTo` | `mutations.rs` 2586: the check that a requester stays is made on a read, the delete has no condition on the set | "a ticket must always have someone to reply to" (2574) |
| `Tickets.OneChangeAtATime`, `InboundMail.ReopenKeepsAssignee` | `mutations.rs` 2413, `pipeline.rs` 256: a status change writes the assignee it read, over one made since | "pass the ticket's current assignee unchanged" (`db.rs` 1085) |
| `Tickets.RestoredQuietly` | `outbound.rs` 234: restoring a ticket mails "reopened" | "Deleted is excluded in either direction" (224) |
| `Tickets.UnstampedIsUnsent` | `mutations.rs` 2279: the stamp follows the send and may be lost | a row without it "doubles as the audit trail" of a failed send (2156) |
| `Tickets.PaperclipShown` | `mutations.rs` 2264: flag and file are two writes | "true once any message on this ticket carries an attachment" (`db.rs` 1052) |
| `Tickets.DeletedMailsNobody` | `staff_notify.rs` 184 tests the row read at the start | "a deleted ticket mails nobody" (180) |
| `Tickets.AnswersRouteBack` | `outbound.rs` 128: `support@` of a wildcard's domain may be another instance's exact address | "still round-trips correctly" (111) |
| `InboundMail.TaggedOpensNothing` | `pipeline.rs` 458 reads the tag's ticket with `get_tickets` | "a strongly-consistent GetItem" (`resolution.rs` 12) |
| `InboundMail.ForeignTagRejected` | `pipeline.rs` 501: only the number of a subject tag is looked up | "rejected by the caller" (`outbound.rs` 180) |
| `Login.OneCodePerWindow` | `mutations.rs` 919: a read, and later an unconditional put | "at most one code per LOGIN_CODE_RATE_LIMIT_S per email" (918) |
| `Login.SubmitAttemptsKept` | `mutations.rs` 1262: the count is read and put back | "mirroring verify_auth_code" (1257), which is an `ADD` |
| `Login.ExpiresFromIssuance` | `dynamodb.rs` 2155: every touch moves the expiry | "8 hours from issuance" (`SCHEMA.md` 362) |
| `Passkeys.CapHolds` | `mutations.rs` 2905: the second count precedes an unconditional put | "to close the race" (47) |
| `Grants.CodesSingleUse` | `oauth_http.rs` 397: the delete of the code has no condition | "Single use" (394) |
| `Administration.DismissedHoldNothing` | `mutations.rs` 1652: memberships come from an index that lags | "removes every membership they hold" (1616) |
| `Administration.RevokedAreOut` | `mutations.rs` 1736: a user can have two memberships in an instance, of which one is removed | "rejects if a membership already exists" (1664) |
| `Administration.SlugsAreUnique` | `mutations.rs` 1405: the check reads an index | two operators "at the exact same moment" (`SCHEMA.md` 845) |
| `Administration.AnsweredIsSo` | `mutations.rs` 1513: the write is skipped on a stale read | "a no-op transition still succeeds" (1499) |
| `Administration.AddressesNotTaken` | `mutations.rs` 1331: the put has no condition | "already mapped to instance" (1326) |
| `Administration.OwnAddressesRemoved` | `mutations.rs` 1357: the delete has no condition | another instance's is "not found" (1341) |
| `Listings.PagesLieBeforeTheCursor` | `dynamodb.rs` 1310: `last` with `before` scans toward older rows | "the page ending just before this cursor" (4792) |
| `Listings.PagesEndAtTheCursor` | `dynamodb.rs` 4008: `first` with `before` drops the row next to the cursor | the same |

## Resent calls

The SDK sends a call again when its response is lost. Where that can have a second effect that a
property is about, the resent call is a step of its own: the `ADD` of the invoice counter
(`FinalizeInvoiceAllocateLost`), mails to customers (`Accept`), the put of an emailed code
(`CodePut`) and of a passkey (`RegistrationPut`), the conditional put of a mail's claim, whose second
attempt finds the first (`Claim`). A number that a resent `ADD` skips for a ticket only leaves a gap.

Not modelled is the repetition of three more unconditional puts: `create_membership` (`dynamodb.rs`
1675), `create_user` and `create_inbound_address`. If an administrator finds the new row in a
listing and deletes it before the put is repeated, the row comes back. `RemovedStayOut`
and `DismissedAreOut` claim nothing of that case. Sessions and challenges are put without a condition,
too, but until the put is answered nobody has the secret or the id to use them with; all other puts have
a condition.

## Not modelled

- The front ends: the MCP server, the command line, the web client. They reach the
  same resolvers and storage calls and keep no state of their own.
- Page layout of PDFs, wording and assembly of mails, MIME parsing, attachment names, hashes,
  signatures and digits, what `webauthn-rs` verifies (signature counters included), Turnstile.
- Parsing and formatting of money and quantities and the amount of one line: sequential
  conversions the repository tests directly. `Invoicing` takes line amounts as given, and
  rounding, GST and totals from `Money`.
- Authorization, except where it changes what a call may do (`Administration`); it changes no
  state. `READ_ONLY` mode: all writes refuse.
- The exact text and order of invoice lines; `updated_at` and other timestamps, except a
  ticket's activity as the sort key of `Listings`.
- `processed_message` rows expiring: their lifetime is longer than the queue redelivers.
- Local development, mocks, telemetry, and of Terraform all but the queue's redrive policy.
- Known to the team and left out as properties: a lost answer to a refresh, whose client then
  presents a spent token and loses its grant (modelled in `Grants`; nothing promises
  otherwise).
