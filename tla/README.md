# Formal models of the CMDA Nigeria backend

This directory holds TLA+ models of the parts of the backend in which several
requests, processes and external services touch the same data, the TLC
configurations that check the models on small instances, and proofs, checked
by TLAPS, of the most important theorems for instances of any size.  Paths are
relative to the repository's root; line numbers are those of the commit the
models were written from.  `PROJECT.json` maps every definition to its lines.

    tlc -config MCOrderPayment.cfg MCOrderPayment      # check an instance
    tlapm OrderPaymentProofs.tla                       # check the proofs

## 1. The system

A NestJS application with MongoDB.  The same code runs in two roles: `web`
(`src/main.ts`: HTTP and WebSocket requests) and one `worker` (`src/worker.ts`:
queue jobs, cron jobs).  They share the database and a RabbitMQ queue
`cmda.jobs.v1`.  MongoDB changes single documents atomically; only one
operation, sending a chat message, uses a multi-document transaction.  So
almost every handler is a sequence of atomic steps with anything happening in
between: other handlers, errors, a restart.

| Component | State it keeps | Operations | Meets | What makes it correct |
|---|---|---|---|---|
| Order payment (`orders/`) | orders (isPaid, stockDeducted) | checkout, create (confirm), sync, status update | payment intents, products, providers | stock taken exactly once, by paid orders only |
| Products (`products/`) | stock | edit, remove | order payment | stock never negative, nothing lost |
| Payment intents (`payment-intents/`) | intent status, reference | create, mark, requery | orders, donations, subscriptions | a successful payment completes its context |
| Donations, subscriptions (`donations/`, `subscriptions/`) | records, the member's expiry and flags | init, create, sync, activate | intents, providers | a payment counts once, coverage and flags agree |
| Pending payments (`admin/pending-payments`) | the above | list, refresh, confirm by hand | providers | the administrator's repair agrees with the normal path |
| Events (`events/`) | events with registrations, drafts | pay, register, confirm, update, remove | providers, users | paid means registered, once, with the room chosen last |
| Job queue (`queue/`, `worker.ts`) | broker queue, dead letters | publish, consume, reconnect | both roles | at-least-once for what reached the broker |
| Notification dispatcher (`notifications/notification-dispatcher`) | outbox entries | notify, deliver, processPending | queue, in-app items, Expo | every entry settled, nobody told twice without cause |
| In-app notifications (`notifications/notifications`) | items | create, read, delete, restore | outboxes, broadcasts | what a user read or deleted stays so, on every device |
| Push tokens (`notifications/push-token`) | token documents | register, remove, send, deactivate | dispatcher, broadcasts | a push reaches the phones of its addressee |
| Administrators' notifications (`notifications/admin-notification`) | notification, delivery documents | create, send, schedule, receipts | tokens, in-app items | one sender at a time, statistics agree |
| Chat (`chats/`) | messages, logs, blocks | send, block, report | outbox, bans | a message stored once, both sides agree |
| Chat outbox (`chats/chat-outbox`) | entries with locks | timed runs | chat, in-app items, Expo | every message notified, oldest first |
| Bulk e-mail (`admin/bulk-email`) | e-mail logs | send, process, sweep | queue, Resend, SMTP | one sender per log, SENT means sent |
| Sessions (`auth/`) | tokenVersion, refresh sessions | login, refresh, logout, change password | every guard | a revoked token stays revoked |
| Accounts (`users/`, `auth/`, `admin/`) | users, counter of membership numbers | sign up, create, verify, remove, remind | sessions, e-mail | a number belongs to one account |
| Standing (`users/`, `member-manager/`) | role, transition, ban, verification, settings | transition, ban, verify, save settings | chat, sessions | one request promotes once |
| Lifetime import (`admin/`) | users | preview, confirm | standing, subscriptions | only members without get a lifetime membership |
| Casework (`member-manager/`) | notes, follow-ups, tickets, tasks, templates, logs | create, change, complete, send | e-mail | what is reported is what was done |
| Service subscriptions (`service-subscriptions/`) | services, history, reminder date | renew, recompute statuses, remind | e-mail | every renewal goes on by the calendar, a reminder once a day |
| Scheduled e-mails (`scheduled-emails/`) | none | four daily jobs, forced runs | users, events | everybody due is e-mailed once |
| Discussion (`comments-reactions/`) | comments, reactions, feedback, personal events, reminders | toggle, create, delete, rate, remind | events, e-mail, push | taps alternate, a reminder that is known to be delivered goes out once |
| Volunteering (`volunteers/`, `vacancy/`) | jobs, shifts, applications | sign up, withdraw, mark, apply | users | as many volunteers as places |
| Content (`faithentry/`, `resources/`, `training/`, `chapters/`) | single documents | create, edit, count, complete | dispatcher, WordPress, YouTube | an anonymous entry stays its owner's, counts are true |
| Development invoices (`development-invoices/`) | invoices | create, edit, pay, list | | the sum paid is what was typed and recorded |
| Backup (`backup/`) | what each process remembers | create, clean up, delete, list | Cloudinary | the newest are kept |
| Listings (almost every service) | none | page, count, statistics | all of the above | reading to the end shows everything, once |

The hard behaviours, all listed with their lines in `PROJECT.json` under
`hazards`: confirmations of one payment that race each other; a read before an
update that is no longer true when the update is made; a process that stops
between two updates; jobs lost, repeated, or handled late; deliveries slower
than the lock that protects them; compensations after partial failures; cron
jobs that leave no trace; positions, pages and memories gone stale.

## 2. Modules

| Module | Models | Checked in |
|---|---|---|
| `StockReservation` | what a store promises about reservations (abstract) | `order_payment` |
| `OrderPayment` | checkout and the ways to confirm a payment, implements `StockReservation` | `order_payment` |
| `MemberPayments` | subscriptions and donations, from the checkout to the member's flags | `member_payments` |
| `EventRegistration` | checkout, draft, confirmation and registration for an event | `events`, `events_cancelled` |
| `DeliveryLedger` | what an outbox promises (abstract) | with the next two outboxes |
| `JobQueue` | RabbitMQ as the code uses it | with the next two |
| `NotificationOutbox` | the dispatcher and its outbox, implements `DeliveryLedger` | `notification_outbox`, `notification_crash` |
| `BulkEmail` | e-mail logs, jobs, sweeps and providers | `bulk_email` |
| `ChatSend`, `ChatOutbox` | `sendMessage` with blocks and bans; the outbox processor, implements `DeliveryLedger` | `services` |
| `ChatDelivery` | both, sharing the transaction (composition) | `chat_delivery` |
| `AdminNotification` | notifications that administrators send or schedule | `admin_notification` |
| `PushTokens` | the token documents of members and phones | `services`, `push_token_index` |
| `Sessions` | access and refresh tokens of one account | `services` |
| `MemberAccounts` | creation, numbering, verification, removal of accounts | `services` |
| `MemberStanding` | transitions, bans, verification, settings | `services` |
| `LifetimeImport` | preview and confirmation of an imported sheet | `services` |
| `ServiceBilling` | renewals, statuses and reminders of one service | `services` |
| `EventReminders`, `ScheduledEmails` | the minute job of reminders; the daily jobs | `services` |
| `Volunteering`, `Discussion` | shifts and applications; reactions, comments, feedback | `services` |
| `Casework` | files of the member managers and their bulk e-mails | `services`, `casework` |
| `Content`, `Invoices`, `Inbox`, `Backups` | as their names say | `services` |
| `Listings` | fifty listings, exports and statistics, by what they sort, count and filter | `services` |
| `OfficeServices`, `Services` | the services that share no state, one instance each: those of the office, and all of them | `services` |
| `OrderPaymentProofs`, `MemberPaymentsProofs`, `EventRegistrationProofs`, `AdminNotificationProofs`, `ChatDeliveryProofs`, `OfficeServicesProofs`, `ServicesProofs` | theorems about the modules they are named for | TLAPS |
| `JobQueueProofs` | theorems about `NotificationOutbox` and `BulkEmail` | TLAPS |
| `MC*` | constants (and symmetry) for TLC | |

### Orders and stock

`deductStockOnce` claims the order by setting `stockDeducted` if it was not
set, deducts the products one by one, and after a failure gives back what it
took and then resets the flag.  `order`, `stock` and `intent` are the documents;
`stage`, `job` and `deducted` are the local state of each request of the web
process; `charge` is what the provider knows.  Each store call of a request is
an action: `Claim`, `ReadLatest`, `DeductLine`, `DeductFails`, `RestoreLine`,
`ReleaseClaim`, `MarkPaid`, `MarkIntent`.  Requests enter by `CreatePaystack`,
`CreatePaypal`, `CreateLegacy`, `SyncPaymentStatus` and `Requery` and may die
(`RequestDies`) at any point.  A failing store call in the middle of a
confirmation is one of these deaths, except in the deduction, whose catch block
is modelled.  `taken` (which lines are out of stock for an order) and `base`
(what the shelf would hold otherwise) are history variables.  Administrators
edit stock and remove products at any time.

Things the code does that the model shows and nobody should be surprised by:
an order whose request dies between claim and mark stays claimed, its later
confirmations are refused ("already being processed"), and its stock stays
taken (`OrphanedClaimNeedsFault` says that nothing else causes this); a
captured PayPal payment whose request dies cannot be confirmed again, because
the second capture fails (`CreatePaypal` needs an uncaptured charge); a requery
marks the intent successful before the order is completed.

### Outboxes and the queue

`JobQueue` gives publish (which may lose the job, since the code uses no
publisher confirms, or be refused when there is no channel), receive,
acknowledge, dead-letter, redelivery of what was not acknowledged, and the
connection closing and coming back.  `NotificationOutbox` extends it: `Notify`
upserts the entry; `PublishJob` hands it to the queue or delivers in place;
`ClaimEntry`, `CreateInApp`, `SendPush`, `SettleEntry`, `DeliveryFails` and
`CountFailure` are the steps of `deliver`; `Sweep` is the cron job.  `due` and
`stale` abstract the clock: `BecomesDue` lets the retry time pass,
`ClaimGoesStale` the ten minutes of a claim.  With `SlowDelivery` a claim may
go stale while its handler is still working.

`ChatOutbox` is similar but has locks of two minutes and takes the oldest
claimable entry in runs of up to `RunLength` (25 in the code) entries per
process.  `SendPush` never fails there: `sendChatMessagePush` returns failures
as numbers which the processor ignores, so a push refused by Expo counts as
made and is not tried again.  `DeliveryLedger` states what both promise:
a recorded entry is informed, perhaps after failures, at most a bounded number
of times, and completed only after the recipient was informed.  An entry whose
claim was taken over while its first delivery was still at work (`overtaken`)
is out of the ledger ("disputed"): the code's last updates ask only for the
entry's id, so the slow delivery may reopen or settle what the other has done.

`ChatSend` models `sendMessage` call by call: the recipient check, the block
check, the search for an earlier message with the client's id, the transaction,
the emit and the hint to the worker, with clients that retry, calls that break
off after the commit, and blocks and bans in between.  `ChatDelivery` joins it
to `ChatOutbox` in the one step they share: the transaction that writes message
and entry together.

`BulkEmail` models the logs of bulk messages and reminders.  Resend and SMTP
may each take an e-mail without telling the caller (`doubts` counts these), and
the update to SENT may fail and be caught as a failed sending.

### Push tokens and administrators' notifications

`PushTokens` has one action per store call of `registerToken`
(`SilenceToken`, `UpsertToken`), `removeToken` and `sendToUser` (`ReadTokens`,
`SendPush`, `DeactivateToken`); the unique index is the guard `Free` of the
upsert.  Phones install and lose the app, and Expo answers that a token is dead
only when it is.

In `AdminNotification` a sender (the request, or the cron job's loop) has the
stages of `sendNotification`: the claim, the two queries that choose the members
for items and for pushes, the items, the rounds of a chunk, the delivery
documents, the save; and `reset`, the catch block of its caller.  `checks` are
the receipt checks nobody waits for.  A ticket is named by the claim and the round
it was sent in, so that a check of an earlier attempt finds no document any more
once a later attempt has written its tickets, as in the code.  A failed delivery
keeps the ticket of its document, and the save keeps the old failed tokens when
there was nothing to push.

A round may end in three ways: `PushRound`, where Expo answers for each push;
`PushThrows`, where its call throws, whatever it had taken; and
`DeactivationThrows`, where it has answered and the deactivation of a dead token
throws inside the same `try` (`admin-notification.service.ts:494-496`).  The catch
block then sends the whole chunk again, so members whose push Expo had accepted get
another, with another ticket, and the results already pushed onto the list stay on
it: `past` keeps them, a delivery document is written for each, and the receipts of
replaced tickets are read as well (`ReadOldReceipt`).  `doubts` counts the pushes
Expo took in a round that failed, and `SecondPushOnlyInDoubt` names just these and a
notification claimed again as reasons for a second push; the statistics are
promised only for those whose answered round was not repeated (`disturbed`).

### Subscriptions and donations

`MemberPayments` follows a payment from the checkout (`InitSubscription`,
`InitDonation`) through the provider to the documents and the member's flags.
It is confirmed by the return (`Save`), Paystack's `Webhook`, `Sync` and
`Requery`, by an administrator's `Activate`, and by `Refresh` and
`ConfirmManually` of the page of pending payments.  A request is `Begin`, a
look for an earlier record, the verification (a PayPal order is captured by it,
once), the record, the mark of the intent, and for subscriptions the reading of
the coverage (`Cover`) and the update of the member.  The different ways to
record, `SaveSubscriptionPaystack` (pays the unpaid document of the checkout)
and `SaveSubscriptionPaypal` (makes one), `OldDonation` (refused by the unique
index) and so on, are actions of their own.

The model shows: two confirmations of one PayPal subscription record it twice,
since nothing but the search before it prevents that (`RecordedOnce` says that
nothing else does); a request that reads the coverage while another records
writes flags that are no longer right, until the member pays again
(`CoveredAreSubscribed`); a manual confirmation marks the document and leaves
the member as he was.  The sync by the code of an intent always fails: it
compares `linkedIntent.userId` (`donations.service.ts:584`), a field that
intents do not have.

### Events

`EventRegistration` has `PayForEvent` as one action (its writes are one upsert of
the draft, which without a choice keeps the room of an earlier checkout since
mongoose leaves undefined fields out of `$set`, the notification and the checkout), `ConfirmPayment` and `Webhook`,
which verify, find the draft, check, save and delete the draft in separate
steps, `RegisterFree`, and what happens meanwhile: `ExpireDraft`, `UpdateOne`,
`ClosePeriod`, `RemoveOne`, `Subscription`.  The confirmation checks again what
the checkout checked, so a member who was charged is refused when the form has
become stricter, the subscription has lapsed, the period has closed, or the
draft has expired (`RefusedOnlyIfChanged` says that there is no other reason);
nobody is told, and no money goes back.  Checkouts share the member's draft while it
lives, so a payment confirms with the room chosen last, whichever room it was for; a
member who first chose a room, and then checks out without one, keeps the room and
is charged for none (`RoomIsChosen` says only that it is one of those, and which).  Paystack's webhook ignores conferences
(`desc` is then `CONFERENCE`, which `paystack.controller.ts:40-55` does not
know), so a conference is registered only when the member comes back.  A PayPal
confirmation that breaks off after the capture cannot be repeated.

### The services

These modules model one service each, all at the granularity of database calls:
a request reads in one action and writes in another, may break off between, and
a history variable (`overlap`, `disturbed`, `crossed`, `late`) remembers who
interleaved, so that a property can say: this goes wrong only there.

 - `Sessions`: `MatchPassword`, `ReadVersion`, `PushSession` are the three queries
   of a sign-in; a refresh reads the account, rotates the token by one
   conditional update (`RotateToken`) or is refused; `Revoke` raises the version
   and empties the sessions.  A sign-in under way during a revocation
   either writes back the version it read before, undoing the increment, or reads
   the new one and is let in with the old password; `late` remembers it.
 - `MemberAccounts`: the four ways to create an account share the schema's
   pre-save hook, which takes the number before the insertion; so a failed
   insertion leaves a gap, and never a duplicate.
 - `MemberStanding`, `LifetimeImport`, `Volunteering`, `Discussion`, `Content`: read,
   check and write in two calls.  A download is counted in one and answered
   afterwards; the count may run ahead of the answers by those under way.
 - `ServiceBilling`: time is days, and `MonthStart` a calendar of months of unequal
   length.  `NextRenewal` is what `setMonth` and `setFullYear` do: the same day of
   the month a cycle later, counted on into the next month where there is no such
   day.  `course` is the date last set by hand and the renewals then, from which
   `RenewalsAdvance` reckons where the date must stand: in the month that many
   cycles later, on the same day, or, once it has slipped over the end of a month
   that was too short, early in the month after, and it does so at most once.
   Overlapping renewals save the same date twice, so it may stand some cycles
   earlier, never later; a renewal that was reading when the date was set by hand
   may overwrite it (`crossed`).
 - `EventReminders` and `ScheduledEmails`: jobs that run in every process that
   believes it is the worker.  A channel may take a reminder while the run is told
   otherwise: an e-mail that SMTP accepts after 30 seconds (`email.service.ts:95`), a
   push whose answer is lost or is followed by a token that cannot be deactivated
   (`push-token.service.ts:167`).  The claim is then given back and the next minute
   sends the reminder again; `left` and `repeated` record what really left, and
   `doubted` where the run was told otherwise.  A daily e-mail has no record at all:
   without a queue both processes send it.
 - `Invoices`: POST and PATCH write any field of the form, so a status, number, total
   or amount paid may be typed at any time and needs to agree with nothing.  `given`
   remembers what was last typed as paid and what the payments came to then, and the
   property follows from there; `disturbed` and `undone` are the invoices that a
   payment saved from what it had read before another payment, or an edit.
 - `Casework`: the manager's id is `undefined` in every call (see findings), so
   what requires one is never created.
 - `Backups`: each process has a memory of its own; a listing answered late
   replaces what was remembered since, and a backup remembered twice makes the
   clean-up keep one too few (`backup.service.ts:311` says "keeping only the
   last 10").
 - `Inbox`: one query per operation, and an upsert with `$setOnInsert`; but what is
   emitted to devices or answered is a copy, which `createForUsers` reads in a query of
   its own and the worker sends by way of RabbitMQ, while the owner reads and
   deletes on other devices.  `shown` is what each device has.
 - `Listings`: every listing, export and statistic is an entry of `Catalogue`:
   what it sorts by (a creation date, a date that changes, nothing), whether it
   counts before, with or after the page, and whether its criteria can cease to
   hold; one reader goes from page to page while documents come, go and move.

Worth knowing, and shown by the models or seen while they were written:
`getPendingRegistrations` without a type cuts its page out of three lists that are read
from their beginning, unsorted and together up to the limit, sorts them afterwards
and slices again, so that the second page is mostly empty and items repeat or
are missed although nothing changed; the catalogue has it with a type only.  The
statistics of trainings and users count some groups beside the total, which has
others too (`SomeGroups`); those of chapters and members compute theirs.  A limit
of 0 means no limit to MongoDB and no pages to the caller; the members'
manager counts with a filter that the items ignore (`member-manager.service.ts`
40-75); a lifetime import without a recognised category would fall back to gold;
old anonymous entries that an administrator edits become the administrator's
(`faithentry.service.ts:96-105`); `updateMemberCount` and `trackDownload` have
no caller.

## 3. Checks

Eight runs pass and four exhibit a finding (violated).

| Run | Configuration | What it shows |
|---|---|---|
| `order_payment` | `MCOrderPayment` | one order of each channel: stock conserved and not negative, paid orders hold their lines, a claim is left behind only by a fault and otherwise resolved; the requests implement `StockReservation` |
| `member_payments` | `MCMemberPayments` | pairs of payments of every kind: recorded once unless confirmations overlap, coverage and flags agree unless disturbed, what was charged is recorded in the end |
| `events` | `MCEventRegistration` | registered once, with the room chosen last; refused only for what changed since the checkout; a charged event is registered in the end |
| `events_cancelled` | `MCEventCancelled` | **violated**: see findings |
| `notification_outbox` | `MCNotificationOutbox` | one delivery at a time, pushes repeated only with a cause, every entry settled unless its delivery was cut off; implements `DeliveryLedger` |
| `notification_crash` | `MCNotificationCrash` | **violated**: see findings |
| `chat_delivery` | `MCChatDelivery` | every stored message is notified or given up even though runs break off; retries notify once |
| `bulk_email` | `BulkEmail`, `MCBulkEmail.cfg` | one sender per log, SENT means sent, second copies only in doubt, every log settled unless its handler is lost |
| `admin_notification` | `MCAdminNotification` | one sender unless a claim ended under it; items, pushes and statistics agree; scheduled notifications are sent unless their sender stopped |
| `push_token_index` | `MCPushTokensIndex` | **violated**: see findings |
| `casework` | `Casework`, `MCCasework.cfg` | **violated**: see findings |
| `services` | `MCServices` | eighteen services, one property (or group) for each; see below |

`services` checks the services that share no state with one another in one run:
its variable `focus` names the service that a behaviour is about, and the other
variables are slots that this service uses for its own.  Nothing is composed
there; each INSTANCE in the modules `OfficeServices` and `Services` gives one
service its slots and its bounds, `Services` chooses among them, and `MCServices`
adds the letters, rows and dates of the checked instance.  The constant `Services` of the configuration can be
reduced to look at one of them alone.

Several properties are conjunctions of named parts (`DeliveredOnce`, `SentOnce`,
`RecordsAgree`, `ChatsAgree`, `RemindedOnce`, `TakingPartIsTrue`, `CountsAreTrue`
...), each stated with its comment in the module of the service.  The modules
also keep, next to a definition, mutants of it: the same operator with a
plausible bug (a guard dropped, an order swapped).  Every part of a conjunction
has one that violates it; `PROJECT.json` names one for each property.

Bounds.  Two or three requests (or handlers, or calls) are enough for every
race of a claim: one that holds it, one that lost it, one that comes after.
The three orders share a product, and two have two lines, so a deduction can
fail in the middle while another order wins the last unit.  `MemberPayments`
has one member with two payments and two requests at a time: payments of
different members touch nothing in common.  `EventRegistration` has two
checkouts of a member, with one change of the event and one fault; two members
meet in `events_cancelled`, and otherwise only in the list of registrations,
whose save is atomic.  The outboxes of `NotificationOutbox` and `BulkEmail` treat
each entry on its own, so one entry with two or three handlers shows every race;
`ChatOutbox`, which sorts its entries, has two.  `AdminNotification` is checked
with one member, so a chunk of pushes is one push, tried again or not; that
parts of a chunk fare differently is in the model but not in the checked
instance.  Attempts are bounded by 1 to 3 where the code has 5 (4 for e-mail
logs): the code treats all but the last alike.  `Keep` is 1 where the code keeps
ten backups, `Limit` one document to a page, a shift has two places for three
members, an import two rows, a calendar five months of two or three days, so that a
renewal overflows: enough for a document on either side of a limit.
`MaxFaults`, `MaxBreaks`, `MaxOutages`, `MaxEdits`, `MaxChanges`, `MaxCalls` and
`MaxSends` bound what the environment does, not what the code does; one of each
is enough for the hazards, which need a single bad event at a bad moment.  Deadlock
is not checked: everything may be done, and then nothing is left to do.

Fairness.  A handler that waits for an answer goes on (Node resumes every
promise; drivers and clients have timeouts), crons and intervals fire, time
passes.  Nothing is assumed of customers, administrators, clients, or the
broker, which need not ever come back.  Paystack
is taken to repeat a webhook until it is answered with success, as it documents
(`ChargedIsRecorded`, `PaidAreRegistered`).  The
liveness properties say what they do not claim: of an order after a fault, of a
notification whose delivery was cut off (`abandoned`), of a log or a scheduled
notification whose handler was lost (`lost`) nothing is promised, because the
code has nothing that would resume them.

### Findings

*A notification whose delivery dies is never delivered* (`notification_crash`).
`deliver` claims an entry by setting it to `processing`.  If the process stops
before the entry is settled, the sweep never selects it again, since it looks
for `pending` entries (`notification-dispatcher.service.ts:119`), and the job,
if there was one, is redelivered at once, too early for the ten-minute claim,
and acknowledged.  The README says that the outboxes "remain the source of
truth", and `worker.ts:44` that the sweepers remain active.  The branch for stale
claims in `deliver` (lines 54-60) shows the intent; the chat outbox has it in
its sweep, and `MessagesAreNotified` passes there although runs break off.
Scheduled notifications of administrators and bulk e-mail have the same gap:
claims and logs that are `processing` or `SENDING` are not looked for again
(`ScheduledAreSent` and `LogsAreSettled` except exactly them).

*A phone that changes hands gets no pushes* (`push_token_index`).
`registerToken` deactivates all entries that have the token, "prevents unique
index conflict" (`push-token.service.ts:35`), and then upserts the caller's own
entry.  The index on the token is unique over all entries, active or not
(`push-token.schema.ts:26`), so when another member's entry has the token, since
he did not log out, the upsert is refused after that entry was silenced.  A
token taken over this way has no listener at all until the first member
registers again.

*Bulk e-mails of managers are reported as failed* (`casework`).  The controller
hands on `req.user._id` (`member-manager.controller.ts:211`), but a token has
`id` (`jwt-payload.ts:4-13`): `managerId` is undefined, the log of the
communication that follows each e-mail is refused by its schema, and the
recipient who was e-mailed counts as failed; "Bulk email sent to 0 recipients" is
the answer, and repeating the call sends everything again.  For the same reason
notes, follow-ups, tasks, templates, announcements and moderation logs cannot
be created, comments on tickets are refused, and the log of a ban or a
verification fails after the change it records.

*Starting to pay cancels the event for everybody else* (`events_cancelled`).
`payForEvent` sends "... has been cancelled." to everybody who is registered
(`events.service.ts:857-867`) whenever somebody opens a checkout; `removeOne`,
where the notification seems to belong, sends none.

## 4. Proofs

Every safety property of the passing runs, invariant or action property, is a
theorem for instances of any size, and so is every refinement.  Eight modules
hold the proofs; each extends the module it is about, so `tlapm X.tla` on it
checks everything.  All
have the same shape: a type invariant, one lemma per group of variables or per
action; an inductive invariant, with one lemma per action (or per kind of
action: calls that stand by, calls that move one stage on); the properties as
consequences of it; and, where there is an abstract specification, the step
simulation.  The lemmas say what an action does "field by field" before they
say what it preserves, because the provers find the second only from the first.

The inductive invariants of the services stand at the end of their own modules
(`SessionsInv`, `AccountsInv`, ...), where TLC can check them as well:
add `Inv == focus = "sessions" => Auth!SessionsInv` to `MCServices`.

### Assumptions

The constants' assumptions stand in the module that declares them and TLC
evaluates them in every run.  What the proofs need beyond types and disjoint
names, and why the code justifies it:

 - `OrderAssumption`: carts are not empty, quantities are positive, and stock is
   a natural number wherever it is set by hand.
 - `QueueAssumption`: finitely many calls of the handler; the channel's prefetch
   bounds them (`rabbitmq.service.ts`, `RABBITMQ_PREFETCH`).  Members, calls and
   processes are finite sets elsewhere for the same reason, where they are counted.
 - `PaymentsAssumption`: administrators activate memberships and record no
   donations; there is no such endpoint.
 - `ChatAssumption`: a client makes up a new UUID for each message.
   `ChatDeliveryAssumption` hands the assumptions of sending and outbox on.
 - `BillingAssumption`: the months of `Calendar` follow each other, each between the
   shortest and the longest in length, and the longest is at most twice the
   shortest (28 to 31 days).  `Months` bounds the calendar, not the code.
 - `ScheduledEmailsAssumption`: of any of the days a job looks ahead, one is the
   last (the code has at most four).
 - `Services`: `none` is nobody's name (`NoneIsNobody`).

### What is proved

`OrderPaymentProofs`.  `ClaimCorrect`: none of the four parts of `ClaimInv` is
inductive alone: that an unclaimed order holds nothing needs that the
request about to release it has given everything back, which needs that the
request's local list is exact, which needs that no other request works on
the same order, which needs that the flag is set as long as one does.
`StockIsConserved` counts units as a set, so that taking and giving back a
line moves a finite set of known size.  `NothingIsOversold` follows from
conservation's steps and the guarded decrement; `PaymentStaysFinal` is an action
property; `RequestsImplementReservation` is the refinement of
`StockReservation` under `ReservationState`; `ClaimsAreAttended` says that a
claim nobody works on is there only after a fault.

`JobQueueProofs`.  The two users of the queue, `NotificationOutbox` and
`BulkEmail`: the module extends both, which share the queue and the bounds and
nothing else, and each theorem is about one of them.  `DeliveryInv` says
of every entry who may work on it (the holder of the claim, and others only once
the claim was overtaken), that the attempts and failures it counts are those its
handler has read, and that before the settling step the member has been told.  A
job that the broker hands out again, the sweep and a second `notify` all end at
the claim, so they are one lemma (`BystanderKeepsInv`); only the five steps of a
delivery need an argument.  From it follow `DeliveredOnce`, the finality of
settled entries, and the refinement of `DeliveryLedger`.  `MailInv`: one sender to
a log, and as many copies as doubts, or one more once the sender knows; a sender
that has sent knows it.  `SentOnce` and `SentIsFinal` follow.

`AdminNotificationProofs`.  The claim is the same argument; the records are the
longer one: `Tidy`, `UsersAreRead`, `OnePushEach` and `Recorded` follow the two
queries, the items, the rounds of pushes and the delivery documents through
`sendNotification` until the save, and `Settled` through the receipts.  A
receipt check of an earlier attempt finds nothing to change because the
tickets were written anew; that is what `Recorded` says of `checks`.  `Repeated`
keeps what is known of the rounds that were sent again after their answer: whom
`past` names has been pushed, and as often as `doubts` allows.

`MemberPaymentsProofs`.  `PaymentsInv` has one part per payment (which documents it
has, and when there may be two), per request (what each stage may rely on) and
per member: `Coverage` relates the coverage a request has read to what is
recorded now, unless the member is in `history.disturbed`.  So
`RecordedOnce`, `CoveredAreSubscribed` and `SubscribedHavePaid` name exactly the
overlaps that break them.

`EventRegistrationProofs`.  `EventInv` keeps, per request, that the draft it
read is one that a checkout of the member made, and that what was checked at the
checkout still holds unless the event, the member or the draft changed since.
`RegisteredOnce`, `RoomIsChosen` and the action property `RefusedOnlyIfChanged`
follow.

`ChatDeliveryProofs`.  `SendInv` and `OutboxInv` are the invariants of the two
halves; each half is shown to keep its own, and the joint step, the transaction
that stores message and entry, to keep both and `Backed` (an entry only for a
message that is there).  `RetriesNotifyOnce`, the four properties of sending,
`OneRunPerEntry`, `OldestFirst` and the refinement of `DeliveryLedger` follow.
That a message is stored at most as often as it was sent is a count of the calls
under way (`Counted`).

`OfficeServicesProofs`, `ServicesProofs`.  Each service has its own invariant, which
`Services!Spec` keeps while `focus` is on it.  The services are in two modules because
every INSTANCE in scope is carried into each proof: what `ServiceBilling`,
`EventReminders`, `ScheduledEmails`, `Volunteering`, `Casework`, `Listings`, `Content`,
`Invoices` and `Backups` keep is shown in `OfficeServicesProofs`, of their own initial
states and steps; `ServicesProofs` shows the same of the others, and concludes for all
of them what `Spec` keeps:

 - `Sessions`: `RevokedStaysRevoked` needs that versions count revocations as long
   as no sign-in was late; `RefreshedOnce` that an exchanged token is older than
   the clock and not held any more (`HeldAreFresh`), which needs one entry per
   session.  The lists lose elements from the front (`$slice`) and the middle
   (`$pull`); the lemmas `SuffixIsThinned` and `OneLessIsThinned` say what is left.
 - `MemberAccounts`: a number that was inserted or is about to be was taken from
   the counter by nobody else (`NumbersAreTaken`).
 - `MemberStanding`: while nothing is disturbed one completion works on the request
   that is there, and a request not about to be deleted has promoted nobody.
 - `ServiceBilling`: what a renewal under way has read is on the course too
   (`RenewsOnCourse`), and the reminders rest on the stored note
   (`RemindsFromTheNote`).  `LandsInMonth` and `OneMonth` say where a day that overflows
   lands, from the lengths of the months alone.
 - `EventReminders`: a claimed reminder is marked, and what is worked on was not
   seen delivered (`RunsMark`); one that left is marked, unless its run was told
   otherwise (`LeftIsKnown`).
 - `ScheduledEmails`: whoever was due on a day that a job has begun is e-mailed,
   missed, or in the list of a run (`DueAreAccountedFor`); with one worker and
   nothing forced, a run owes nobody what has left.
 - `ChatSend`, `ChatOutbox`: the theorems of `ChatDelivery` are taken over by
   instantiating its proofs (`Chats`, `Queue`), the two halves being
   the same modules; what is to be shown is that blocks, bans and entries
   made by anybody are among the steps those lemmas cover.
 - `PushTokens`: no two entries have a token, and what was silenced comes back with
   the upsert that follows, or for a cause.
 - `LifetimeImport`: one update per member, giving what he does not have.
 - `Inbox`: an item only goes forward (it is made, changed, made again), and no copy
   and no device is ahead of it (`CopiesFollow`); the action property
   `ReadStaysRead` follows.
 - `Volunteering`: unless calls overlapped, one member at a time signs up and a place
   is kept for him, the position read for a mark is that of the volunteer meant,
   and an application that was looked for is not there (`SignUpsHavePlaces`,
   `MarksAreAimed`, `ApplicationsAreNew`).
 - `Discussion`: what a request found of a reaction is what is there unless requests
   crossed (`TapsFoundIt`), so `TapsAlternate`.
 - `Casework`: `UsesAreCounted` needs only that a use is counted in the step that
   counts the send; that `begun` stays within its type is a count of the
   sends that have not come so far (`BeginsAreSends`).
 - `Content`: a case for each of the four kinds of document.  Who is about to be told
   of a completion is among the completed (`NotifiedAreCompleted`), which stays so
   while other calls add theirs.  The downloads are those answered and those counted
   and not yet answered (`Pending`, a finite set that grows or shrinks by one); no
   request is about a copy of the resource that is yet to be made (`CopiesAreNew`).
 - `Invoices`: a payment that nothing overtook has read what stands, and one that
   payments overtook had read what was recorded by then (`ReadsAreTrue`); the form
   opened last has the next number (`NumbersAreNext`).  What is stated and what is
   recorded are compared by sums on both sides (`Balanced`), so that no proof
   subtracts.
 - `Backups`: what a process remembers comes newest first (`NewestComeFirst`), what a
   clean-up is about to delete has `Keep` made after it (`OldAreOld`), and numbers
   suffice for the exports under way (`ExportsFit`).  That a list without one
   element is still in order is `WithoutDescends`.
 - `Listings`: the ranks of the documents; see below.
 - `TypeOK` of all services (`EveryServiceIsTyped`) is a part of these invariants.

`Listings`, in `OfficeServicesProofs`.  Where the order tells documents apart, a document stands at its
rank: the number of documents that are there and come before it or are it
(`Rank`).  `Positions` shows that any answer of a query has the document of rank
i at place i, so a page shows exactly the ranks between its limits
(`PageShows`).  The inductive invariant then speaks of ranks alone: what was shown
is past, that is, has a rank within the pages that were read (`ShownOnce`), and what
was there all the time and is past was shown (`NoneMissed`).  A document that
leaves lowers the ranks of those behind it, which may then be missed; one that
joins raises them, and what was shown may be shown again; that is why
`MissedOnlyIfRemoved` and `RepeatedOnlyIfAdded` have the causes they have.
`TotalIsTrue` says when the count that stops the reader is that of the
collection, and `PartsAreCounted` what the counts of groups are, of which there may be
some only.  `ReadingIsCorrect` holds for every entry of `Catalogue`, since it
is shown for all that `Kinds` allows.

### What the proofs changed

 - `ServiceBilling`: a run that began on a day before the last reminder finds a
   negative number of hours since then, and reminds nobody; `IsDue` let it remind.
   The runs are too short to tell; the invariant that the note only moves
   forward could not be proved until the condition was that of the code.
 - `ScheduledEmails`: nothing said that no job has been started on a day to
   come.  It holds, but without it `RunsAreInTime` is not inductive.
 - `EventRegistration`: `Refuse` looked up the checkout of a free request, which has none.
 - `Sessions`: `Without` takes one entry out of the list, where MongoDB's `$pull` takes
   out all that match; `OneEntryPerSession`, proved, says that there is one.
 - `Volunteering`, `Backups`: what a filter leaves of a list is stated by the places
   that stay (`Kept`: the n-th element is the one at the n-th smallest place), since
   the provers know nothing of `SelectSeq`.
 - `EventReminders`, `Invoices`, `ServiceBilling`: the first statements were too strong
   for what the code may do (a channel that takes a reminder and reports failure,
   fields that are typed, months that are too short); what is proved now says what
   is left of them.
 - `Content`: nothing said that no request is about a resource yet to be made; without
   `CopiesAreNew` a request of an earlier copy could count a later one.
 - `Listings`: `OnCourse` did not say at which query a reader stands where the count
   comes after the page; without it `TotalIsTrue` is not inductive.  `Kinds` says
   what may be in the catalogue, so that no proof looks at its entries one by one.
 - `Backups`, `Listings`, `Content` and `ChatOutbox` no longer use community modules:
   every definition an instance brings along is carried into each proof about
   the services.  `NewestFirst` and `Orders` are stated as sets of sequences instead.

### Induction

The theorems on induction take an operator as a parameter, which none of the
installed provers can instantiate.  Where a proof needs one it looks for a least
counterexample instead: `LeastOf`, from the well-foundedness of `<` on the natural
numbers, which the library proves for sets, says that a set of numbers that is
not empty has a least element.  So the lemmas on lists that lost elements, on
places and on ranks could be proved.  No model defines anything by recursion.

### What is only model-checked

 - Liveness (`ClaimIsResolved`, `SettledUnlessAbandoned`, `MessagesAreNotified`,
   `LogsAreSettled`, `ScheduledAreSent`, `ChargedIsRecorded`, `PaidAreRegistered`):
   out of the prover's reach, with fairness and ENABLED.
 - The four properties that are violated.

## 5. Plan

Everything of the inventory's table is modelled and its safety is proved.  What
could be added:

 1. A chunk of pushes of `AdminNotification` whose parts fare differently, in a
    checked instance of its own (the proofs cover any number of members).
 2. The parts named in section 6 that keep state: the payment plans of events, and
    single e-mails on the queue once they have an outbox.

## 6. Not modelled

Searches, images, receipts, templates, wording of messages, rate limits (kept
per process in memory), the realtime exchange (best effort), socket
authentication, monitoring and the maintenance scripts.  The fees are one
formula on floating-point numbers.  Of events: `syncEventPaymentStatus`, the
payment plans and the statistics of one event.  Of notifications: cancelling,
deleting and the choice of the target, and the queries of tokens by target.
Amounts and currencies are data that no decision depends on, except the price of
a room and the sum of an invoice.  Single
e-mails that the web process hands to the worker have no outbox: a job that is
lost or dead-lettered is never sent although the caller was told that it would;
no state outlives the job that a property could relate.  The retryable writes
of the MongoDB driver are assumed for the updates that settle an entry.
