------------------------------- MODULE Services -------------------------------
(***************************************************************************)
(* The services that share no state with one another, put together: a      *)
(* behaviour is one of one service, named by focus, on the instance that   *)
(* its INSTANCE below gives.  The variables are slots, which every service *)
(* uses for its own; A and B are the members, calls, documents, ... that   *)
(* are interchangeable in a service.                                       *)
(***************************************************************************)
EXTENDS OfficeServices

CONSTANTS
  Services,      \* the services looked at
  \* Sessions
  MaxSessions, MaxRevocations, MaxSeconds, MaxExchanges,
  \* MemberAccounts and MemberStanding
  MaxCodes, MaxRemovals, MaxRequests, MaxCompletions,
  \* ChatSend and ChatOutbox
  Members, Letters, Sender, Receiver, Key, MaxSends, MaxStandings,
  RunLength, MaxAttempts, SlowDelivery, MaxBreaks,
  \* PushTokens
  Devices, Calls,
  \* LifetimeImport
  Rows, Sheets, Names, Phones,
  \* Inbox
  Keys, MaxMade, MaxTouches

VARIABLE focus

vars == <<focus, v1, v2, v3, v4, v5, v6, v7, v8, v9, v10, v11, v12, v13, v14>>

-----------------------------------------------------------------------------
ASSUME NoneIsNobody == none \notin A

Auth == INSTANCE Sessions WITH
    second <- v1, account <- v2, signIn <- v3, refresh <- v4, change <- v5,
    issued <- v6, exchanged <- v7, revocations <- v8, late <- v9, SignIns <- A,
    Refreshes <- B
ASSUME SessionsAssumed == Auth!SessionsAssumption

Enrol == INSTANCE MemberAccounts WITH
    account <- v1, counter <- v2, numbered <- v3, creation <- v4, verifying <- v5,
    reminding <- v6, reminded <- v7, mailed <- v8, codes <- v9, removals <- v10,
    Emails <- A, Creations <- B
ASSUME MemberAccountsAssumed == Enrol!AccountsAssumption

Roles == INSTANCE MemberStanding WITH
    member <- v1, transition <- v2, completion <- v3, ban <- v4,
    verification <- v5, settings <- v6, saving <- v7, requests <- v8,
    completions <- v9, promotions <- v10, disturbed <- v11, faults <- v12,
    Admins <- A
ASSUME MemberStandingAssumed == Roles!StandingAssumption

Send == INSTANCE ChatSend WITH
    stored <- v1, lastMessage <- v2, blocks <- v3, unavailable <- v4, stage <- v5,
    letter <- v6, emitted <- v7, acked <- v8, late <- v9, sends <- v10,
    changes <- v11, faults <- v12, Admin <- admin, NoLetter <- none, NoKey <- none,
    Calls <- A, MaxChanges <- MaxStandings
ASSUME ChatSendAssumed == Send!ChatAssumption

\* The outbox holds one message of each letter of A, all of them to ann.
Addressee   == [l \in A |-> ann]
ChatEntries == {l \in A : Addressee[l] # admin} \X (1 .. 1)

Outbox == INSTANCE ChatOutbox WITH
    created <- v1, status <- v2, attempts <- v3, due <- v4, stale <- v5,
    inbox <- v6, step <- v7, held <- v8, tries <- v9, turns <- v10, claimed <- v11,
    optedOut <- v12, overtaken <- v13, breaks <- v14, Entries <- ChatEntries,
    NoEntry <- none, Processors <- B
ASSUME ChatOutboxAssumed == Outbox!ChatOutboxAssumption

Push == INSTANCE PushTokens WITH
    entry <- v1, installed <- v2, stage <- v3, owner <- v4, tokens <- v5,
    live <- v6, muted <- v7, refused <- v8, faults <- v9, Users <- A,
    Phones <- Devices, Tokens <- B, None <- none
ASSUME PushTokensAssumed == Push!PushTokenAssumption

Import == INSTANCE LifetimeImport WITH
    sheet <- v1, account <- v2, offered <- v3, writing <- v4, imported <- v5,
    overlapped <- v6, changes <- v7, None <- none, Admins <- A
ASSUME LifetimeImportAssumed == Import!LifetimeImportAssumption

Forum == INSTANCE Discussion WITH
    reaction <- v1, entry <- v2, attending <- v3, accounts <- v4, feedback <- v5,
    call <- v6, taps <- v7, crossed <- v8, attended <- v9, calls <- v10,
    Members <- A, Calls <- B
ASSUME DiscussionAssumed == Forum!DiscussionAssumption

Inbox == INSTANCE Inbox WITH
    item <- v1, held <- v2, finding <- v3, shown <- v4, made <- v5, touches <- v6,
    Senders <- A, Screens <- B
ASSUME InboxAssumed == Inbox!InboxAssumption

-----------------------------------------------------------------------------
(* The slots a service does not use stay 0. *)

Init ==
    /\ focus \in Services
    /\ focus = "sessions" =>
         Auth!Init /\ v10 = 0 /\ v11 = 0 /\ v12 = 0 /\ v13 = 0 /\ v14 = 0
    /\ focus = "accounts" =>
         Enrol!Init /\ v11 = 0 /\ v12 = 0 /\ v13 = 0 /\ v14 = 0
    /\ focus = "standing" =>
         Roles!Init /\ v13 = 0 /\ v14 = 0
    /\ focus = "billing" =>
         Bills!Init /\ v11 = 0 /\ v12 = 0 /\ v13 = 0 /\ v14 = 0
    /\ focus = "reminders" =>
         Remind!Init /\ v14 = 0
    /\ focus = "volunteering" =>
         Jobs!Init /\ v12 = 0 /\ v13 = 0 /\ v14 = 0
    /\ focus = "chat" =>
         Send!Init /\ v13 = 0 /\ v14 = 0
    /\ focus = "outbox" =>
         Outbox!Init
    /\ focus = "push" =>
         Push!Init /\ v10 = 0 /\ v11 = 0 /\ v12 = 0 /\ v13 = 0 /\ v14 = 0
    /\ focus = "emails" =>
         Daily!Init /\ v12 = 0 /\ v13 = 0 /\ v14 = 0
    /\ focus = "lifetime" =>
         Import!Init /\ v8 = 0 /\ v9 = 0 /\ v10 = 0 /\ v11 = 0 /\ v12 = 0 /\ v13 = 0 /\ v14 = 0
    /\ focus = "discussion" =>
         Forum!Init /\ v11 = 0 /\ v12 = 0 /\ v13 = 0 /\ v14 = 0
    /\ focus = "casework" =>
         Cases!Init /\ v9 = 0 /\ v10 = 0 /\ v11 = 0 /\ v12 = 0 /\ v13 = 0 /\ v14 = 0
    /\ focus = "listings" =>
         Lists!Init /\ v10 = 0 /\ v11 = 0 /\ v12 = 0 /\ v13 = 0 /\ v14 = 0
    /\ focus = "content" =>
         Content!Init /\ v10 = 0 /\ v11 = 0 /\ v12 = 0 /\ v13 = 0 /\ v14 = 0
    /\ focus = "invoices" =>
         Invoices!Init /\ v10 = 0 /\ v11 = 0 /\ v12 = 0 /\ v13 = 0 /\ v14 = 0
    /\ focus = "backups" =>
         Backups!Init /\ v10 = 0 /\ v11 = 0 /\ v12 = 0 /\ v13 = 0 /\ v14 = 0
    /\ focus = "inbox" =>
         Inbox!Init /\ v7 = 0 /\ v8 = 0 /\ v9 = 0 /\ v10 = 0 /\ v11 = 0 /\ v12 = 0 /\ v13 = 0 /\ v14 = 0

Next ==
    \/ focus = "sessions" /\ Auth!Next /\ UNCHANGED <<focus, v10, v11, v12, v13, v14>>
    \/ focus = "accounts" /\ Enrol!Next /\ UNCHANGED <<focus, v11, v12, v13, v14>>
    \/ focus = "standing" /\ Roles!Next /\ UNCHANGED <<focus, v13, v14>>
    \/ focus = "billing" /\ Bills!Next /\ UNCHANGED <<focus, v11, v12, v13, v14>>
    \/ focus = "reminders" /\ Remind!Next /\ UNCHANGED <<focus, v14>>
    \/ focus = "volunteering" /\ Jobs!Next /\ UNCHANGED <<focus, v12, v13, v14>>
    \/ focus = "chat" /\ Send!Next /\ UNCHANGED <<focus, v13, v14>>
    \/ focus = "outbox" /\ Outbox!Next /\ UNCHANGED focus
    \/ focus = "push" /\ Push!Next /\ UNCHANGED <<focus, v10, v11, v12, v13, v14>>
    \/ focus = "emails" /\ Daily!Next /\ UNCHANGED <<focus, v12, v13, v14>>
    \/ focus = "lifetime" /\ Import!Next /\ UNCHANGED <<focus, v8, v9, v10, v11, v12, v13, v14>>
    \/ focus = "discussion" /\ Forum!Next /\ UNCHANGED <<focus, v11, v12, v13, v14>>
    \/ focus = "casework" /\ Cases!Next /\ UNCHANGED <<focus, v9, v10, v11, v12, v13, v14>>
    \/ focus = "listings" /\ Lists!Next /\ UNCHANGED <<focus, v10, v11, v12, v13, v14>>
    \/ focus = "content" /\ Content!Next /\ UNCHANGED <<focus, v10, v11, v12, v13, v14>>
    \/ focus = "invoices" /\ Invoices!Next /\ UNCHANGED <<focus, v10, v11, v12, v13, v14>>
    \/ focus = "backups" /\ Backups!Next /\ UNCHANGED <<focus, v10, v11, v12, v13, v14>>
    \/ focus = "inbox" /\ Inbox!Next /\ UNCHANGED <<focus, v7, v8, v9, v10, v11, v12, v13, v14>>

Spec == Init /\ [][Next]_vars
-----------------------------------------------------------------------------
(* The variables of each service have their types. *)
TypeOK ==
    /\ focus = "sessions" => Auth!TypeOK
    /\ focus = "accounts" => Enrol!TypeOK
    /\ focus = "standing" => Roles!TypeOK
    /\ focus = "billing" => Bills!TypeOK
    /\ focus = "reminders" => Remind!TypeOK
    /\ focus = "volunteering" => Jobs!TypeOK
    /\ focus = "chat" => Send!TypeOK
    /\ focus = "outbox" => Outbox!TypeOK
    /\ focus = "push" => Push!TypeOK
    /\ focus = "emails" => Daily!TypeOK
    /\ focus = "lifetime" => Import!TypeOK
    /\ focus = "discussion" => Forum!TypeOK
    /\ focus = "casework" => Cases!TypeOK
    /\ focus = "listings" => Lists!TypeOK
    /\ focus = "content" => Content!TypeOK
    /\ focus = "invoices" => Invoices!TypeOK
    /\ focus = "backups" => Backups!TypeOK
    /\ focus = "inbox" => Inbox!TypeOK

(* Once the sessions of an account are revoked, no token that goes back to *)
(* a sign-in before that is accepted, unless a sign-in was under way then; *)
(* and a refresh token is exchanged at most once, however many requests    *)
(* carry it at a time.                                                     *)
RevokedStaysRevoked ==
    focus = "sessions" => Auth!RevokedStaysRevoked /\ Auth!RefreshedOnce

(* No membership number is ever given to two accounts, whatever creations  *)
(* overlap or fail and whatever accounts are removed between them.         *)
MembershipIdsUnique == focus = "accounts" => Enrol!MembershipIdsUnique

(* A request for transition promotes its member once, unless completions   *)
(* of it overlapped or one broke off before it deleted the request.        *)
PromotedOnce == focus = "standing" => Roles!PromotedOnce

(* The renewal date of a service is where the cycles of the calendar bring *)
(* it from the date last set by hand, one for every renewal since (fewer   *)
(* where renewals overlap), and no day has two reminders unless runs       *)
(* overlapped or broke off.                                                *)
RenewalsAdvance ==
    focus = "billing" => Bills!RenewalsAdvance /\ Bills!RemindedOnceADay

(* One run of the job at a time delivers a reminder of an event, which     *)
(* leaves again only where a channel had taken it and the run was told     *)
(* otherwise, and what is marked as sent was delivered unless it was       *)
(* unwanted or its run was cut off.  With one process that runs the daily  *)
(* jobs nobody is e-mailed the same thing twice on a day, and who was due  *)
(* has been e-mailed unless something failed.                              *)
RemindedOnce ==
    /\ focus = "reminders" => Remind!RemindedOnce /\ Remind!SentIsDelivered
    /\ focus = "emails" => Daily!MailedOnce /\ Daily!DueAreMailed

(* What members sign up for, apply for and react to: a shift has as many   *)
(* volunteers as places, marks fall on whom they name, nobody applies for  *)
(* a job twice, a reaction is there after an odd number of taps, and the   *)
(* list of attendees lacks the removed accounts alone, unless calls of the *)
(* same people overlapped.                                                 *)
TakingPartIsTrue ==
    /\ focus = "volunteering" =>
         /\ Jobs!ShiftsAreNotOverbooked
         /\ Jobs!StatusesAreTheirOwn
         /\ Jobs!AppliedOnce
    /\ focus = "discussion" => Forum!TapsAlternate

(* A letter is stored once however often and by however many calls it is   *)
(* sent, a client told of success has it stored, and both sides of a       *)
(* conversation see the same last message; a blocked or banned member is   *)
(* written to only by a call that began before.  Entries of the outbox are *)
(* taken up in order, each by one run unless its lock was old.             *)
ChatsAgree ==
    /\ focus = "chat" =>
         /\ Send!OneMessagePerKey
         /\ Send!AckedMeansStored
         /\ Send!ConversationsAgree
         /\ Send!EmittedOnce
         /\ Send!UnwelcomeOnlyIfLate
    /\ focus = "outbox" => Outbox!OneRunPerEntry /\ Outbox!OldestFirst

(* The outbox of the chat implements DeliveryLedger, with two processes    *)
(* and deliveries slower than the lock: it drops no message early, settles *)
(* none its member has not been told of, and reopens none.                 *)
OutboxImplementsLedger ==
    /\ focus = "outbox" => Outbox!Ledger!Init
    /\ [][focus = "outbox" => Outbox!LedgerStep]_vars

(* Pushes for two members never go to one phone, and a member who has      *)
(* registered keeps the pushes unless there is a cause.                    *)
PushesArrive ==
    focus = "push" => Push!OneListener /\ Push!SilentOnlyWithCause

(* An import gives a type or a phone only to members who have none, unless *)
(* it overlaps with something else that gives it.                          *)
ImportsAreNews == focus = "lifetime" => Import!ImportsAreNews

(* Reading a listing page by page to the end shows everything, and nothing *)
(* twice, and the groups of the statistics add up (or are within the total *)
(* where there are others), unless the collection changed meanwhile or the *)
(* order does not tell documents apart.                                    *)
PagesAreWhole ==
    focus = "listings" =>
        /\ Lists!MissedOnlyIfRemoved
        /\ Lists!RepeatedOnlyIfAdded
        /\ Lists!PartsMakeTheTotal

(* What is counted or summed by separate requests comes out right: uses of *)
(* a template, downloads and completions (and whose an anonymous testimony *)
(* is), the numbers of invoices, and what an invoice says was paid, which  *)
(* is what was last typed there and what was recorded since, unless        *)
(* requests overlapped.                                                    *)
CountsAreTrue ==
    /\ focus = "casework" => Cases!UsesAreCounted
    /\ focus = "content"  => Content!ContentIsTrue
    /\ focus = "invoices" => Invoices!InvoicesAreTrue

(* The clean-up leaves the newest backups, whatever a process remembers,   *)
(* unless one was deleted by hand or was remembered late or twice.         *)
NewestAreKept == focus = "backups" => Backups!NewestAreKept

(* What a device showed as read, deleted or restored does not go back to   *)
(* an earlier state, however senders retry and other devices ask, unless   *)
(* the item changed while a copy of it was on its way.                     *)
ReadStaysRead == [][focus = "inbox" => Inbox!NothingGoesBack]_vars
=============================================================================
