------------------------------- MODULE Listings -------------------------------
(***************************************************************************)
(* The listings: a client asks for one page after the other until it has   *)
(* as many as the count says, and every page and every count is a query of *)
(* its own over a collection that changes meanwhile.  The statistics count *)
(* the groups of a collection one query after the other.                   *)
(*                                                                         *)
(* Docs are the documents that meet the criteria of a listing at some      *)
(* time.  What a listing puts in order, when it counts and whether its     *)
(* criteria look at something that changes is its entry in the catalogue.  *)
(***************************************************************************)
EXTENDS Naturals, Sequences, FiniteSets

CONSTANTS Docs,
          Limit,       \* documents of a page
          MaxChanges   \* changes of the collection

ListingsAssumption ==
    /\ IsFiniteSet(Docs) /\ Docs # {}
    /\ Limit \in Nat \ {0} /\ MaxChanges \in Nat

VARIABLES listing,  \* the listing or the statistics that are asked for
          key,      \* what each document is put in order by; 0: not there
          group,    \* what each document is counted as
          reader,   \* how far the client is
          added, removed, moved,  \* what changed since the client began
          steady,   \* documents there since the client began, unchanged
          changes

vars == <<listing, key, group, reader, added, removed, moved, steady, changes>>
-----------------------------------------------------------------------------
(* The catalogue.  "newest": by createdAt, which nothing shares; "touched": *)
(* by updatedAt; "due": by a date that documents share; "none": no order.   *)
(* The count comes after the page, before it, or "with" it, in either order *)
(* (Promise.all); "alone" is a query for everything.  fixed: a document     *)
(* that is made meets the criteria, and goes on to; the others join the     *)
(* listing late, at their old place.  getPendingRegistrations is here for   *)
(* one type at a time; without a type it cuts its page out of parts of      *)
(* three lists, which promises nothing.                                     *)
Listing(sort, counts, fixed) == [sort |-> sort, counts |-> counts, fixed |-> fixed]

MemberAnalytics             == Listing("newest", "before", FALSE)
EmailLogs                   == Listing("newest", "with", FALSE)
PendingOfTypeEvents         == Listing("none", "before", TRUE)
PendingOfTypePayments       == Listing("none", "with", FALSE)
PendingEventRegistrations   == Listing("none", "with", TRUE)
PendingSubscriptionPayments == Listing("newest", "with", FALSE)
PendingDonationPayments     == Listing("newest", "with", FALSE)
FindAllContacts             == Listing("touched", "before", TRUE)
GetChatHistory              == Listing("newest", "before", TRUE)
GetComments                 == Listing("newest", "with", TRUE)
GetEventFeedback            == Listing("newest", "with", TRUE)
DonationsFindAll            == Listing("newest", "after", FALSE)
FindUserDonations           == Listing("newest", "after", TRUE)
EventsFindAll               == Listing("newest", "after", FALSE)
FindConferencesForUser      == Listing("newest", "after", FALSE)
FindConferences             == Listing("newest", "after", FALSE)
FindPublicConferences       == Listing("due", "after", FALSE)
FindRegistered              == Listing("newest", "after", FALSE)
FaithEntriesFindAll         == Listing("newest", "after", TRUE)
GetAllCommunications        == Listing("newest", "with", TRUE)
GetAllTickets               == Listing("newest", "with", FALSE)
GetAllTasks                 == Listing("due", "with", FALSE)
GetPendingVerifications     == Listing("newest", "with", FALSE)
GetModerationLogs           == Listing("newest", "with", TRUE)
GetAllAnnouncements         == Listing("newest", "with", FALSE)
GetHistory                  == Listing("newest", "after", TRUE)
FindAllNotifications        == Listing("newest", "after", TRUE)
OrdersFindAll               == Listing("newest", "after", FALSE)
GetOrderHistory             == Listing("newest", "after", TRUE)
ListForUser                 == Listing("newest", "with", TRUE)
LookupByEmail               == Listing("newest", "with", FALSE)
LookupForUser               == Listing("newest", "with", FALSE)
ProductsFindAll             == Listing("newest", "after", FALSE)
ResourcesFindAll            == Listing("newest", "after", FALSE)
SubscriptionsFindAll        == Listing("newest", "after", FALSE)
FindUserSubs                == Listing("newest", "after", TRUE)
UsersFindAll                == Listing("newest", "after", FALSE)
VacanciesFindAll            == Listing("newest", "after", FALSE)
FindAllJobs                 == Listing("newest", "after", FALSE)
GetMyApplications           == Listing("newest", "after", FALSE)
GetShiftsForJob             == Listing("due", "after", TRUE)
GetMyShifts                 == Listing("due", "after", FALSE)

Export(sort) == Listing(sort, "alone", FALSE)

ExportUsers             == Export("newest")
ExportSubscriptions     == Export("newest")
ExportDonations         == Export("newest")
ExportMembersToCSV      == Export("newest")
GetAllFollowUps         == Export("due")
GetMemberFollowUps      == Export("due")
GetTimeline             == Export("due")
DeliverablesFindAll     == Export("due")
DevotionalsFindAll      == Export("due")
DevotionalsForAdmin     == Export("due")
TrainingsFindAll        == Export("newest")
ChaptersFindAll         == Export("due")

\* The groups are all there are, or some of them: the users and the trainings
\* of the other roles are in the total alone.
Statistics(counts) == Listing("count", counts, FALSE)
SomeGroups(counts) == Listing("some", counts, FALSE)

UserStats            == SomeGroups("after")
TrainingStats        == SomeGroups("after")
OrderStats           == Statistics("after")
ProductStats         == Statistics("after")
ResourceStats        == Statistics("after")
VacancyStats         == Statistics("after")
SubscriptionStats    == Statistics("after")
MemberAnalyticsStats == Statistics("after")
TaskAnalytics        == Statistics("with")
QueueStatus          == Statistics("with")

Catalogue == {
    MemberAnalytics, EmailLogs, PendingOfTypeEvents, PendingOfTypePayments,
    PendingEventRegistrations, PendingSubscriptionPayments,
    PendingDonationPayments, FindAllContacts, GetChatHistory, GetComments,
    GetEventFeedback, DonationsFindAll, FindUserDonations, EventsFindAll,
    FindConferencesForUser, FindConferences, FindPublicConferences,
    FindRegistered, FaithEntriesFindAll, GetAllCommunications,
    GetAllTickets, GetAllTasks, GetPendingVerifications,
    GetModerationLogs, GetAllAnnouncements, GetHistory,
    FindAllNotifications, OrdersFindAll, GetOrderHistory, ListForUser,
    LookupByEmail, LookupForUser, ProductsFindAll, ResourcesFindAll,
    SubscriptionsFindAll, FindUserSubs, UsersFindAll, VacanciesFindAll,
    FindAllJobs, GetMyApplications, GetShiftsForJob, GetMyShifts,
    ExportUsers, ExportSubscriptions, ExportDonations, ExportMembersToCSV,
    GetAllFollowUps, GetMemberFollowUps, GetTimeline, DeliverablesFindAll,
    DevotionalsFindAll, DevotionalsForAdmin, TrainingsFindAll,
    ChaptersFindAll, UserStats, OrderStats, ProductStats, ResourceStats,
    VacancyStats, SubscriptionStats, TrainingStats, MemberAnalyticsStats,
    TaskAnalytics, QueueStatus}
-----------------------------------------------------------------------------
Groups == {1, 2}
Stamps == 1..2 * Cardinality(Docs)
There == {d \in Docs : key[d] # 0}
Ordered == listing.sort \in {"newest", "touched"}
Counting == listing.sort \in {"count", "some"}

\* What an entry of the catalogue may be.
Kinds == {l \in [sort : {"newest", "touched", "due", "none", "count", "some"},
                 counts : {"after", "before", "with", "alone"}, fixed : BOOLEAN] :
            l.sort \in {"count", "some"} => l.counts \in {"after", "with"}}

\* What a document may be counted as; 0: in no group.
MayBe == IF listing.sort = "count" THEN Groups
         ELSE IF listing.sort = "some" THEN Groups \cup {0} ELSE {1}

Readers == [stage : {"page", "count", "done"}, page : Nat \ {0}, seen : Seq(Docs),
            total : Nat, half : BOOLEAN, left : SUBSET (Groups \cup {0}), parts : Nat]

TypeOK ==
    /\ listing \in Kinds
    /\ key \in [Docs -> Stamps \cup {0}]
    /\ group \in [Docs -> MayBe]
    /\ reader \in Readers
    /\ {added, removed, moved} \subseteq BOOLEAN
    /\ steady \subseteq Docs
    /\ changes \in 0..MaxChanges

\* Stamps are given in turn, so two documents never share one.
Stamped(k) == \A d, e \in Docs : k[d] = k[e] => d = e

Begin ==
    /\ \E there \in SUBSET Docs, dates \in [Docs -> 1..Cardinality(Docs)] :
         /\ key = [d \in Docs |-> IF d \in there THEN dates[d] ELSE 0]
         /\ Ordered => Stamped(dates)
    /\ group \in [Docs -> MayBe]
    /\ reader \in [stage : IF listing.counts = "before" THEN {"count"}
                           ELSE IF listing.counts \in {"after", "alone"} THEN {"page"} ELSE {"page", "count"},
                   page : {1}, seen : {<<>>}, total : {0}, half : {FALSE},
                   left : {Groups \cup {0}}, parts : {0}]
    /\ steady = There
    /\ added = FALSE /\ removed = FALSE /\ moved = FALSE
    /\ changes = 0

Init == listing \in Catalogue /\ Begin
-----------------------------------------------------------------------------
(* Reading. *)

Before(d, e) ==
    CASE Ordered -> key[d] > key[e]
      [] listing.sort = "due" -> key[d] < key[e]
      [] OTHER -> FALSE

\* What a query may answer: any order of the documents that goes by the key.
Orders(S) ==
    {s \in [1..Cardinality(S) -> S] :
        \A i, j \in DOMAIN s : i < j => s[i] # s[j] /\ ~Before(s[j], s[i])}

Listed(s) == {s[i] : i \in DOMAIN s}

\* Mutant of Skip: pages counted from zero.
SkipFromZero(page) == Limit * page

Skip(page) == Limit * (page - 1)

\* Up to Limit documents after the first skip.
Cut(s, skip) == SubSeq(s, skip + 1, IF skip + Limit > Len(s) THEN Len(s) ELSE skip + Limit)

Page(s, page) == IF listing.counts = "alone" THEN s ELSE Cut(s, Skip(page))

\* Both queries of a page are answered: the client goes on, or has it all.
TurnPage(r) ==
    IF listing.counts = "alone" THEN [r EXCEPT !.stage = "done"]
    ELSE IF ~r.half THEN [r EXCEPT !.half = TRUE, !.stage = IF r.stage = "page" THEN "count" ELSE "page"]
    ELSE IF r.page * Limit < r.total
    THEN [r EXCEPT !.half = FALSE, !.page = @ + 1,
                   !.stage = IF listing.counts = "before" THEN "count" ELSE "page"]
    ELSE [r EXCEPT !.stage = "done"]

ReadPage ==
    /\ ~Counting /\ reader.stage = "page"
    /\ \E s \in Orders(There) :
         reader' = TurnPage([reader EXCEPT !.seen = @ \o Page(s, reader.page)])
    /\ UNCHANGED <<listing, key, group, added, removed, moved, steady, changes>>

CountItems ==
    /\ ~Counting /\ reader.stage = "count"
    /\ reader' = TurnPage([reader EXCEPT !.total = Cardinality(There)])
    /\ UNCHANGED <<listing, key, group, added, removed, moved, steady, changes>>

Smallest(S) == CHOOSE x \in S : \A y \in S : x <= y

\* Count 0 is of all documents, the others are of the groups.
CountGroup(g) ==
    /\ Counting /\ reader.stage # "done"
    /\ g \in reader.left
    /\ listing.counts = "after" => g = Smallest(reader.left)
    /\ LET n == Cardinality({d \in There : g \in {0, group[d]}}) IN
       reader' = [reader EXCEPT !.left = @ \ {g},
                                !.total = IF g = 0 THEN n ELSE @,
                                !.parts = IF g = 0 THEN @ ELSE @ + n,
                                !.stage = IF reader.left = {g} THEN "done" ELSE @]
    /\ UNCHANGED <<listing, key, group, added, removed, moved, steady, changes>>
-----------------------------------------------------------------------------
(* The collection changes while the client reads. *)

Reading ==
    /\ reader.stage # "done"
    /\ changes < MaxChanges
    /\ changes' = changes + 1

Free(k) == Ordered => \A d \in Docs : key[d] # k
Newest(k) == \A d \in Docs : key[d] < k

Join(d, k) ==
    /\ Reading /\ key[d] = 0
    /\ Free(k) /\ (Ordered /\ listing.fixed => Newest(k))
    /\ key' = [key EXCEPT ![d] = k]
    /\ added' = TRUE
    /\ UNCHANGED <<listing, group, reader, removed, moved, steady>>

Leave(d) ==
    /\ Reading /\ key[d] # 0
    /\ key' = [key EXCEPT ![d] = 0]
    /\ removed' = TRUE
    /\ steady' = steady \ {d}
    /\ UNCHANGED <<listing, group, reader, added, moved>>

\* A contact gets a message, a task another date.
Move(d, k) ==
    /\ Reading /\ key[d] # 0 /\ key[d] # k
    /\ listing.sort \in {"touched", "due"}
    /\ Free(k) /\ (Ordered => Newest(k))
    /\ key' = [key EXCEPT ![d] = k]
    /\ moved' = TRUE
    /\ steady' = steady \ {d}
    /\ UNCHANGED <<listing, group, reader, added, removed>>

\* A status, a role or a category is changed.
Regroup(d, g) ==
    /\ Reading /\ Counting /\ key[d] # 0
    /\ g \in MayBe \ {group[d]}
    /\ group' = [group EXCEPT ![d] = g]
    /\ moved' = TRUE
    /\ UNCHANGED <<listing, key, reader, added, removed, steady>>
-----------------------------------------------------------------------------
Next ==
    \/ ReadPage \/ CountItems
    \/ \E g \in Groups \cup {0} : CountGroup(g)
    \/ \E d \in Docs :
         \/ Leave(d)
         \/ \E g \in Groups \cup {0} : Regroup(d, g)
         \/ \E k \in Stamps : Join(d, k) \/ Move(d, k)

Spec == Init /\ [][Next]_vars
-----------------------------------------------------------------------------
Done == reader.stage = "done" /\ ~Counting

\* The order leaves documents that share a date to the query, every time
\* anew; one of them may have left since.
Tied ==
    /\ ~Ordered
    /\ removed \/ \E d, e \in There : d # e /\ ~Before(d, e) /\ ~Before(e, d)

(* Whoever reads a listing to the end has seen everything that was there   *)
(* all the time, unless something left it or moved, or the order does not  *)
(* tell documents apart, or a document joined where the count comes before *)
(* the page: the client stops a page too early.                            *)
MissedOnlyIfRemoved ==
    /\ Done /\ ~removed /\ ~moved /\ ~Tied
    /\ added => listing.counts \in {"after", "alone"}
    => steady \subseteq Listed(reader.seen)

(* A document is shown twice only when others joined or moved, or when the *)
(* order does not tell documents apart.                                    *)
RepeatedOnlyIfAdded ==
    Done /\ ~added /\ ~moved /\ ~Tied => Cardinality(Listed(reader.seen)) = Len(reader.seen)

(* The counts of the groups make the count of all, or are no more than it  *)
(* where there are others, unless the collection changed between the       *)
(* queries.                                                                *)
PartsMakeTheTotal ==
    Counting /\ reader.stage = "done" /\ ~added /\ ~removed /\ ~moved
        => IF listing.sort = "count" THEN reader.parts = reader.total
                                     ELSE reader.parts <= reader.total
-----------------------------------------------------------------------------
(* What the pages that were read say of the pages to come.                 *)

Paged == ~Counting /\ listing.counts # "alone"

PagesRead ==
    IF reader.stage = "page" \/ (reader.stage = "count" /\ ~reader.half)
    THEN reader.page - 1 ELSE reader.page

\* The place of d among the documents S.
Rank(S, d) == Cardinality({e \in S : e = d \/ Before(e, d)})

\* No page to come shows d.
Past(d) == Rank(There, d) <= Limit * PagesRead

OfGroup(g) == {d \in There : group[d] = g}

StampsDiffer   == Ordered => \A d, e \in There : key[d] = key[e] => d = e
SteadyAreThere == steady \subseteq There

\* The count comes when the listing says, and an export reads once.
OnCourse ==
    ~Counting =>
        /\ listing.counts = "after" /\ reader.stage # "done"
             => (reader.half <=> reader.stage = "count")
        /\ listing.counts = "alone" =>
             /\ reader.stage # "count"
             /\ IF reader.stage = "done" THEN There \subseteq Listed(reader.seen)
                ELSE reader.seen = <<>>

TotalIsTrue ==
    Paged =>
        /\ reader.stage = "page" /\ reader.half /\ ~added /\ ~removed
             => reader.total = Cardinality(There)
        /\ reader.stage = "done" =>
             /\ reader.total <= reader.page * Limit
             /\ listing.counts = "after" \/ (~added /\ ~removed)
                  => reader.total = Cardinality(There)

ShownOnce ==
    ~Counting /\ ~added /\ ~moved /\ ~Tied =>
        /\ \A i, j \in DOMAIN reader.seen : reader.seen[i] = reader.seen[j] => i = j
        /\ Paged => \A d \in Listed(reader.seen) \cap There : Past(d)

NoneMissed ==
    Paged /\ ~removed /\ ~moved /\ ~Tied
    /\ (added => listing.counts = "after")
        => \A d \in steady : Past(d) => d \in Listed(reader.seen)

\* The queries answered so far, while nothing changes.
PartsAreCounted ==
    Counting =>
        /\ reader.stage = "done" => reader.left = {}
        /\ ~added /\ ~removed /\ ~moved =>
             /\ reader.total = IF 0 \in reader.left THEN 0 ELSE Cardinality(There)
             /\ reader.parts = (IF 1 \in reader.left THEN 0 ELSE Cardinality(OfGroup(1)))
                                 + (IF 2 \in reader.left THEN 0 ELSE Cardinality(OfGroup(2)))

ListingsInv ==
    /\ TypeOK /\ StampsDiffer /\ SteadyAreThere
    /\ OnCourse /\ TotalIsTrue /\ ShownOnce /\ NoneMissed /\ PartsAreCounted
===============================================================================
