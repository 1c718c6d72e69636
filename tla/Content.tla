-------------------------------- MODULE Content --------------------------------
(***************************************************************************)
(* What members and administrators publish: testimonies and prayer         *)
(* requests, which may be anonymous (faithentry), resources fetched from   *)
(* WordPress or YouTube (resources), the lists of who completed a training *)
(* (training) and the chapters (chapters).  Every handler reads a document *)
(* and writes it in a query of its own, and the document may change or go  *)
(* in between.  A behaviour is about one document, of any of these kinds.  *)
(***************************************************************************)
EXTENDS Naturals, FiniteSets

CONSTANTS Member,      \* the author of the testimony
          Admin,       \* who may edit it too
          Members,     \* members who complete the training
          Calls,       \* requests under way
          None,
          MaxCalls,    \* requests in all
          MaxFaults    \* requests that break off

ContentAssumption ==
    /\ Member # Admin /\ None \notin {Member, Admin}
    /\ IsFiniteSet(Members) /\ IsFiniteSet(Calls)
    /\ MaxCalls \in Nat /\ MaxFaults \in Nat

VARIABLES kind,        \* what the document is
          doc,         \* the document; None: removed, or not made yet
          source,      \* how often the post at WordPress was edited
          call,        \* the requests
          overlapped,  \* a request wrote over what it had not read
          told,        \* how often each member was told of the training
          answered,    \* downloads of the present resource that were answered
          calls, faults

vars == <<kind, doc, source, call, overlapped, told, answered, calls, faults>>
-----------------------------------------------------------------------------
Users == {Member, Admin}
Idle == [op |-> None, stage |-> "idle", arg |-> None, read |-> None]

Entries   == [anonymous : BOOLEAN, user : Users \cup {None}, owner : Users \cup {None}]
Resources == [copy : Nat, version : Nat, downloads : Nat]
Trainings == [completed : SUBSET Members]
Chapters  == [chapters : Nat]

\* What the documents of a kind are, and the requests about one.
Documents == [entry |-> Entries, resource |-> Resources, training |-> Trainings,
              chapter |-> Chapters]
Requests ==
    [entry    |-> [op : {"update"}, stage : {"read"},
                   arg : [by : Users, asks : {"yes", "no", None}], read : Entries],
     resource |-> [op : {"refresh"}, stage : {"read", "fetched"}, arg : Nat, read : Nat]
                    \cup [op : {"download"}, stage : {"read", "counted"}, arg : Nat, read : Nat],
     training |-> [op : {"complete"}, stage : {"read", "notify"}, arg : SUBSET Members,
                   read : {None}],
     chapter  |-> [op : {"create"}, stage : {"read"}, arg : {None}, read : {None}]]

TypeOK ==
    /\ kind \in {"entry", "resource", "training", "chapter"}
    /\ doc \in Documents[kind] \cup {None}
    /\ source \in Nat /\ answered \in Nat
    /\ call \in [Calls -> {Idle} \cup Requests[kind]]
    /\ overlapped \in BOOLEAN
    /\ told \in [Members -> Nat]
    /\ calls \in 0..MaxCalls /\ faults \in 0..MaxFaults

\* An entry of the time before authors were kept apart from what is shown.
OldEntry(anonymous) ==
    [anonymous |-> anonymous, user |-> IF anonymous THEN None ELSE Member, owner |-> None]

CreateEntry(anonymous) ==
    [anonymous |-> anonymous, user |-> IF anonymous THEN None ELSE Member, owner |-> Member]

Resource(copy, version) == [copy |-> copy, version |-> version, downloads |-> 0]

Init ==
    /\ \/ kind = "entry" /\ doc \in {CreateEntry(a) : a \in BOOLEAN} \cup {OldEntry(a) : a \in BOOLEAN}
       \/ kind = "resource" /\ doc = Resource(0, 0)
       \/ kind = "training" /\ doc = [completed |-> {}]
       \/ kind = "chapter" /\ doc = [chapters |-> 0]
    /\ source = 0 /\ answered = 0
    /\ call = [c \in Calls |-> Idle]
    /\ overlapped = FALSE
    /\ told = [m \in Members |-> 0]
    /\ calls = 0 /\ faults = 0

There == doc # None

\* A request finds the document and has what it read.
Begin(c, k, op, arg, read) ==
    /\ kind = k /\ calls < MaxCalls
    /\ call[c].stage = "idle"
    /\ call' = [call EXCEPT ![c] = [op |-> op, stage |-> "read", arg |-> arg, read |-> read]]
    /\ calls' = calls + 1

Answered(c) == call' = [call EXCEPT ![c] = Idle]

At(c, op) == call[c].op = op /\ call[c].stage = "read"
-----------------------------------------------------------------------------
(* Testimonies and prayer requests. *)

OwnerOf(entry) == IF entry.owner # None THEN entry.owner ELSE entry.user

MayUpdate(entry, by) == by = Admin \/ OwnerOf(entry) = by

\* asks: to be anonymous or not; None: the request leaves that alone.
FindEntry(c, by, asks) ==
    /\ kind = "entry" /\ There /\ MayUpdate(doc, by)
    /\ Begin(c, "entry", "update", [by |-> by, asks |-> asks], doc)
    /\ UNCHANGED <<kind, doc, source, overlapped, told, answered, faults>>

\* Mutant of Updated: the author is shown according to the request alone.
UpdatedByRequest(entry, read, arg) ==
    LET owner == IF OwnerOf(read) # None THEN OwnerOf(read) ELSE arg.by
    IN [anonymous |-> IF arg.asks = None THEN entry.anonymous ELSE arg.asks = "yes",
        user |-> IF arg.asks = "yes" THEN None ELSE owner,
        owner |-> owner]

\* What an update makes of the entry: whether to show the author comes from
\* what was read, isAnonymous itself is written only when asked for.
Updated(entry, read, arg) ==
    LET owner == IF OwnerOf(read) # None THEN OwnerOf(read) ELSE arg.by
        next  == IF arg.asks = None THEN read.anonymous ELSE arg.asks = "yes"
    IN [anonymous |-> IF arg.asks = None THEN entry.anonymous ELSE next,
        user |-> IF next THEN None ELSE owner,
        owner |-> owner]

UpdateEntry(c) ==
    /\ At(c, "update")
    /\ doc' = IF There THEN Updated(doc, call[c].read, call[c].arg) ELSE None
    /\ overlapped' = (overlapped \/ doc # call[c].read)
    /\ Answered(c)
    /\ UNCHANGED <<kind, source, told, answered, calls, faults>>
-----------------------------------------------------------------------------
(* Resources. *)

FindResource(c) ==
    /\ There
    /\ Begin(c, "resource", "refresh", doc.copy, doc.version)
    /\ UNCHANGED <<kind, doc, source, overlapped, told, answered, faults>>

\* The post is fetched.
FetchPost(c) ==
    /\ At(c, "refresh")
    /\ call' = [call EXCEPT ![c].stage = "fetched", ![c].read = source]
    /\ UNCHANGED <<kind, doc, source, overlapped, told, answered, calls, faults>>

\* Written by _id: a resource that was removed meanwhile stays so.
UpdateResource(c) ==
    /\ call[c].op = "refresh" /\ call[c].stage = "fetched"
    /\ LET same == There /\ doc.copy = call[c].arg IN
       /\ doc' = IF same THEN [doc EXCEPT !.version = call[c].read] ELSE doc
       /\ overlapped' = (overlapped \/ (same /\ doc.version > call[c].read))
    /\ Answered(c)
    /\ UNCHANGED <<kind, source, told, answered, calls, faults>>

FindDownload(c) ==
    /\ There
    /\ Begin(c, "resource", "download", doc.copy, doc.downloads)
    /\ UNCHANGED <<kind, doc, source, overlapped, told, answered, faults>>

\* Of a resource that was removed meanwhile nothing is counted.
CountDownload(c) ==
    /\ At(c, "download")
    /\ IF There /\ doc.copy = call[c].arg
       THEN /\ doc' = [doc EXCEPT !.downloads = @ + 1]
            /\ call' = [call EXCEPT ![c].stage = "counted"]
       ELSE Answered(c) /\ UNCHANGED doc
    /\ UNCHANGED <<kind, source, overlapped, told, answered, calls, faults>>

AnswerDownload(c) ==
    /\ call[c].op = "download" /\ call[c].stage = "counted"
    /\ answered' = IF There /\ doc.copy = call[c].arg THEN answered + 1 ELSE answered
    /\ Answered(c)
    /\ UNCHANGED <<kind, doc, source, overlapped, told, calls, faults>>

\* The resource is made anew from the same address.
CreateFromUrl(copy) ==
    /\ kind = "resource" /\ ~There
    /\ doc' = Resource(copy, source)
    /\ answered' = 0 /\ overlapped' = FALSE
    /\ UNCHANGED <<kind, source, call, told, calls, faults>>

PostChanges ==
    /\ kind = "resource" /\ calls < MaxCalls
    /\ source' = source + 1
    /\ calls' = calls + 1
    /\ UNCHANGED <<kind, doc, call, overlapped, told, answered, faults>>
-----------------------------------------------------------------------------
(* Who completed a training. *)

FindUsers(c, users) ==
    /\ There /\ users # {}
    /\ Begin(c, "training", "complete", users, None)
    /\ UNCHANGED <<kind, doc, source, overlapped, told, answered, faults>>

AddCompleted(c) ==
    /\ At(c, "complete")
    /\ doc' = IF There THEN [completed |-> doc.completed \cup call[c].arg] ELSE None
    /\ call' = [call EXCEPT ![c].stage = "notify"]
    /\ UNCHANGED <<kind, source, overlapped, told, answered, calls, faults>>

\* Not awaited: one entry of the outbox per member and training.
NotifyCompleted(c) ==
    /\ call[c].op = "complete" /\ call[c].stage = "notify"
    /\ told' = [m \in Members |-> IF m \in call[c].arg /\ told[m] = 0 THEN 1 ELSE told[m]]
    /\ Answered(c)
    /\ UNCHANGED <<kind, doc, source, overlapped, answered, calls, faults>>
-----------------------------------------------------------------------------
(* Chapters: the index on name and type refuses the second of a name. *)

FindChapter(c) ==
    /\ kind = "chapter" /\ doc.chapters = 0
    /\ Begin(c, "chapter", "create", None, None)
    /\ UNCHANGED <<kind, doc, source, overlapped, told, answered, faults>>

IndexAllows == doc.chapters = 0

CreateChapter(c) ==
    /\ At(c, "create")
    /\ doc' = IF There /\ IndexAllows THEN [doc EXCEPT !.chapters = @ + 1] ELSE doc
    /\ Answered(c)
    /\ UNCHANGED <<kind, source, overlapped, told, answered, calls, faults>>

RemoveChapter ==
    /\ kind = "chapter" /\ doc.chapters > 0 /\ calls < MaxCalls
    /\ doc' = [doc EXCEPT !.chapters = @ - 1]
    /\ calls' = calls + 1
    /\ UNCHANGED <<kind, source, call, overlapped, told, answered, faults>>
-----------------------------------------------------------------------------
Remove ==
    /\ kind # "chapter" /\ There /\ calls < MaxCalls
    /\ doc' = None
    /\ calls' = calls + 1
    /\ UNCHANGED <<kind, source, call, overlapped, told, answered, faults>>

BreaksOff(c) ==
    /\ call[c].stage # "idle" /\ faults < MaxFaults
    /\ Answered(c)
    /\ faults' = faults + 1
    /\ UNCHANGED <<kind, doc, source, overlapped, told, answered, calls>>

Next ==
    \/ \E c \in Calls :
         \/ \E by \in Users, asks \in {"yes", "no", None} : FindEntry(c, by, asks)
         \/ UpdateEntry(c)
         \/ FindResource(c) \/ FetchPost(c) \/ UpdateResource(c)
         \/ FindDownload(c) \/ CountDownload(c) \/ AnswerDownload(c)
         \/ \E users \in SUBSET Members : FindUsers(c, users)
         \/ AddCompleted(c) \/ NotifyCompleted(c)
         \/ FindChapter(c) \/ CreateChapter(c)
         \/ BreaksOff(c)
    \/ PostChanges \/ CreateFromUrl(calls) \/ RemoveChapter \/ Remove

Spec == Init /\ [][Next]_vars
-----------------------------------------------------------------------------
(* An anonymous testimony shows nobody, and one that is not shows whose it *)
(* is, unless two updates of it overlapped: then the slower one shows the  *)
(* author according to what it had read.                                   *)
AnonymousIsNobodys ==
    kind = "entry" /\ There /\ ~overlapped =>
        IF doc.anonymous THEN doc.user = None
        ELSE doc.user # None /\ doc.user = OwnerOf(doc)

(* The downloads of a resource that were answered are all counted, none    *)
(* twice, and no others but those about to be answered or broken off: not  *)
(* those of a resource of the same address that was there before.          *)
DownloadsAreCounted ==
    kind = "resource" /\ There =>
        LET counted == {c \in Calls : /\ call[c].op = "download" /\ call[c].stage = "counted"
                                      /\ call[c].arg = doc.copy}
            known   == answered + Cardinality(counted)
        IN known <= doc.downloads /\ doc.downloads <= known + faults

(* However often a list is uploaded, a member is told of a completed       *)
(* training once, and told only when the training says so too.             *)
CompletedAreToldOnce ==
    kind = "training" =>
        \A m \in Members :
          /\ told[m] <= 1
          /\ There /\ told[m] = 1 => m \in doc.completed
          /\ There /\ m \in doc.completed =>
               \/ told[m] = 1 \/ faults > 0
               \/ \E c \in Calls : call[c].stage = "notify" /\ m \in call[c].arg

ContentIsTrue == AnonymousIsNobodys /\ DownloadsAreCounted /\ CompletedAreToldOnce
-----------------------------------------------------------------------------
(* Whoever is about to be told of the training is on its list by then.     *)
NotifiedAreCompleted ==
    kind = "training" /\ There =>
        \A c \in Calls : call[c].stage = "notify" => call[c].arg \subseteq doc.completed

\* No request is about a resource that is yet to be made.
CopiesAreNew ==
    kind = "resource" =>
        /\ There => doc.copy <= calls
        /\ \A c \in Calls : call[c].stage # "idle" => call[c].arg < calls

ChapterIsThere == kind = "chapter" => doc \in Chapters

ContentInv ==
    TypeOK /\ ContentIsTrue /\ NotifiedAreCompleted /\ CopiesAreNew /\ ChapterIsThere
================================================================================
