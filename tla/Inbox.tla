--------------------------------- MODULE Inbox ---------------------------------
(***************************************************************************)
(* The notifications a user finds in the app (notifications.service).      *)
(* Senders make an item under a key, make it again when they retry, and    *)
(* send the devices of its owner the copy that they read, from the worker  *)
(* by way of RabbitMQ; the owner reads, deletes and restores items on      *)
(* several devices, as the administrators do with the inbox they share.    *)
(* Every change is one query, but what is sent or answered is a copy, and  *)
(* the item may change before it arrives.                                  *)
(***************************************************************************)
EXTENDS Naturals

CONSTANTS Keys,        \* typeId of the items of one owner
          Screens,     \* devices that show them; one request of each at a time
          Senders,     \* calls of create and createForUsers that overlap
          MaxMade,     \* bound: times an item is made or made again
          MaxTouches   \* bound: changes of the owner, and items that expire

InboxAssumption == MaxMade \in Nat /\ MaxTouches \in Nat

VARIABLES item,        \* the items
          held,        \* the copies on their way from a sender or to a device
          finding,     \* item that createForUsers wrote and has still to find
          shown,       \* what each device shows
          made, touches

vars == <<item, held, finding, shown, made, touches>>
-----------------------------------------------------------------------------
\* made counts the items there were under a key, touched the changes of one.
Items  == [made : 0 .. MaxMade, touched : 0 .. MaxTouches, there : BOOLEAN,
           read : BOOLEAN, deleted : BOOLEAN]
NoItem == [made |-> 0, touched |-> 0, there |-> FALSE, read |-> FALSE, deleted |-> FALSE]

\* What an insert writes; no item is the 0th of its key.
New(n) == [made |-> n, touched |-> 0, there |-> TRUE, read |-> FALSE, deleted |-> FALSE]
NoCopy == New(0)

Holders == {<<"sender", c>> : c \in Senders} \cup {<<"screen", s>> : s \in Screens}
Nothing == [k \in Keys |-> NoCopy]
Idle    == {}

TypeOK ==
    /\ item \in [Keys -> Items]
    /\ held \in [Holders -> [Keys -> Items]]
    /\ finding \in [Senders -> SUBSET Keys]
    /\ shown \in [Screens -> [Keys -> Items]]
    /\ made \in 0 .. MaxMade /\ touches \in 0 .. MaxTouches

Init ==
    /\ item = [k \in Keys |-> NoItem]
    /\ held = [h \in Holders |-> Nothing]
    /\ finding = [c \in Senders |-> Idle]
    /\ shown = [s \in Screens |-> item]
    /\ made = 0 /\ touches = 0

Visible(i) == i.there /\ ~i.deleted
-----------------------------------------------------------------------------
\* Mutant of SetOnInsert: the update sets the fields every time.
SetAlways(i) == New(IF i.there THEN i.made ELSE i.made + 1)

\* An upsert writes the fields of an item only when it makes it.
SetOnInsert(i) == IF i.there THEN i ELSE New(i.made + 1)

Upsert(c, k) ==
    /\ held[<<"sender", c>>] = Nothing /\ finding[c] = Idle
    /\ made < MaxMade /\ made' = made + 1
    /\ item' = [item EXCEPT ![k] = SetOnInsert(@)]
    /\ UNCHANGED <<shown, touches>>

\* One query writes the item and returns it.
Create(c, k) ==
    /\ Upsert(c, k)
    /\ held' = [held EXCEPT ![<<"sender", c>>] = [Nothing EXCEPT ![k] = item'[k]]]
    /\ UNCHANGED finding

\* createForUsers writes the items of all users, and finds them afterwards.
CreateForUsers(c, k) ==
    /\ Upsert(c, k)
    /\ finding' = [finding EXCEPT ![c] = {k}]
    /\ UNCHANGED held

FindCreated(c, k) ==
    /\ k \in finding[c] /\ item[k].there
    /\ held' = [held EXCEPT ![<<"sender", c>>] = [Nothing EXCEPT ![k] = item[k]]]
    /\ finding' = [finding EXCEPT ![c] = Idle]
    /\ UNCHANGED <<item, shown, made, touches>>

Shows(s, copies) ==
    shown' = [shown EXCEPT ![s] = [k \in Keys |-> IF copies[k] = NoCopy THEN @[k] ELSE copies[k]]]

\* Each device of the owner that is connected gets the copy at a time of its own.
Emit(c, s) ==
    /\ held[<<"sender", c>>] # Nothing
    /\ Shows(s, held[<<"sender", c>>])
    /\ UNCHANGED <<item, held, finding, made, touches>>

\* The sender is through, whoever was reached, or broke off on its way.
CreateEnds(c) ==
    /\ held[<<"sender", c>>] # Nothing \/ finding[c] # Idle
    /\ held' = [held EXCEPT ![<<"sender", c>>] = Nothing]
    /\ finding' = [finding EXCEPT ![c] = Idle]
    /\ UNCHANGED <<item, shown, made, touches>>
-----------------------------------------------------------------------------
Touch ==
    /\ touches < MaxTouches /\ touches' = touches + 1
    /\ UNCHANGED <<finding, shown, made>>

Touched(i, there, read, deleted) ==
    [made |-> i.made, touched |-> i.touched + 1, there |-> there, read |-> read,
     deleted |-> deleted]

Expires(k) ==
    /\ item[k].there
    /\ item' = [item EXCEPT ![k] = Touched(@, FALSE, @.read, @.deleted)]
    /\ Touch
    /\ UNCHANGED held

FindAll(s) ==
    /\ held[<<"screen", s>>] = Nothing
    /\ held' = [held EXCEPT ![<<"screen", s>>] = item]
    /\ UNCHANGED <<item, finding, shown, made, touches>>

\* A device asks for what it shows, which may be gone by now, and is answered
\* with the item as the query left it.
Changes(s, k) ==
    /\ held[<<"screen", s>>] = Nothing
    /\ held' = [held EXCEPT ![<<"screen", s>>] = [Nothing EXCEPT ![k] = item'[k]]]
    /\ Touch

Read(i) == Touched(i, i.there, TRUE, i.deleted)

MarkAsRead(s, k) ==
    /\ Visible(shown[s][k]) /\ Visible(item[k])
    /\ item' = [item EXCEPT ![k] = Read(@)]
    /\ Changes(s, k)

DeleteNotification(s, k) ==
    /\ Visible(shown[s][k]) /\ Visible(item[k])
    /\ item' = [item EXCEPT ![k] = Touched(@, @.there, @.read, TRUE)]
    /\ Changes(s, k)

\* Only what is deleted is restored: as read as it was.
RestoreNotification(s, k) ==
    /\ item[k].there /\ item[k].deleted
    /\ item' = [item EXCEPT ![k] = Touched(@, @.there, @.read, FALSE)]
    /\ Changes(s, k)

Unread == {k \in Keys : Visible(item[k]) /\ ~item[k].read}

MarkAllAsRead ==
    /\ Unread # {}
    /\ item' = [k \in Keys |-> IF k \in Unread THEN Read(item[k]) ELSE item[k]]
    /\ Touch
    /\ UNCHANGED held

\* The answer arrives, or the connection is lost.
Answered(s) ==
    /\ held[<<"screen", s>>] # Nothing
    /\ Shows(s, held[<<"screen", s>>]) \/ UNCHANGED shown
    /\ held' = [held EXCEPT ![<<"screen", s>>] = Nothing]
    /\ UNCHANGED <<item, finding, made, touches>>

Next ==
    \/ \E c \in Senders :
         \/ CreateEnds(c)
         \/ \E k \in Keys : Create(c, k) \/ CreateForUsers(c, k) \/ FindCreated(c, k)
         \/ \E s \in Screens : Emit(c, s)
    \/ MarkAllAsRead
    \/ \E k \in Keys : Expires(k)
    \/ \E s \in Screens :
         \/ FindAll(s)
         \/ Answered(s)
         \/ \E k \in Keys : MarkAsRead(s, k) \/ DeleteNotification(s, k) \/ RestoreNotification(s, k)

Spec == Init /\ [][Next]_vars
-----------------------------------------------------------------------------
(* A device that showed an item as read, deleted or restored does not go   *)
(* back to an earlier state of it, however the senders retry and the other *)
(* devices ask, unless the item changed while a copy was on its way.       *)
Newer(i, j) == i.made > j.made \/ (i.made = j.made /\ i.touched > j.touched)

UpTo(i, j) == i = j \/ Newer(j, i)

Overtaken == {k \in Keys : \E h \in Holders : held[h][k] \notin {NoCopy, item[k]}}

NothingGoesBack ==
    \A s \in Screens, k \in Keys \ Overtaken :
        shown'[s][k] # shown[s][k] => Newer(shown'[s][k], shown[s][k])

ReadStaysRead == [][NothingGoesBack]_vars

\* What it rests on: an item only goes forward, and a copy is never ahead of it.
Counted ==
    \A k \in Keys :
        /\ item[k].made <= made /\ item[k].touched <= touches
        /\ item[k].there => item[k].made > 0

CopiesFollow ==
    \A k \in Keys :
        /\ \A h \in Holders : held[h][k] = NoCopy \/ UpTo(held[h][k], item[k])
        /\ \A s \in Screens : UpTo(shown[s][k], item[k])

InboxInv == TypeOK /\ Counted /\ CopiesFollow
===============================================================================
