---------------------------- MODULE LifetimeImport ----------------------------
(***************************************************************************)
(* A spreadsheet of lifetime members: administrators have its rows matched *)
(* to the accounts, choose, and confirm.  The accounts are read when a     *)
(* confirmation begins and are written one by one, by _id alone.           *)
(***************************************************************************)
EXTENDS Integers, FiniteSets

CONSTANTS Members,
          Rows,        \* of the sheet
          Sheets,      \* contents of the sheet: [Rows -> [email, phone, name, category]]
          Names, Phones,
          None,        \* no such field
          Admins,
          MaxChanges

LifetimeImportAssumption ==
    /\ IsFiniteSet(Members) /\ IsFiniteSet(Rows) /\ Admins # {}
    /\ None \notin Members \cup Names \cup Phones
    /\ Sheets \subseteq [Rows -> [email : Members \cup {None}, phone : Phones \cup {None},
                                  name : Names \cup {None}, category : BOOLEAN]]
    /\ MaxChanges \in Nat

VARIABLES sheet,
          account,    \* the users: there, fullName, phone, global, lifetime
          offered,    \* offered[a][r]: the members the preview showed for a row
          writing,    \* writing[a]: the updates of a confirmation, by row
          imported,   \* the updates made: row, member, and what was there
          overlapped, \* members who became lifetime members, or whose import was
                      \* under way, while another import of theirs was
          changes

vars == <<sheet, account, offered, writing, imported, overlapped, changes>>
-----------------------------------------------------------------------------
(* An e-mail address is its member's; all else may be shared. *)
Account == [there : BOOLEAN, name : Names, phone : Phones \cup {None},
            global : BOOLEAN, lifetime : BOOLEAN]

Types == {"lifetime", "gold", "category"}
Update == [row : Rows, member : Members, type : Types, phone : BOOLEAN]
Import == [row : Rows, member : Members, type : Types, was : BOOLEAN, phone : BOOLEAN]

TypeOK ==
    /\ sheet \in Sheets
    /\ account \in [Members -> Account]
    /\ offered \in [Admins -> [Rows -> SUBSET Members]]
    /\ writing \in [Admins -> SUBSET Update]
    /\ imported \subseteq Import
    /\ overlapped \subseteq Members
    /\ changes \in 0..MaxChanges

Init ==
    /\ sheet \in Sheets
    /\ account \in [Members -> {d \in Account : d.there /\ ~d.lifetime}]
    /\ offered = [a \in Admins |-> [r \in Rows |-> {}]]
    /\ writing = [a \in Admins |-> {}]
    /\ imported = {} /\ overlapped = {} /\ changes = 0
-----------------------------------------------------------------------------
(* matchLifetimeImportRow *)

There == {m \in Members : account[m].there}
Strong(r) == {m \in There : sheet[r].email = m}
             \cup {m \in There : sheet[r].phone # None /\ account[m].phone = sheet[r].phone}
Named(r) == {m \in There : account[m].name = sheet[r].name}

Invalid(r) == sheet[r].name = None \/ (sheet[r].email = None /\ sheet[r].phone = None)

\* Two accounts with one phone are different accounts too.  The name decides only if
\* neither e-mail nor phone is known.
Pointed(r) == IF Strong(r) # {} THEN Strong(r) ELSE Named(r)

\* getLifetimeTypeError: only asked when the row points at one account.
CategoryMissing(r, m) == account[m].global /\ ~sheet[r].category

Candidates(r) ==
    IF Invalid(r) THEN {}
    ELSE IF \E m \in Members : Pointed(r) = {m} /\ CategoryMissing(r, m) THEN {}
    ELSE Pointed(r)

Matched(r) == \E m \in Candidates(r) : Candidates(r) = {m} /\ m \in Named(r)

\* resolveLifetimeType: gold, if the category says nothing.
LifetimeType(r, m) == IF ~account[m].global THEN "lifetime"
                      ELSE IF sheet[r].category THEN "category" ELSE "gold"
-----------------------------------------------------------------------------
(* The two requests. *)

\* A member matched by two rows stays on offer for both, as ambiguous.
PreviewLifetimeMemberImport(a) ==
    /\ writing[a] = {}
    /\ offered' = [offered EXCEPT ![a] = [r \in Rows |-> Candidates(r)]]
    /\ UNCHANGED <<sheet, account, writing, imported, overlapped, changes>>

\* Mutant of Importable: the members that are lifetime members already are not skipped.
ImportableAgain(r, m) == account[m].there /\ m \in Candidates(r)

\* Not there: failed; lifetime member: skipped; no longer pointed at by the row: failed.
Importable(r, m) == account[m].there /\ ~account[m].lifetime /\ m \in Candidates(r)

Pending(m) == \E a \in Admins : \E u \in writing[a] : u.member = m

\* The administrator sends rows with a member each, and no member twice.
ConfirmLifetimeMemberImport(a, chosen) ==
    LET rows == {r \in DOMAIN chosen : Importable(r, chosen[r])} IN
    /\ writing[a] = {} /\ chosen # << >>
    /\ \A r, s \in DOMAIN chosen : chosen[r] = chosen[s] => r = s
    /\ rows # {}
    /\ overlapped' = overlapped \cup {m \in {chosen[r] : r \in rows} : Pending(m)}
    /\ writing' = [writing EXCEPT ![a] =
                    {[row |-> r, member |-> chosen[r], type |-> LifetimeType(r, chosen[r]),
                      phone |-> account[chosen[r]].phone = None /\ sheet[r].phone # None] : r \in rows}]
    /\ offered' = [offered EXCEPT ![a] = [r \in Rows |-> {}]]
    /\ UNCHANGED <<sheet, account, imported, changes>>

\* What the administrator was offered, row by row.
Choices(a) == UNION {[rows -> Members] : rows \in SUBSET {r \in Rows : offered[a][r] # {}}}
Offered(a, chosen) == \A r \in DOMAIN chosen : chosen[r] \in offered[a][r]

\* One update of the unordered bulkWrite; an account that is gone is not created.
UpdateOne(a, u) ==
    LET d == account[u.member] IN
    /\ u \in writing[a]
    /\ writing' = [writing EXCEPT ![a] = @ \ {u}]
    /\ IF d.there
       THEN /\ account' = [account EXCEPT ![u.member].lifetime = TRUE,
                             ![u.member].phone = IF u.phone THEN sheet[u.row].phone ELSE @]
            /\ imported' = imported \cup {[row |-> u.row, member |-> u.member, type |-> u.type,
                             was |-> d.lifetime, phone |-> u.phone /\ d.phone # None]}
       ELSE UNCHANGED <<account, imported>>
    /\ UNCHANGED <<sheet, offered, overlapped, changes>>

\* The database refuses an update, or the process stops: the others are made, or not.
UpdateFails(a, u) ==
    /\ u \in writing[a]
    /\ writing' = [writing EXCEPT ![a] = @ \ {u}]
    /\ UNCHANGED <<sheet, account, offered, imported, overlapped, changes>>
-----------------------------------------------------------------------------
(* Meanwhile. *)

Change(m, d) ==
    /\ changes < MaxChanges /\ account[m].there /\ account[m] # d
    /\ changes' = changes + 1
    /\ account' = [account EXCEPT ![m] = d]
    /\ overlapped' = IF Pending(m) THEN overlapped \cup {m} ELSE overlapped
    /\ UNCHANGED <<sheet, offered, writing, imported>>

UpdateMember(m) ==
    \E name \in Names, phone \in Phones \cup {None} :
        Change(m, [account[m] EXCEPT !.name = name, !.phone = phone])
ActivateLifetime(m) == Change(m, [account[m] EXCEPT !.lifetime = TRUE])
Remove(m) == Change(m, [account[m] EXCEPT !.there = FALSE])

Next ==
    \/ \E a \in Admins :
         \/ PreviewLifetimeMemberImport(a)
         \/ \E chosen \in Choices(a) : Offered(a, chosen) /\ ConfirmLifetimeMemberImport(a, chosen)
         \/ \E u \in writing[a] : UpdateOne(a, u) \/ UpdateFails(a, u)
    \/ \E m \in Members : UpdateMember(m) \/ ActivateLifetime(m) \/ Remove(m)

Spec == Init /\ [][Next]_vars
-----------------------------------------------------------------------------
(* An import gives lifetime membership to somebody who has none, and a     *)
(* phone to somebody who has none, unless two imports of the member, or an *)
(* import and a payment or edit, overlap.  So nobody is imported twice     *)
(* from a sheet that is confirmed again, and no bought type is overwritten.*)
ImportsAreNews ==
    \A i \in imported : i.was \/ i.phone => i.member \in overlapped
-----------------------------------------------------------------------------
(* The invariant on which it rests: unless something overlaps, a member has*)
(* one update under way, and what it gives he does not have yet.           *)

OneUpdatePerMember ==
    \A a, b \in Admins : \A u \in writing[a], w \in writing[b] :
        u.member = w.member => (a = b /\ u = w) \/ u.member \in overlapped

UpdatesAreNews ==
    \A a \in Admins : \A u \in writing[a] :
        \/ u.member \in overlapped
        \/ /\ ~account[u.member].lifetime
           /\ u.phone => account[u.member].phone = None

ImportInv == TypeOK /\ OneUpdatePerMember /\ UpdatesAreNews /\ ImportsAreNews
===============================================================================
