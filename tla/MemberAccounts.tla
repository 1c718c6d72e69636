---------------------------- MODULE MemberAccounts ----------------------------
(***************************************************************************)
(* How accounts come and go: members sign up, administrators and managers  *)
(* create members, addresses are verified by a code, accounts are deleted. *)
(* A creation is split at each call of the database; the counter of        *)
(* membership numbers is incremented by the schema's pre-save hook, before *)
(* the insertion.                                                          *)
(***************************************************************************)
EXTENDS Naturals, Sequences

CONSTANTS Emails,
          Creations,    \* requests that create an account
          MaxCodes, MaxRemovals

AccountsAssumption ==
    /\ Emails # {} /\ Creations # {}
    /\ MaxCodes \in Nat /\ MaxRemovals \in Nat

VARIABLES account,      \* the account of each address
          counter,      \* sequenceValue of the counter "userId"
          numbered,     \* the membership numbers inserted so far, in order
          creation,     \* the requests
          verifying,    \* verifyEmail: accounts found by their code, to be updated
          reminding,    \* sendPasswordChangeReminders: members still to be reminded
          reminded,     \* addresses that got a reminder
          mailed,       \* addresses that were sent credentials
          codes, removals

vars == <<account, counter, numbered, creation, verifying, reminding, reminded, mailed,
          codes, removals>>
-----------------------------------------------------------------------------
Kinds == {"signUp", "createMember", "byAdmin", "manually"}

NoAccount == [id |-> 0, kind |-> "none", code |-> 0, emailVerified |-> FALSE,
              opened |-> FALSE, changed |-> FALSE]

\* code: 0 where there is none, else the code that was e-mailed last.
Account == [id : Nat, kind : Kinds \cup {"none"}, code : 0..MaxCodes,
            emailVerified : BOOLEAN, opened : BOOLEAN, changed : BOOLEAN]

TypeOK ==
    /\ account \in [Emails -> Account]
    /\ counter \in Nat
    /\ numbered \in Seq(Nat)
    /\ creation \in [Creations -> [stage : {"new", "count", "insert", "code", "mail", "log", "done"},
                                   kind : Kinds \cup {"none"}, email : Emails, id : Nat]]
    /\ verifying \subseteq (Emails \X Nat)
    /\ reminding \subseteq Emails /\ reminded \subseteq Emails /\ mailed \subseteq Emails
    /\ codes \in 0..MaxCodes /\ removals \in 0..MaxRemovals

Init ==
    /\ account = [e \in Emails |-> NoAccount]
    /\ counter = 0
    /\ numbered = <<>>
    /\ creation = [c \in Creations |-> [stage |-> "new", kind |-> "none", id |-> 0,
                                        email |-> CHOOSE e \in Emails : TRUE]]
    /\ verifying = {} /\ reminding = {} /\ reminded = {} /\ mailed = {}
    /\ codes = 0 /\ removals = 0

\* The schema stores addresses in lower case, with a unique index, and every
\* search ignores the case: an address is one value.
Exists(e) == account[e].id # 0

GoTo(c, stage) == creation' = [creation EXCEPT ![c].stage = stage]
-----------------------------------------------------------------------------
(* Creating an account. *)

\* signUp checks the fields of the role only.
SignUp(c, e) ==
    /\ creation[c].stage = "new"
    /\ creation' = [creation EXCEPT ![c] = [@ EXCEPT !.stage = "count", !.kind = "signUp",
                                                     !.email = e]]
    /\ UNCHANGED <<account, counter, numbered, verifying, reminding, reminded, mailed,
                   codes, removals>>

\* createMember, createMemberByAdmin and createMemberManually look the address up.
CreateMember(c, e, kind) ==
    /\ creation[c].stage = "new"
    /\ creation' = [creation EXCEPT ![c] =
           [@ EXCEPT !.stage = IF Exists(e) THEN "done" ELSE "count",
                     !.kind = kind, !.email = e]]
    /\ UNCHANGED <<account, counter, numbered, verifying, reminding, reminded, mailed,
                   codes, removals>>

\* Mutant of NextNumber: one more than there are accounts.
NextNumberOfAccounts == Len(numbered) - removals + 1

\* $inc with upsert.
NextNumber == counter + 1

\* The pre-save hook takes the next number.
TakeNumber(c) ==
    /\ creation[c].stage = "count"
    /\ counter' = NextNumber
    /\ creation' = [creation EXCEPT ![c].stage = "insert", ![c].id = NextNumber]
    /\ UNCHANGED <<account, numbered, verifying, reminding, reminded, mailed, codes, removals>>

NewAccount(c) ==
    [NoAccount EXCEPT !.id = creation[c].id, !.kind = creation[c].kind,
                      !.emailVerified = creation[c].kind = "byAdmin"]

InsertAccount(c) ==
    LET e == creation[c].email IN
    /\ creation[c].stage = "insert"
    /\ ~Exists(e)
    /\ account' = [account EXCEPT ![e] = NewAccount(c)]
    /\ numbered' = Append(numbered, creation[c].id)
    /\ GoTo(c, IF creation[c].kind = "signUp" THEN "code" ELSE "mail")
    /\ UNCHANGED <<counter, verifying, reminding, reminded, mailed, codes, removals>>

\* Error 11000 of the unique index: the number stays unused.
EmailExists(c) ==
    /\ creation[c].stage = "insert"
    /\ Exists(creation[c].email)
    /\ GoTo(c, "done")
    /\ UNCHANGED <<account, counter, numbered, verifying, reminding, reminded, mailed,
                   codes, removals>>

\* signUp issues tokens, stores the first code and sends the welcome e-mail.
StoreCode(c) ==
    LET e == creation[c].email IN
    /\ creation[c].stage = "code"
    /\ codes < MaxCodes
    /\ codes' = codes + 1
    /\ account' = IF account[e].id = creation[c].id
                  THEN [account EXCEPT ![e].code = codes + 1] ELSE account
    /\ GoTo(c, "done")
    /\ UNCHANGED <<counter, numbered, verifying, reminding, reminded, mailed, removals>>

\* The member's password is e-mailed; createMemberManually goes on to its log.
MailCredentials(c) ==
    /\ creation[c].stage = "mail"
    /\ mailed' = mailed \cup {creation[c].email}
    /\ GoTo(c, IF creation[c].kind = "manually" THEN "log" ELSE "done")
    /\ UNCHANGED <<account, counter, numbered, verifying, reminding, reminded, codes, removals>>

\* The log is of a type its schema does not have: the call fails with the
\* account created.
LogCreation(c) ==
    /\ creation[c].stage = "log"
    /\ GoTo(c, "done")
    /\ UNCHANGED <<account, counter, numbered, verifying, reminding, reminded, mailed,
                   codes, removals>>

\* The database or the process fails in the middle of a creation.
CreationBreaksOff(c) ==
    /\ creation[c].stage \in {"count", "insert", "code", "mail", "log"}
    /\ GoTo(c, "done")
    /\ UNCHANGED <<account, counter, numbered, verifying, reminding, reminded, mailed,
                   codes, removals>>
-----------------------------------------------------------------------------
(* Verifying the address. *)

ResendVerifyCode(e) ==
    /\ Exists(e) /\ ~account[e].emailVerified
    /\ codes < MaxCodes
    /\ codes' = codes + 1
    /\ account' = [account EXCEPT ![e].code = codes + 1]
    /\ UNCHANGED <<counter, numbered, creation, verifying, reminding, reminded, mailed, removals>>

\* verifyEmail finds the account by address and code, before the code expires.
FindByCode(e) ==
    /\ Exists(e) /\ account[e].code # 0
    /\ verifying' = verifying \cup {<<e, account[e].id>>}
    /\ UNCHANGED <<account, counter, numbered, creation, reminding, reminded, mailed,
                   codes, removals>>

\* user.updateOne goes by _id: an account deleted since is not there any more.
VerifyEmail(e, id) ==
    /\ <<e, id>> \in verifying
    /\ verifying' = verifying \ {<<e, id>>}
    /\ account' = IF account[e].id = id
                  THEN [account EXCEPT ![e].emailVerified = TRUE, ![e].code = 0] ELSE account
    /\ UNCHANGED <<counter, numbered, creation, reminding, reminded, mailed, codes, removals>>

\* Fifteen minutes pass.
CodeExpires(e) ==
    /\ account[e].code # 0
    /\ account' = [account EXCEPT ![e].code = 0]
    /\ UNCHANGED <<counter, numbered, creation, verifying, reminding, reminded, mailed,
                   codes, removals>>
-----------------------------------------------------------------------------
(* Members whom an administrator created. *)

\* The pixel of the credentials e-mail is fetched.
TrackEmailOpen(e) ==
    /\ Exists(e) /\ e \in mailed /\ ~account[e].opened
    /\ account' = [account EXCEPT ![e].opened = TRUE]
    /\ UNCHANGED <<counter, numbered, creation, verifying, reminding, reminded, mailed,
                   codes, removals>>

\* changePassword notes the first change of a password an administrator gave.
ChangeInitialPassword(e) ==
    /\ Exists(e) /\ account[e].kind = "byAdmin" /\ ~account[e].changed
    /\ account' = [account EXCEPT ![e].changed = TRUE]
    /\ UNCHANGED <<counter, numbered, creation, verifying, reminding, reminded, mailed,
                   codes, removals>>

PendingMembers == {e \in Emails : Exists(e) /\ account[e].kind = "byAdmin" /\ ~account[e].changed}

SendPasswordChangeReminders ==
    /\ reminding = {} /\ PendingMembers # {}
    /\ reminding' = PendingMembers
    /\ UNCHANGED <<account, counter, numbered, creation, verifying, reminded, mailed,
                   codes, removals>>

\* One e-mail after the other, to the list read at first; a failure is counted.
RemindMember(e) ==
    /\ e \in reminding
    /\ reminding' = reminding \ {e}
    /\ \/ reminded' = reminded \cup {e}
       \/ reminded' = reminded
    /\ UNCHANGED <<account, counter, numbered, creation, verifying, mailed, codes, removals>>

\* remove() deletes the account; its address may register again.
Remove(e) ==
    /\ Exists(e) /\ removals < MaxRemovals
    /\ removals' = removals + 1
    /\ account' = [account EXCEPT ![e] = NoAccount]
    /\ UNCHANGED <<counter, numbered, creation, verifying, reminding, reminded, mailed, codes>>
-----------------------------------------------------------------------------
Next ==
    \/ \E c \in Creations :
         \/ \E e \in Emails : \/ SignUp(c, e)
                              \/ \E kind \in Kinds \ {"signUp"} : CreateMember(c, e, kind)
         \/ TakeNumber(c) \/ InsertAccount(c) \/ EmailExists(c) \/ StoreCode(c)
         \/ MailCredentials(c) \/ LogCreation(c) \/ CreationBreaksOff(c)
    \/ \E e \in Emails :
         \/ ResendVerifyCode(e) \/ FindByCode(e) \/ CodeExpires(e)
         \/ \E id \in 1..counter : VerifyEmail(e, id)
         \/ TrackEmailOpen(e) \/ ChangeInitialPassword(e) \/ RemindMember(e) \/ Remove(e)
    \/ SendPasswordChangeReminders

Spec == Init /\ [][Next]_vars
-----------------------------------------------------------------------------
(* A membership number is given to one account for ever: creations that    *)
(* overlap, fail at the unique index or break off leave gaps, never a      *)
(* second holder, and the number of a deleted account is not used again.   *)
MembershipIdsUnique ==
    \A i, j \in DOMAIN numbered : numbered[i] = numbered[j] => i = j
-----------------------------------------------------------------------------
(* The invariant on which it rests: a number that was inserted, or that a  *)
(* creation is about to insert, was taken from the counter by nobody else. *)

Takes(c) == creation[c].stage = "insert"

NumbersAreTaken ==
    /\ \A i \in DOMAIN numbered : numbered[i] <= counter
    /\ \A c \in Creations : Takes(c) =>
         /\ creation[c].id <= counter
         /\ \A i \in DOMAIN numbered : numbered[i] # creation[c].id
         /\ \A d \in Creations : Takes(d) /\ creation[d].id = creation[c].id => d = c

AccountsInv == TypeOK /\ NumbersAreTaken /\ MembershipIdsUnique
=============================================================================
