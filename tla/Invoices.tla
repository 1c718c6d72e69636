------------------------------- MODULE Invoices -------------------------------
(***************************************************************************)
(* The invoices for the development of the system                          *)
(* (development-invoices): the form asks for the next number and sends it  *)
(* back with the invoice, of which every field may be typed, then and      *)
(* later; a payment is read, added and saved; every listing first marks    *)
(* what is overdue.                                                        *)
(***************************************************************************)
EXTENDS Naturals, FiniteSets

CONSTANTS Invoices,
          Payments,
          None,
          Totals,      \* what an invoice may come to
          Amounts,     \* what may be paid, or typed as paid
          MaxEdits     \* invoices edited or removed by hand, or not made as the form has them

InvoicesAssumption ==
    /\ IsFiniteSet(Invoices) /\ IsFiniteSet(Payments)
    /\ Totals \subseteq Nat /\ Amounts \subseteq Nat /\ MaxEdits \in Nat

VARIABLES invoice,     \* the collection
          form,        \* the number each form was given
          payment,     \* the calls of recordPayment
          given,       \* what was last typed as paid, and what the history came to then
          outOfTurn,   \* a form was open while another invoice was made, or a number was typed
          disturbed,   \* invoices saved by a payment that had read them before another write
          undone,      \* of these, those where that write was an edit
          decided,     \* invoices whose status a payment decided, from what it still was
          edits

vars == <<invoice, form, payment, given, outOfTurn, disturbed, undone, decided, edits>>
-----------------------------------------------------------------------------
Statuses == {"draft", "sent", "partially_paid", "paid", "overdue", "cancelled"}

\* history: what the payments of the history come to.
NoInvoice == [status |-> "none", number |-> 0, total |-> 0, paid |-> 0, history |-> 0,
              active |-> FALSE]
There(i) == invoice[i] # NoInvoice
Made == {i \in Invoices : There(i)}

\* late: what has written the invoice since the payment read it.
NoPayment == [stage |-> "idle", on |-> None, amount |-> 0, read |-> NoInvoice, late |-> "no"]

Numbers  == 1..Cardinality(Invoices)
Records  == [status : Statuses, number : Nat, total : Nat, paid : Nat, history : Nat,
             active : BOOLEAN]
Readings == [stage : {"idle", "read", "done"}, on : Invoices \cup {None}, amount : Nat,
             read : Records \cup {NoInvoice}, late : {"no", "payment", "edit"}]

TypeOK ==
    /\ invoice \in [Invoices -> Records \cup {NoInvoice}]
    /\ form \in [Invoices -> 0..Cardinality(Invoices)]
    /\ payment \in [Payments -> Readings]
    /\ given \in [Invoices -> [paid : Nat, history : Nat]]
    /\ disturbed \in SUBSET Invoices /\ undone \in SUBSET Invoices /\ decided \in SUBSET Invoices
    /\ outOfTurn \in BOOLEAN
    /\ edits \in 0..MaxEdits

Init ==
    /\ invoice = [i \in Invoices |-> NoInvoice]
    /\ form = [i \in Invoices |-> 0]
    /\ payment = [p \in Payments |-> NoPayment]
    /\ given = [i \in Invoices |-> [paid |-> 0, history |-> 0]]
    /\ disturbed = {} /\ undone = {} /\ decided = {}
    /\ outOfTurn = FALSE
    /\ edits = 0

Reads(p, i) == payment[p].stage = "read" /\ payment[p].on = i
Marks == <<disturbed, undone, decided>>
-----------------------------------------------------------------------------
(* Numbers and forms. *)

\* Mutant of NextNumber: only the invoices that were not removed count.
NextNumberOfActive == Cardinality({i \in Made : invoice[i].active}) + 1

\* Removed invoices stay in the collection and count.
NextNumber == Cardinality(Made) + 1

GenerateInvoiceNumber(i) ==
    /\ ~There(i) /\ form[i] = 0
    /\ form' = [form EXCEPT ![i] = NextNumber]
    /\ UNCHANGED <<invoice, payment, given, outOfTurn, Marks, edits>>

\* As the form has it, or with another number, status or amount paid; nothing
\* refuses a number that is taken.
Create(i) ==
    \E status \in Statuses, number \in Numbers, total \in Totals, paid \in Amounts \cup {0} :
        LET asTheForm == status \in {"draft", "sent"} /\ number = form[i] /\ paid = 0 IN
        /\ ~There(i)
        /\ asTheForm \/ edits < MaxEdits
        /\ edits' = IF asTheForm THEN edits ELSE edits + 1
        /\ invoice' = [invoice EXCEPT ![i] = [status |-> status, number |-> number,
                           total |-> total, paid |-> paid, history |-> 0, active |-> TRUE]]
        /\ given' = [given EXCEPT ![i] = [paid |-> paid, history |-> 0]]
        /\ outOfTurn' = \/ outOfTurn \/ number # form[i]
                        \/ \E j \in Invoices \ {i} : ~There(j) /\ form[j] # 0
        /\ form' = [form EXCEPT ![i] = 0]
        /\ UNCHANGED <<payment, Marks>>

\* update() writes any of the fields, and asks nothing of them.
Update(i) ==
    /\ There(i) /\ edits < MaxEdits
    /\ edits' = edits + 1
    /\ \E status \in Statuses, number \in Numbers, total \in Totals, paid \in Amounts \cup {0} :
         /\ invoice' = [invoice EXCEPT ![i].status = status, ![i].number = number,
                                       ![i].total = total, ![i].paid = paid]
         /\ given' = [given EXCEPT ![i] = [paid |-> paid, history |-> invoice[i].history]]
         /\ outOfTurn' = (outOfTurn \/ number # invoice[i].number)
    /\ payment' = [p \in Payments |->
                     IF Reads(p, i) THEN [payment[p] EXCEPT !.late = "edit"] ELSE payment[p]]
    /\ disturbed' = disturbed \ {i} /\ undone' = undone \ {i} /\ decided' = decided \ {i}
    /\ UNCHANGED form

Remove(i) ==
    /\ There(i) /\ edits < MaxEdits /\ invoice[i].active
    /\ invoice' = [invoice EXCEPT ![i].active = FALSE]
    /\ edits' = edits + 1
    /\ UNCHANGED <<form, payment, given, outOfTurn, Marks>>
-----------------------------------------------------------------------------
(* Payments. *)

FindInvoice(p, i, amount) ==
    /\ There(i) /\ payment[p].stage = "idle"
    /\ payment' = [payment EXCEPT ![p] = [stage |-> "read", on |-> i, amount |-> amount,
                                          read |-> invoice[i], late |-> "no"]]
    /\ UNCHANGED <<invoice, form, given, outOfTurn, Marks, edits>>

\* Mutant of StatusAfter: a part is looked at on its own.
StatusAfterOfPart(read, amount) ==
    IF amount >= read.total THEN "paid"
    ELSE IF amount > 0 THEN "partially_paid" ELSE read.status

StatusAfter(read, amount) ==
    IF read.paid + amount >= read.total THEN "paid"
    ELSE IF read.paid + amount > 0 THEN "partially_paid" ELSE read.status

\* The status follows from the sum, not from what it was.
Decides(read, amount) == read.paid + amount >= read.total \/ read.paid + amount > 0

\* save() pushes the payment, and sets the sum and the status if they changed.
RecordPayment(p) ==
    LET i == payment[p].on
        r == payment[p].read
        a == payment[p].amount
        s == StatusAfter(r, a)
        late == payment[p].late
    IN
    /\ payment[p].stage = "read"
    /\ invoice' = [invoice EXCEPT ![i].history = @ + a,
                                  ![i].paid = IF a # 0 THEN r.paid + a ELSE @,
                                  ![i].status = IF s # r.status THEN s ELSE @]
    /\ payment' = [q \in Payments |->
                     IF q = p THEN [NoPayment EXCEPT !.stage = "done"]
                     ELSE IF Reads(q, i) /\ payment[q].late = "no"
                     THEN [payment[q] EXCEPT !.late = "payment"] ELSE payment[q]]
    /\ disturbed' = IF late # "no" THEN disturbed \cup {i} ELSE disturbed
    /\ undone' = IF late = "edit" THEN undone \cup {i} ELSE undone
    /\ decided' = IF late # "no" THEN decided \ {i}
                  ELSE IF Decides(r, a) THEN decided \cup {i} ELSE decided
    /\ UNCHANGED <<form, given, outOfTurn, edits>>

BreaksOff(p) ==
    /\ payment[p].stage = "read"
    /\ payment' = [payment EXCEPT ![p] = [NoPayment EXCEPT !.stage = "done"]]
    /\ UNCHANGED <<invoice, form, given, outOfTurn, Marks, edits>>
-----------------------------------------------------------------------------
\* What is past its date, which may be changed with the rest, is marked first.
FindAll ==
    \E overdue \in SUBSET {i \in Made : /\ invoice[i].active
                                       /\ invoice[i].status \in {"sent", "partially_paid"}} :
        /\ overdue # {}
        /\ invoice' = [i \in Invoices |->
                         IF i \in overdue THEN [invoice[i] EXCEPT !.status = "overdue"]
                         ELSE invoice[i]]
        /\ UNCHANGED <<form, payment, given, outOfTurn, Marks, edits>>

Next ==
    \/ \E i \in Invoices :
         \/ GenerateInvoiceNumber(i) \/ Create(i) \/ Update(i) \/ Remove(i)
         \/ \E p \in Payments, amount \in Amounts : FindInvoice(p, i, amount)
    \/ \E p \in Payments : RecordPayment(p) \/ BreaksOff(p)
    \/ FindAll

Spec == Init /\ [][Next]_vars
-----------------------------------------------------------------------------
(* Two invoices share a number only when the form of one was open while    *)
(* the other was made, or a number was typed by hand.                      *)
NumbersAreTheirOwn ==
    ~outOfTurn => \A i, j \in Made : invoice[i].number = invoice[j].number => i = j

(* What an invoice says was paid is what was last typed there and what was *)
(* recorded since; payments that overlap lose one of them, and count none  *)
(* twice; only one that had read the invoice before an edit undoes what    *)
(* was typed.  Once a payment that read what stands has been recorded, the *)
(* invoice is paid exactly when that covers it, whatever its status said   *)
(* before and whatever is marked overdue meanwhile.                        *)
SumsAreTrue ==
    \A i \in Made :
        LET recorded == given[i].paid + invoice[i].history
            stated   == invoice[i].paid + given[i].history
        IN /\ i \notin disturbed => stated = recorded
           /\ i \notin undone => stated <= recorded
           /\ i \in decided => (invoice[i].status = "paid" <=> invoice[i].paid >= invoice[i].total)

InvoicesAreTrue == NumbersAreTheirOwn /\ SumsAreTrue
-----------------------------------------------------------------------------
(* The form that was opened last has the next number.  A payment that      *)
(* nothing overtook has read what the invoice still says, but for the mark *)
(* of a listing; and one that payments overtook had read what had been     *)
(* recorded till then.                                                     *)
NumbersAreNext ==
    /\ ~outOfTurn => \A i \in Made : invoice[i].number <= Cardinality(Made)
    /\ \A i \in Invoices \ Made :
         /\ form[i] <= NextNumber
         /\ ~outOfTurn /\ form[i] # 0 => form[i] = NextNumber

ReadsAreTrue ==
    \A p \in Payments : payment[p].stage = "read" =>
        LET i == payment[p].on
            r == payment[p].read
            late == payment[p].late
        IN /\ i \in Made /\ r # NoInvoice
           /\ late = "no" =>
                /\ r.paid = invoice[i].paid /\ r.total = invoice[i].total
                /\ r.history = invoice[i].history
                /\ \/ invoice[i].status = r.status
                   \/ invoice[i].status = "overdue" /\ r.status \in {"sent", "partially_paid"}
           /\ late # "edit" =>
                /\ r.history <= invoice[i].history
                /\ i \notin undone => r.paid + given[i].history <= given[i].paid + r.history

InvoicesInv ==
    /\ TypeOK /\ InvoicesAreTrue /\ NumbersAreNext /\ ReadsAreTrue
    /\ undone \subseteq disturbed /\ decided \subseteq Made
===============================================================================
