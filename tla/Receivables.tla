----------------------------- MODULE Receivables -----------------------------
(***************************************************************************)
(* Customer invoices and the receipts that settle them: the invoice        *)
(* workflow (sales/services/invoice_workflow.py), the draft write path     *)
(* (sales/serializers.py), the hourly overdue sweep (sales/tasks.py) and   *)
(* the recording, allocation and refund of receipts (payments/viewsets.py, *)
(* payments/serializers.py).                                               *)
(*                                                                         *)
(* A request is one PostgreSQL transaction at READ COMMITTED.  The         *)
(* variables rows, books, receipt, applied, refunded and lastNumber hold   *)
(* what is committed; ws[w] holds what the request of worker w has read or *)
(* written and not committed, and lock its row locks.  A request that      *)
(* takes its only row lock, checks and writes is one action, enabled when  *)
(* the lock is free; allocation, the sweep and the edit of a draft, which  *)
(* read before they lock or lock several rows, are several actions.  The   *)
(* ledger is module Ledger; here an invoice has one issue entry and one    *)
(* write-off loss, and a posting it refuses is a request that never runs.  *)
(***************************************************************************)
EXTENDS Integers, Sequences, FiniteSets, SequencesExt

CONSTANTS
  Invoice, Payment,
  Gateway,     \* the receipts that come through a card gateway
  Editor,      \* workers that edit drafts
  Cashier,     \* workers that allocate receipts
  Sweeper,     \* workers that run the overdue task
  Mortal,      \* the workers whose process may die under a request
  OneDesk,     \* is a draft issued only when nobody is editing it?
  LedgerDesk,  \* may an accountant void an invoice's entry from the ledger?
  LineTotal,   \* what the lines of an invoice may add up to
  Amount,      \* amounts of receipts, allocations and refunds
  LastDay,     \* days run from 0 to LastDay; bounds the calendar
  MaxBatch,    \* invoices in one allocation
  MaxNumber,   \* bounds the invoice numbers allocated
  Nobody       \* holder of a free lock

Worker == Editor \cup Cashier \cup Sweeper
Day    == 0..LastDay
Row    == Invoice \cup Payment

ASSUME ConstantsOK ==
  /\ IsFiniteSet(Invoice) /\ IsFiniteSet(Payment) /\ Gateway \subseteq Payment
  /\ Invoice \cap Payment = {} /\ Nobody \notin Worker /\ Mortal \subseteq Worker
  /\ OneDesk \in BOOLEAN /\ LedgerDesk \in BOOLEAN
  /\ LineTotal \subseteq Nat /\ Amount \subseteq Nat \ {0}
  /\ LastDay \in Nat /\ MaxBatch \in Nat /\ MaxNumber \in Nat

VARIABLES
  rows,        \* the invoice rows
  books,       \* what the ledger holds for each invoice
  receipt,     \* the payment rows
  applied,     \* [Payment -> [Invoice -> Nat]]: payment applications, 0 is none
  refunded,    \* live refunds of each receipt, summed
  lastNumber,  \* last invoice number allocated
  today,
  lock,        \* holder of each row lock
  ws           \* the transaction of each worker

vars == <<rows, books, receipt, applied, refunded, lastNumber, today, lock, ws>>

Status == {"draft", "sent", "partially_paid", "paid", "overdue", "voided",
           "written_off"}

(* ALLOWED_TRANSITIONS *)
Allowed == [draft          |-> {"sent", "voided"},
            sent           |-> {"partially_paid", "paid", "overdue", "voided",
                                "written_off"},
            partially_paid |-> {"paid", "overdue", "sent", "written_off"},
            overdue        |-> {"sent", "partially_paid", "paid", "written_off",
                                "voided"},
            paid           |-> {"partially_paid", "sent"},
            voided         |-> {},
            written_off    |-> {}]

(* total is what the lines add up to; number 0 is the blank number; entry  *)
(* says whether journal_entry is set.                                      *)
InvoiceRow == [status : Status \cup {"absent"}, total : Nat, paid : Nat, due : Nat,
               dueDay : Day, number : Nat, entry : BOOLEAN]

(* issue is the amount of the entry with key invoice:issue:{id}, 0 when    *)
(* there is none, withdrawn when it was voided; loss is that of            *)
(* invoice:writeoff:{id}.                                                  *)
Books == [issue : Nat, withdrawn : BOOLEAN, loss : Nat]

Receipt == [status : {"absent", "pending", "settled"}, amount : Nat, unapplied : Nat]

Exists(i) == rows[i].status # "absent"
Issued(r) == r.status \notin {"absent", "draft"}
Open(r)   == r.status \in {"sent", "partially_paid", "overdue"}

(* What a request holds: the document it acts on, the row it read, the     *)
(* amounts it allocates, the invoices still to lock, the rows it will      *)
(* write (NoRow is none) and the date it works with.                       *)
Work == [at : {"idle", "edit", "lock_receipt", "settle", "mark", "unmark"},
         doc : Row \cup {Nobody}, seen : InvoiceRow, alloc : [Invoice -> Nat],
         todo : Seq(Invoice), new : [Invoice -> InvoiceRow],
         asOf : Day]

NoRow == [status |-> "absent", total |-> 0, paid |-> 0, due |-> 0, dueDay |-> 0,
          number |-> 0, entry |-> FALSE]
Idle == [at |-> "idle", doc |-> Nobody, seen |-> NoRow, alloc |-> [i \in Invoice |-> 0],
         todo |-> <<>>, new |-> [i \in Invoice |-> NoRow], asOf |-> 0]

Free(row)    == lock[row] = Nobody
Take(w, row) == Free(row) /\ lock' = [lock EXCEPT ![row] = w]

(* COMMIT and ROLLBACK both release the locks and end the request.         *)
End(w) ==
  /\ lock' = [row \in Row |-> IF lock[row] = w THEN Nobody ELSE lock[row]]
  /\ ws' = [ws EXCEPT ![w] = Idle]

AppliedTo(i)   == SumFunction([p \in Payment |-> applied[p][i]])
AppliedFrom(p) == SumFunction(applied[p])

-----------------------------------------------------------------------------
(* Drafts.                                                                 *)

CreateInvoice(i) == \E t \in LineTotal, d \in Day :
  /\ ~Exists(i)
  /\ rows' = [rows EXCEPT ![i] = [NoRow EXCEPT !.status = "draft", !.total = t,
                                               !.due = t, !.dueDay = d]]
  /\ UNCHANGED <<books, receipt, applied, refunded, lastNumber, today, lock, ws>>

\* Mutant: the status is not looked at.
ReadForEditAnyStatus(w) == \E i \in Invoice :
  /\ w \in Editor /\ ws[w].at = "idle"
  /\ Exists(i)
  /\ ws' = [ws EXCEPT ![w] = [Idle EXCEPT !.at = "edit", !.doc = i, !.seen = rows[i]]]
  /\ UNCHANGED <<rows, books, receipt, applied, refunded, lastNumber, today, lock>>

(* PATCH reads the invoice without a lock and checks that it is a draft... *)
ReadForEdit(w) == \E i \in Invoice :
  /\ w \in Editor /\ ws[w].at = "idle"
  /\ rows[i].status = "draft"
  /\ ws' = [ws EXCEPT ![w] = [Idle EXCEPT !.at = "edit", !.doc = i, !.seen = rows[i]]]
  /\ UNCHANGED <<rows, books, receipt, applied, refunded, lastNumber, today, lock>>

(* ...then instance.save() writes every column of the row it read, and the *)
(* totals are derived again, from new lines or from those that are there.  *)
EditedRow(seen, t, d) ==
  [seen EXCEPT !.total = t, !.due = t - seen.paid, !.dueDay = d]

WriteEdit(w) == LET i == ws[w].doc IN
  /\ ws[w].at = "edit"
  /\ Free(i)
  /\ \E t \in LineTotal \cup {rows[i].total}, d \in Day :
       /\ ws[w].seen.paid <= t
       /\ rows' = [rows EXCEPT ![i] = EditedRow(ws[w].seen, t, d)]
  /\ End(w)
  /\ UNCHANGED <<books, receipt, applied, refunded, lastNumber, today>>

-----------------------------------------------------------------------------
(* Issue, void and write-off: one row lock each.                           *)

BeingEdited(i) == \E w \in Editor : ws[w].at = "edit" /\ ws[w].doc = i

(* post_entry finds an entry by its key before it posts a new one.         *)
PostIssue(i) ==
  [books EXCEPT ![i].issue = IF @ = 0 THEN rows[i].total ELSE @]

(* allocate_document_number: the counter row is locked to the end.         *)
NextNumber == lastNumber + 1

Issue(i) ==
  /\ Free(i) /\ (OneDesk => ~BeingEdited(i))
  /\ rows[i].status = "draft" /\ rows[i].total > 0 /\ ~rows[i].entry
  /\ lastNumber < MaxNumber
  /\ lastNumber' = NextNumber
  /\ books' = PostIssue(i)
  /\ rows' = [rows EXCEPT ![i].status = "sent", ![i].number = NextNumber,
                          ![i].entry = TRUE]
  /\ UNCHANGED <<receipt, applied, refunded, today, lock, ws>>

(* void_entry refuses an entry that is not posted, and                     *)
(* ck_invoice_issued_has_number an invoice without a number.               *)
Void(i) ==
  /\ Free(i) /\ Exists(i)
  /\ "voided" \in Allowed[rows[i].status]
  /\ rows[i].paid = 0
  /\ rows[i].entry => ~books[i].withdrawn
  /\ rows[i].number # 0
  /\ books' = [books EXCEPT ![i].withdrawn = @ \/ rows[i].entry]
  /\ rows' = [rows EXCEPT ![i].status = "voided"]
  /\ UNCHANGED <<receipt, applied, refunded, lastNumber, today, lock, ws>>

\* Mutants: the whole invoice becomes a loss; the row is not locked.
WriteOffTotal(i) ==
  /\ Free(i) /\ Exists(i)
  /\ "written_off" \in Allowed[rows[i].status]
  /\ rows[i].due > 0
  /\ books' = [books EXCEPT ![i].loss = IF @ = 0 THEN rows[i].total ELSE @]
  /\ rows' = [rows EXCEPT ![i].status = "written_off", ![i].paid = rows[i].total,
                          ![i].due = 0]
  /\ UNCHANGED <<receipt, applied, refunded, lastNumber, today, lock, ws>>
WriteOffUnlocked(i) ==
  /\ Exists(i)
  /\ "written_off" \in Allowed[rows[i].status]
  /\ rows[i].due > 0
  /\ books' = [books EXCEPT ![i].loss = IF @ = 0 THEN rows[i].due ELSE @]
  /\ rows' = [rows EXCEPT ![i].status = "written_off", ![i].paid = rows[i].total,
                          ![i].due = 0]
  /\ UNCHANGED <<receipt, applied, refunded, lastNumber, today, lock, ws>>

WriteOff(i) ==
  /\ Free(i) /\ Exists(i)
  /\ "written_off" \in Allowed[rows[i].status]
  /\ rows[i].due > 0
  /\ books' = [books EXCEPT ![i].loss = IF @ = 0 THEN rows[i].due ELSE @]
  /\ rows' = [rows EXCEPT ![i].status = "written_off", ![i].paid = rows[i].total,
                          ![i].due = 0]
  /\ UNCHANGED <<receipt, applied, refunded, lastNumber, today, lock, ws>>

(* The void verb of the journal-entry endpoint; the invoice is not asked.  *)
VoidFromLedger(i) ==
  /\ LedgerDesk
  /\ books[i].issue > 0 /\ ~books[i].withdrawn
  /\ books' = [books EXCEPT ![i].withdrawn = TRUE]
  /\ UNCHANGED <<rows, receipt, applied, refunded, lastNumber, today, lock, ws>>

-----------------------------------------------------------------------------
(* Receipts.                                                               *)

Receive(p) == \E a \in Amount :
  /\ receipt[p].status = "absent"
  /\ receipt' = [receipt EXCEPT ![p] =
       [status |-> IF p \in Gateway THEN "pending" ELSE "settled",
        amount |-> a, unapplied |-> a]]
  /\ UNCHANGED <<rows, books, applied, refunded, lastNumber, today, lock, ws>>

Refund(p) == \E a \in Amount :
  /\ Free(p) /\ receipt[p].status = "settled"
  /\ a <= receipt[p].amount - refunded[p]
  /\ refunded' = [refunded EXCEPT ![p] = @ + a]
  /\ UNCHANGED <<rows, books, receipt, applied, lastNumber, today, lock, ws>>

(* POST /payments/{id}/apply: the status is checked on the unlocked row.   *)
BeginApply(w) == \E p \in Payment, S \in SUBSET Invoice :
  /\ w \in Cashier /\ ws[w].at = "idle"
  /\ receipt[p].status = "settled"
  /\ S # {} /\ Cardinality(S) <= MaxBatch /\ \A i \in S : Exists(i)
  /\ \E f \in [S -> Amount], order \in SetToSeqs(S) :
       ws' = [ws EXCEPT ![w] = [Idle EXCEPT
                !.at = "lock_receipt", !.doc = p, !.todo = order,
                !.alloc = [i \in Invoice |-> IF i \in S THEN f[i] ELSE 0]]]
  /\ UNCHANGED <<rows, books, receipt, applied, refunded, lastNumber, today, lock>>

(* The receipt is locked, then the applications are inserted; a pair that  *)
(* is there already fails the unique index.                                *)
Fits(w) == LET p == ws[w].doc IN
  /\ SumFunction(ws[w].alloc) \in 0..receipt[p].unapplied
  /\ \A i \in Invoice : ws[w].alloc[i] > 0 => applied[p][i] = 0

LockReceipt(w) == LET p == ws[w].doc IN
  /\ ws[w].at = "lock_receipt"
  /\ Take(w, p)
  /\ Fits(w)
  /\ ws' = [ws EXCEPT ![w].at = "settle"]
  /\ UNCHANGED <<rows, books, receipt, applied, refunded, lastNumber, today>>

(* Recompute, never increment: the committed applications and its own.     *)
Cash(w, i) == AppliedTo(i) + ws[w].alloc[i]

\* Mutant: an exact payment does not settle.
SettledStatusStrict(total, cash, late) ==
  CASE cash > total             -> "paid"
    [] cash <= total /\ late    -> "overdue"
    [] 0 < cash /\ cash <= total /\ ~late -> "partially_paid"
    [] OTHER                    -> "sent"

SettledStatus(total, cash, late) ==
  CASE cash >= total             -> "paid"
    [] cash < total /\ late      -> "overdue"
    [] 0 < cash /\ cash < total /\ ~late -> "partially_paid"
    [] OTHER                     -> "sent"

SettledRow(w, i) ==
  [rows[i] EXCEPT
     !.paid = Cash(w, i), !.due = rows[i].total - Cash(w, i),
     !.status = SettledStatus(rows[i].total, Cash(w, i), rows[i].dueDay < today)]

\* Mutant: more than the total may be applied.
SettlesUnchecked(w, i) ==
  /\ rows[i].status \notin {"draft", "voided", "written_off"}
  /\ LET s == SettledRow(w, i).status
     IN  s = rows[i].status \/ s \in Allowed[rows[i].status]

Settles(w, i) ==
  /\ rows[i].status \notin {"draft", "voided", "written_off"}
  /\ Cash(w, i) \in 0..rows[i].total
  /\ LET s == SettledRow(w, i).status
     IN  s = rows[i].status \/ s \in Allowed[rows[i].status]

(* What a transaction has written of a row shows to others when it commits.*)
Current(w, i) == IF ws[w].new[i] = NoRow THEN rows[i] ELSE ws[w].new[i]
WriteRows(w)  == rows' = [i \in Invoice |-> Current(w, i)]
Updated(w, i, row) ==
  ws' = [ws EXCEPT ![w].todo = Tail(@), ![w].new[i] = row]

\* Mutant: apply_payment without the row lock.
SettleInvoiceUnlocked(w) == LET i == Head(ws[w].todo) IN
  /\ ws[w].at = "settle" /\ ws[w].todo # <<>>
  /\ Settles(w, i)
  /\ Updated(w, i, SettledRow(w, i))
  /\ UNCHANGED <<rows, books, receipt, applied, refunded, lastNumber, today, lock>>

(* apply_payment on the next invoice of the request.                       *)
SettleInvoice(w) == LET i == Head(ws[w].todo) IN
  /\ ws[w].at = "settle" /\ ws[w].todo # <<>>
  /\ Take(w, i)
  /\ Settles(w, i)
  /\ Updated(w, i, SettledRow(w, i))
  /\ UNCHANGED <<rows, books, receipt, applied, refunded, lastNumber, today>>

(* unapplied_amount is recomputed from the receipt's applications.         *)
Leftover(w, p) == receipt[p].amount - AppliedFrom(p) - SumFunction(ws[w].alloc)

(* The CHECK constraints keep it between zero and the amount.              *)
CommitApply(w) == LET p == ws[w].doc IN
  /\ ws[w].at = "settle" /\ ws[w].todo = <<>>
  /\ Leftover(w, p) \in 0..receipt[p].amount
  /\ applied' = [applied EXCEPT ![p] = [i \in Invoice |-> @[i] + ws[w].alloc[i]]]
  /\ receipt' = [receipt EXCEPT ![p].unapplied = Leftover(w, p)]
  /\ WriteRows(w)
  /\ End(w)
  /\ UNCHANGED <<books, refunded, lastNumber, today>>

-----------------------------------------------------------------------------
(* The overdue sweep: two UPDATE statements in one transaction.  A         *)
(* statement finds its rows in the state committed when it starts, locks   *)
(* them one by one, and tests its WHERE clause again on a row it has had   *)
(* to wait for.                                                            *)

\* Mutant: a partly paid invoice is not late.
BecameLateUnpaid(r, d) == r.status = "sent" /\ r.dueDay < d /\ r.due > 0

BecameLate(r, d) == r.status \in {"sent", "partially_paid"} /\ r.dueDay < d /\ r.due > 0
NoLongerLate(r, d) == r.status = "overdue" /\ (r.dueDay >= d \/ r.due <= 0)

BeginSweep(w) ==
  /\ w \in Sweeper /\ ws[w].at = "idle"
  /\ \E order \in SetToSeqs({i \in Invoice : BecameLate(rows[i], today)}) :
       ws' = [ws EXCEPT ![w] = [Idle EXCEPT !.at = "mark", !.todo = order,
                                            !.asOf = today]]
  /\ UNCHANGED <<rows, books, receipt, applied, refunded, lastNumber, today, lock>>

TakeNext(w, i) == lock[i] \in {Nobody, w} /\ lock' = [lock EXCEPT ![i] = w]

MarkOverdue(w) == LET i == Head(ws[w].todo) IN
  /\ ws[w].at = "mark" /\ ws[w].todo # <<>>
  /\ TakeNext(w, i)
  /\ Updated(w, i, IF BecameLate(rows[i], ws[w].asOf)
                   THEN [rows[i] EXCEPT !.status = "overdue"] ELSE rows[i])
  /\ UNCHANGED <<rows, books, receipt, applied, refunded, lastNumber, today>>

StatusAfterOverdue(r) ==
  CASE r.due <= 0              -> "paid"
    [] r.due > 0 /\ r.paid > 0 -> "partially_paid"
    [] OTHER                   -> "sent"

SecondUpdate(w) ==
  /\ ws[w].at = "mark" /\ ws[w].todo = <<>>
  /\ \E order \in SetToSeqs({i \in Invoice : NoLongerLate(Current(w, i), ws[w].asOf)}) :
       ws' = [ws EXCEPT ![w].at = "unmark", ![w].todo = order]
  /\ UNCHANGED <<rows, books, receipt, applied, refunded, lastNumber, today, lock>>

UnmarkOverdue(w) == LET i == Head(ws[w].todo)
                        r == Current(w, i) IN
  /\ ws[w].at = "unmark" /\ ws[w].todo # <<>>
  /\ TakeNext(w, i)
  /\ Updated(w, i, IF NoLongerLate(r, ws[w].asOf)
                   THEN [r EXCEPT !.status = StatusAfterOverdue(r)] ELSE r)
  /\ UNCHANGED <<rows, books, receipt, applied, refunded, lastNumber, today>>

CommitSweep(w) ==
  /\ ws[w].at = "unmark" /\ ws[w].todo = <<>>
  /\ WriteRows(w)
  /\ End(w)
  /\ UNCHANGED <<books, receipt, applied, refunded, lastNumber, today>>

-----------------------------------------------------------------------------
(* Failure: the exception of a check, the deadlock detector and the death  *)
(* of a process all roll the transaction back.                             *)

\* Mutant: the transaction is left open.
RollbackKeepsLocks(w) ==
  /\ ws[w].at # "idle"
  /\ ws' = [ws EXCEPT ![w] = Idle]
  /\ UNCHANGED <<rows, books, receipt, applied, refunded, lastNumber, today, lock>>

Rollback(w) ==
  /\ ws[w].at # "idle"
  /\ End(w)
  /\ UNCHANGED <<rows, books, receipt, applied, refunded, lastNumber, today>>

Refuse(w) ==
  /\ \/ ws[w].at = "lock_receipt" /\ Free(ws[w].doc) /\ ~Fits(w)
     \/ /\ ws[w].at = "settle" /\ ws[w].todo # <<>>
        /\ Free(Head(ws[w].todo)) /\ ~Settles(w, Head(ws[w].todo))
  /\ Rollback(w)

(* The row lock a request asks for next.                                   *)
Wanted(w) ==
  CASE ws[w].at \in {"edit", "lock_receipt"} -> {ws[w].doc}
    [] ws[w].at \in {"settle", "mark", "unmark"} /\ ws[w].todo # <<>>
                   -> {Head(ws[w].todo)}
    [] OTHER       -> {}

Deadlocked(w) == \E S \in SUBSET Worker :
  w \in S /\ \A v \in S : \E row \in Wanted(v) : lock[row] \in S \ {v}

AbortDeadlock(w) == Deadlocked(w) /\ Rollback(w)

Crash(w) == w \in Mortal /\ Rollback(w)

Tick ==
  /\ today < LastDay
  /\ today' = today + 1
  /\ UNCHANGED <<rows, books, receipt, applied, refunded, lastNumber, lock, ws>>

Init ==
  /\ rows = [i \in Invoice |-> NoRow]
  /\ books = [i \in Invoice |-> [issue |-> 0, withdrawn |-> FALSE, loss |-> 0]]
  /\ receipt = [p \in Payment |-> [status |-> "absent", amount |-> 0, unapplied |-> 0]]
  /\ applied = [p \in Payment |-> [i \in Invoice |-> 0]]
  /\ refunded = [p \in Payment |-> 0]
  /\ lastNumber = 0 /\ today = 0
  /\ lock = [row \in Row |-> Nobody]
  /\ ws = [w \in Worker |-> Idle]

Apply(w) == BeginApply(w) \/ LockReceipt(w) \/ SettleInvoice(w) \/ CommitApply(w)
Edit(w)  == ReadForEdit(w) \/ WriteEdit(w)
Sweep(w) == \/ BeginSweep(w) \/ MarkOverdue(w) \/ SecondUpdate(w)
            \/ UnmarkOverdue(w) \/ CommitSweep(w)

Next ==
  \/ \E i \in Invoice : \/ CreateInvoice(i) \/ Issue(i) \/ Void(i) \/ WriteOff(i)
                        \/ VoidFromLedger(i)
  \/ \E p \in Payment : Receive(p) \/ Refund(p)
  \/ \E w \in Worker : Apply(w) \/ Edit(w) \/ Sweep(w)
                       \/ Refuse(w) \/ AbortDeadlock(w) \/ Crash(w)
  \/ Tick

Spec == Init /\ [][Next]_vars

(* Fairness: PostgreSQL queues the waiters of a row lock, so a request     *)
(* that gets the row infinitely often goes on, or is refused; the deadlock *)
(* detector comes; and the task scheduler keeps starting the sweep.  At    *)
(* most one of these is possible at a time for one request.                *)
(* Nobody has to ask for anything, and no crash has to happen.             *)
Progress(w) ==
  \/ LockReceipt(w) \/ SettleInvoice(w) \/ CommitApply(w) \/ WriteEdit(w)
  \/ Sweep(w) \/ Refuse(w) \/ AbortDeadlock(w)

Fairness == \A w \in Worker : SF_vars(Progress(w))

FairSpec == Spec /\ Fairness

-----------------------------------------------------------------------------
(* The pages that add up what customers owe.                               *)
DueOf(S) == SumFunction([i \in Invoice |-> IF i \in S THEN rows[i].due ELSE 0])

(* The refresh button, the list of customers and a statement: amount_due   *)
(* of the open statuses.                                                   *)
Outstanding == DueOf({i \in Invoice : Open(rows[i])})

(* The lines of a statement: everything but drafts, with its amount_due.   *)
StatementDue == DueOf({i \in Invoice : Issued(rows[i])})

(* ARAgingView: open invoices with something due, by days past due.        *)
Bucket(days) == CASE days <= 0               -> "current"
                  [] 0 < days /\ days <= 30  -> "1_30"
                  [] 30 < days /\ days <= 60 -> "31_60"
                  [] 60 < days /\ days <= 90 -> "61_90"
                  [] 90 < days               -> "90_plus"
InBucket(i, b) == /\ Open(rows[i]) /\ rows[i].due > 0
                  /\ Bucket(today - rows[i].dueDay) = b
Aged(b) == DueOf({i \in Invoice : InBucket(i, b)})
AgingTotal ==
  Aged("current") + Aged("1_30") + Aged("31_60") + Aged("61_90") + Aged("90_plus")

-----------------------------------------------------------------------------
(* Correctness.                                                            *)

(* Every amount is a natural number, also when the money is on its way,    *)
(* and what is still due never becomes negative.                           *)
TypeOK ==
  /\ rows \in [Invoice -> InvoiceRow]
  /\ books \in [Invoice -> Books]
  /\ receipt \in [Payment -> Receipt]
  /\ applied \in [Payment -> [Invoice -> Nat]]
  /\ refunded \in [Payment -> Nat]
  /\ lastNumber \in Nat /\ today \in Day
  /\ lock \in [Row -> Worker \cup {Nobody}]
  /\ ws \in [Worker -> Work]

(* The columns of an invoice agree: what is due is the total less what is  *)
(* paid, and the status says which of the two is left.  The docstring of   *)
(* apply_payment: "Status derivation follows the money".                   *)
RowAgrees(r) ==
  /\ r.due = r.total - r.paid /\ r.due >= 0
  /\ r.status \in {"paid", "written_off"} => r.due = 0
  /\ r.status = "partially_paid" => r.paid > 0 /\ r.due > 0
  /\ r.status \in {"draft", "sent"} => r.paid = 0
  /\ r.status = "sent" => r.due > 0
  /\ r.status = "overdue" => r.due > 0

StatusFollowsMoney == \A i \in Invoice : RowAgrees(rows[i])

(* amount_paid caches the applications: of an issued invoice that was not  *)
(* written off it is their sum, whatever allocations, sweeps and           *)
(* corrections ran beside each other.                                      *)
PaidIsApplied ==
  \A i \in Invoice :
    rows[i].status \notin {"absent", "written_off"} => rows[i].paid = AppliedTo(i)

(* unapplied_amount is what the receipt has left over, and no receipt is   *)
(* allocated beyond its amount (AC-PAY-01).                                *)
ReceiptConserved ==
  \A p \in Payment :
    receipt[p].amount = receipt[p].unapplied + AppliedFrom(p)

(* Applications are the one record of where money went: what invoices      *)
(* cache as paid and receipts cache as left over both follow from them.    *)
ReceiptsAddUp == PaidIsApplied /\ ReceiptConserved

(* A voided invoice has no cash against it, and its entry left the ledger. *)
VoidedIsClean ==
  \A i \in Invoice : rows[i].status = "voided" =>
    AppliedTo(i) = 0 /\ books[i].withdrawn

(* A write-off takes to bad debt exactly what the customer did not pay:    *)
(* cash and loss together are the invoice, also when an allocation was     *)
(* under way.                                                              *)
WriteOffIsTheRest ==
  \A i \in Invoice : rows[i].status = "written_off" =>
    rows[i].total = AppliedTo(i) + books[i].loss

(* void_invoice and write_off_invoice close an invoice for exactly what is *)
(* still owed, whatever allocation was under way.                          *)
CorrectionsTakeTheRest == VoidedIsClean /\ WriteOffIsTheRest

(* The ledger holds the amount printed on an issued invoice.               *)
EntryIsTotal ==
  \A i \in Invoice : Issued(rows[i]) => books[i].issue = rows[i].total

(* Every number allocated is on exactly one invoice: the sequence has no   *)
(* gap and no number is reused (X-09).                                     *)
NumbersOnInvoices ==
  /\ {rows[i].number : i \in Invoice} \ {0} = 1..lastNumber
  /\ \A i, j \in Invoice :
       rows[i].number = rows[j].number /\ rows[i].number # 0 => i = j

(* issue_invoice: what was issued is in the ledger for its total, under a  *)
(* number of its own, also when edits and voids run beside it.             *)
IssueIsRecorded == EntryIsTotal /\ NumbersOnInvoices

(* What the ledger holds as receivable of an invoice: receipts and refunds *)
(* post nothing.                                                           *)
LedgerReceivable(i) ==
  (IF books[i].withdrawn THEN 0 ELSE books[i].issue) - books[i].loss

(* The aging report, the statement and the refresh button add up different *)
(* rows and agree: no open invoice falls between two buckets, a statement  *)
(* is off by what its voided invoices still show as due, and the ledger by *)
(* the cash applied, while nobody withdraws an entry of an invoice that    *)
(* stands.                                                                 *)
PagesAgree ==
  LET voided   == {i \in Invoice : rows[i].status = "voided"}
      standing == {i \in Invoice : Issued(rows[i])} \ voided
  IN /\ AgingTotal = Outstanding
     /\ StatementDue = Outstanding + DueOf(voided)
     /\ (\A i \in standing : ~books[i].withdrawn) =>
          SumFunction([i \in Invoice |-> IF i \in standing THEN LedgerReceivable(i) ELSE 0])
            = Outstanding + SumFunction([p \in Payment |-> AppliedFrom(p)])

(* A settled invoice stays settled: src has no path that takes an          *)
(* application back, so no sweep and no allocation may reopen one; voided  *)
(* and written-off invoices never change again.                            *)
SettledIsFinal == [][
  \A i \in Invoice :
    /\ rows[i].status = "paid" => rows'[i].status = "paid"
    /\ rows[i].status \in {"voided", "written_off"} => rows'[i] = rows[i] ]_vars

(* Every request ends: no allocation, edit or sweep waits forever, though  *)
(* two allocations may lock the same invoices in opposite orders.          *)
RequestsEnd == \A w \in Worker : ws[w].at # "idle" ~> ws[w].at = "idle"

(* What the flag should say (FR-INV-04): an invoice is overdue when its    *)
(* due date has passed and money is still owed.                            *)
OverdueIsDerived ==
  \A i \in Invoice : Open(rows[i]) =>
    (rows[i].status = "overdue" <=> rows[i].dueDay < today)

(* Once the calendar and the allocations stop, the sweeps bring the stored *)
(* flag to what it should say and leave it there, also after a sweep that  *)
(* ran over midnight.  Allocations have to stop: one that keeps being      *)
(* refused after it locked an invoice may deadlock with every sweep, and   *)
(* the sweep may be the victim every time.                                 *)
FlagConverges ==
  <>[](\A w \in Cashier : ws[w].at = "idle") => <>[]OverdueIsDerived

-----------------------------------------------------------------------------
(* What the documentation says and the code does not do.                   *)

(* An issued invoice is never a draft again (docs/04-state-machines.md).   *)
NeverUnsent == [][
  \A i \in Invoice : Issued(rows[i]) => Issued(rows'[i]) ]_vars

(* X-01: an invoice that was sent and not voided has a live issue entry.   *)
IssuedHasLiveEntry ==
  \A i \in Invoice : Issued(rows[i]) /\ rows[i].status # "voided" =>
    books[i].issue > 0 /\ ~books[i].withdrawn

(* Refunding applied cash restores the invoice's balance, so what is       *)
(* refunded and what is applied never exceed the receipt together.         *)
RefundedOrApplied ==
  \A p \in Payment : refunded[p] + AppliedFrom(p) <= receipt[p].amount

(* What the ledger holds as receivable is what customers still owe.        *)
ControlTiesSubledger ==
  \A i \in Invoice : Issued(rows[i]) /\ rows[i].status # "voided" =>
    LedgerReceivable(i) = rows[i].due

(* A draft that somebody keeps asking to void does not stay a draft.       *)
DraftsDiscarded ==
  \A i \in Invoice : rows[i].status = "draft" ~> rows[i].status # "draft"
DiscardSpec == Spec /\ \A i \in Invoice : WF_vars(Void(i))
=============================================================================
