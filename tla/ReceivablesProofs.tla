--------------------------- MODULE ReceivablesProofs ---------------------------
(***************************************************************************)
(* Proofs about Receivables, for any number of documents and workers.      *)
(* Inv: types, and that the columns of every invoice agree with each       *)
(* other, also when a draft is issued while it is being edited.  Money:    *)
(* that invoices, receipts, applications and the ledger agree with each    *)
(* other, when it is not (OneDesk; without it a late save overwrites the   *)
(* issued invoice).                                                        *)
(***************************************************************************)
EXTENDS Receivables, SumTheorems

(* What has to hold of the work in progress: a row that is about to be     *)
(* written agrees too, an edit has read a draft, an allocation has a       *)
(* receipt.                                                                *)
WorkOK(k) ==
  /\ \A i \in Invoice : RowAgrees(k.new[i])
  /\ k.at = "edit" => k.doc \in Invoice /\ k.seen.status = "draft" /\ k.seen.paid = 0
  /\ k.at \in {"lock_receipt", "settle"} => k.doc \in Payment

WorkAgrees == \A w \in Worker : WorkOK(ws[w])

Inv == TypeOK /\ StatusFollowsMoney /\ WorkAgrees

-----------------------------------------------------------------------------
(* The pieces every action is made of.                                     *)

LEMMA NoRowOK == ConstantsOK => NoRow \in InvoiceRow /\ RowAgrees(NoRow)
BY DEF ConstantsOK, NoRow, InvoiceRow, RowAgrees, Day, Status

LEMMA IdleOK == ConstantsOK => Idle \in Work /\ WorkOK(Idle)
<1> SUFFICES ASSUME ConstantsOK PROVE Idle \in Work /\ WorkOK(Idle)
  OBVIOUS
<1>1. NoRow \in InvoiceRow /\ RowAgrees(NoRow)
  BY NoRowOK
<1>2. [i \in Invoice |-> NoRow] \in [Invoice -> InvoiceRow] BY <1>1
<1>3. [i \in Invoice |-> 0] \in [Invoice -> Nat] OBVIOUS
<1>4. 0 \in Day BY DEF ConstantsOK, Day
<1>5. Idle \in Work BY <1>1, <1>2, <1>3, <1>4 DEF Idle, Work
<1>6. WorkOK(Idle) BY <1>1 DEF Idle, WorkOK
<1> QED BY <1>5, <1>6

(* One worker's transaction changes to k.                                  *)
LEMMA SetWork ==
  ASSUME ws \in [Worker -> Work], WorkAgrees, NEW w \in Worker,
         NEW k \in Work, WorkOK(k), ws' = [ws EXCEPT ![w] = k]
  PROVE  ws' \in [Worker -> Work] /\ WorkAgrees'
<1>1. ws' \in [Worker -> Work] OBVIOUS
<1>2. \A v \in Worker : ws'[v] = IF v = w THEN k ELSE ws[v] OBVIOUS
<1>3. ASSUME NEW v \in Worker PROVE WorkOK(ws'[v])
  <2>1. CASE v = w
    <3>1. ws'[v] = k BY <1>2, <2>1
    <3> QED BY <3>1
  <2>2. CASE v # w
    <3>1. ws'[v] = ws[v] BY <1>2, <2>2
    <3> QED BY <3>1 DEF WorkAgrees
  <2> QED BY <2>1, <2>2
<1>4. WorkAgrees' BY <1>3 DEF WorkAgrees, WorkOK, RowAgrees
<1> QED BY <1>1, <1>4

LEMMA TakeTyped ==
  ASSUME lock \in [Row -> Worker \cup {Nobody}], NEW w \in Worker, NEW row \in Row,
         lock' = [lock EXCEPT ![row] = w]
  PROVE  lock' \in [Row -> Worker \cup {Nobody}]
OBVIOUS

LEMMA EndOK ==
  ASSUME ConstantsOK, TypeOK, WorkAgrees, NEW w \in Worker, End(w)
  PROVE  /\ lock' \in [Row -> Worker \cup {Nobody}]
         /\ ws' \in [Worker -> Work] /\ WorkAgrees'
<1>1. lock' \in [Row -> Worker \cup {Nobody}] BY DEF End, TypeOK
<1>2. Idle \in Work /\ WorkOK(Idle) BY IdleOK
<1>3. ws' = [ws EXCEPT ![w] = Idle] BY DEF End
<1>4. ws \in [Worker -> Work] BY DEF TypeOK
<1> QED BY <1>1, <1>2, <1>3, <1>4, SetWork

(* One invoice row changes to r.                                           *)
LEMMA SetRow ==
  ASSUME rows \in [Invoice -> InvoiceRow], StatusFollowsMoney, NEW i \in Invoice,
         NEW r \in InvoiceRow, RowAgrees(r), rows' = [rows EXCEPT ![i] = r]
  PROVE  rows' \in [Invoice -> InvoiceRow] /\ StatusFollowsMoney'
<1>1. rows' \in [Invoice -> InvoiceRow] OBVIOUS
<1>2. \A j \in Invoice : rows'[j] = IF j = i THEN r ELSE rows[j] OBVIOUS
<1>3. ASSUME NEW j \in Invoice PROVE RowAgrees(rows'[j])
  <2>1. CASE j = i
    <3>1. rows'[j] = r BY <1>2, <2>1
    <3> QED BY <3>1
  <2>2. CASE j # i
    <3>1. rows'[j] = rows[j] BY <1>2, <2>2
    <3> QED BY <3>1 DEF StatusFollowsMoney
  <2> QED BY <2>1, <2>2
<1> QED BY <1>1, <1>3 DEF StatusFollowsMoney, RowAgrees

(* A transaction commits the rows it prepared.                             *)
LEMMA WriteRowsOK ==
  ASSUME TypeOK, StatusFollowsMoney, WorkAgrees, NEW w \in Worker, WriteRows(w)
  PROVE  rows' \in [Invoice -> InvoiceRow] /\ StatusFollowsMoney'
<1>1. ASSUME NEW i \in Invoice
      PROVE  Current(w, i) \in InvoiceRow /\ RowAgrees(Current(w, i))
  <2>1. ws[w] \in Work /\ WorkOK(ws[w]) BY DEF TypeOK, WorkAgrees
  <2>2. ws[w].new \in [Invoice -> InvoiceRow] BY <2>1 DEF Work
  <2>3. ws[w].new[i] \in InvoiceRow /\ RowAgrees(ws[w].new[i])
    BY <2>1, <2>2 DEF WorkOK
  <2>4. rows[i] \in InvoiceRow /\ RowAgrees(rows[i])
    BY DEF TypeOK, StatusFollowsMoney
  <2>5. CASE ws[w].new[i] = NoRow
    <3>1. Current(w, i) = rows[i] BY <2>5 DEF Current
    <3> QED BY <3>1, <2>4
  <2>6. CASE ws[w].new[i] # NoRow
    <3>1. Current(w, i) = ws[w].new[i] BY <2>6 DEF Current
    <3> QED BY <3>1, <2>3
  <2> QED BY <2>5, <2>6
<1>2. rows' = [i \in Invoice |-> Current(w, i)] BY DEF WriteRows
<1>3. rows' \in [Invoice -> InvoiceRow] BY <1>1, <1>2
<1>4. ASSUME NEW i \in Invoice PROVE RowAgrees(rows'[i])
  <2>1. rows'[i] = Current(w, i) BY <1>2
  <2> QED BY <2>1, <1>1
<1> QED BY <1>3, <1>4 DEF StatusFollowsMoney, RowAgrees

(* A transaction prepares the row r of the next invoice.                   *)
LEMMA UpdatedOK ==
  ASSUME TypeOK, WorkAgrees, NEW w \in Worker, NEW i \in Invoice,
         ws[w].at \in {"settle", "mark", "unmark"}, ws[w].todo # <<>>,
         NEW r \in InvoiceRow, RowAgrees(r), Updated(w, i, r)
  PROVE  ws' \in [Worker -> Work] /\ WorkAgrees'
<1> DEFINE k == [ws[w] EXCEPT !.todo = Tail(@), !.new = [@ EXCEPT ![i] = r]]
<1>1. ws[w] \in Work /\ WorkOK(ws[w]) /\ ws \in [Worker -> Work]
  BY DEF TypeOK, WorkAgrees
<1>2. ws[w].todo \in Seq(Invoice) /\ ws[w].new \in [Invoice -> InvoiceRow]
  BY <1>1 DEF Work
<1>3. Tail(ws[w].todo) \in Seq(Invoice) BY <1>2
<1>4. [ws[w].new EXCEPT ![i] = r] \in [Invoice -> InvoiceRow] BY <1>2
<1>5. k \in Work BY <1>1, <1>3, <1>4 DEF Work
<1>6. k.new = [ws[w].new EXCEPT ![i] = r] /\ k.at = ws[w].at /\ k.doc = ws[w].doc
      /\ k.seen = ws[w].seen
  BY <1>1 DEF Work
<1>7. ASSUME NEW j \in Invoice PROVE RowAgrees(k.new[j])
  <2>1. CASE j = i
    <3>1. k.new[j] = r BY <1>2, <1>6, <2>1
    <3> QED BY <3>1
  <2>2. CASE j # i
    <3>1. k.new[j] = ws[w].new[j] BY <1>2, <1>6, <2>2
    <3> QED BY <3>1, <1>1 DEF WorkOK
  <2> QED BY <2>1, <2>2
<1>8. WorkOK(k) BY <1>1, <1>6, <1>7 DEF WorkOK
<1>9. ws' = [ws EXCEPT ![w] = k] BY <1>1 DEF Updated, Work
<1> HIDE DEF k
<1> QED BY <1>1, <1>5, <1>8, <1>9, SetWork

-----------------------------------------------------------------------------
(* One lemma per action.                                                   *)

(* What an action that leaves the work in progress alone has to show.      *)
LEMMA WorkUntouched ==
  ASSUME ConstantsOK, TypeOK, WorkAgrees, UNCHANGED <<lock, ws>>
  PROVE  /\ lock' \in [Row -> Worker \cup {Nobody}]
         /\ ws' \in [Worker -> Work] /\ WorkAgrees'
<1>1. ws' = ws /\ lock' = lock OBVIOUS
<1>2. ASSUME NEW w \in Worker PROVE WorkOK(ws'[w])
  BY <1>1 DEF WorkAgrees
<1> QED BY <1>1, <1>2 DEF TypeOK, WorkAgrees, WorkOK, RowAgrees

LEMMA RowsUntouched ==
  ASSUME TypeOK, StatusFollowsMoney, rows' = rows
  PROVE  rows' \in [Invoice -> InvoiceRow] /\ StatusFollowsMoney'
BY DEF TypeOK, StatusFollowsMoney, RowAgrees

LEMMA CreateKeepsInv ==
  ASSUME ConstantsOK, Inv, NEW i \in Invoice, CreateInvoice(i) PROVE Inv'
<1> USE DEF Inv
<1>1. PICK t \in LineTotal, d \in Day :
        rows' = [rows EXCEPT ![i] = [NoRow EXCEPT !.status = "draft", !.total = t,
                                                  !.due = t, !.dueDay = d]]
  BY DEF CreateInvoice
<1> DEFINE r == [NoRow EXCEPT !.status = "draft", !.total = t, !.due = t, !.dueDay = d]
<1>2. NoRow \in InvoiceRow BY NoRowOK
<1>3. t \in Nat /\ "draft" \in Status BY DEF ConstantsOK, Status
<1>4. r \in InvoiceRow BY <1>2, <1>3 DEF InvoiceRow
<1>5. RowAgrees(r)
  <2>1. r.status = "draft" /\ r.total = t /\ r.paid = 0 /\ r.due = t
    BY DEF NoRow
  <2> HIDE DEF r
  <2> QED BY <2>1, <1>3 DEF RowAgrees
<1>6. rows' = [rows EXCEPT ![i] = r] BY <1>1
<1> HIDE DEF r
<1>7. rows' \in [Invoice -> InvoiceRow] /\ StatusFollowsMoney'
  BY <1>4, <1>5, <1>6, SetRow DEF TypeOK
<1>8. UNCHANGED <<books, receipt, applied, refunded, lastNumber, today, lock, ws>>
  BY DEF CreateInvoice
<1>9. /\ lock' \in [Row -> Worker \cup {Nobody}]
      /\ ws' \in [Worker -> Work] /\ WorkAgrees'
  BY <1>8, WorkUntouched
<1> QED BY <1>7, <1>8, <1>9 DEF TypeOK

LEMMA ReadForEditKeepsInv ==
  ASSUME ConstantsOK, Inv, NEW w \in Worker, ReadForEdit(w) PROVE Inv'
<1> USE DEF Inv
<1>1. PICK i \in Invoice :
        /\ rows[i].status = "draft"
        /\ ws' = [ws EXCEPT ![w] =
                    [Idle EXCEPT !.at = "edit", !.doc = i, !.seen = rows[i]]]
  BY DEF ReadForEdit
<1> DEFINE k == [Idle EXCEPT !.at = "edit", !.doc = i, !.seen = rows[i]]
<1>2. rows[i] \in InvoiceRow BY DEF TypeOK
<1>3. Idle \in Work /\ WorkOK(Idle) BY IdleOK
<1>4. k \in Work BY <1>2, <1>3 DEF Work, Row
<1>5. k.new = Idle.new /\ k.at = "edit" /\ k.doc = i /\ k.seen = rows[i]
  BY <1>3 DEF Work
<1>6. WorkOK(k)
  <2>1. RowAgrees(rows[i]) BY DEF StatusFollowsMoney
  <2>2. rows[i].paid = 0 BY <1>1, <2>1 DEF RowAgrees
  <2>3. \A j \in Invoice : RowAgrees(k.new[j]) BY <1>3, <1>5 DEF WorkOK
  <2> HIDE DEF k
  <2> QED BY <1>1, <1>5, <2>2, <2>3 DEF WorkOK
<1>7. ws' = [ws EXCEPT ![w] = k] BY <1>1
<1> HIDE DEF k
<1>8. ws' \in [Worker -> Work] /\ WorkAgrees'
  BY <1>4, <1>6, <1>7, SetWork DEF TypeOK
<1>9. UNCHANGED <<rows, books, receipt, applied, refunded, lastNumber, today, lock>>
  BY DEF ReadForEdit
<1>10. rows' \in [Invoice -> InvoiceRow] /\ StatusFollowsMoney'
  BY <1>9, RowsUntouched
<1> QED BY <1>8, <1>9, <1>10 DEF TypeOK

LEMMA WriteEditKeepsInv ==
  ASSUME ConstantsOK, Inv, NEW w \in Worker, WriteEdit(w) PROVE Inv'
<1> USE DEF Inv
<1> DEFINE i == ws[w].doc
           seen == ws[w].seen
<1>1. ws[w] \in Work /\ WorkOK(ws[w]) /\ ws[w].at = "edit"
  BY DEF TypeOK, WorkAgrees, WriteEdit
<1>2. i \in Invoice /\ seen \in InvoiceRow /\ seen.status = "draft"
      /\ seen.paid = 0
  BY <1>1 DEF WorkOK, Work
<1>3. PICK t \in LineTotal \cup {rows[i].total}, d \in Day :
        seen.paid <= t /\ rows' = [rows EXCEPT ![i] = EditedRow(seen, t, d)]
  BY DEF WriteEdit
<1>4. t \in Nat
  <2>1. rows[i].total \in Nat BY <1>2 DEF TypeOK, InvoiceRow
  <2> QED BY <2>1 DEF ConstantsOK
<1> HIDE DEF seen
<1>5. EditedRow(seen, t, d) \in InvoiceRow
  <2>1. seen.paid \in Nat BY <1>2 DEF InvoiceRow
  <2>2. t - seen.paid \in Nat BY <1>3, <1>4, <2>1
  <2> QED BY <1>2, <1>4, <2>2 DEF EditedRow, InvoiceRow
<1>6. RowAgrees(EditedRow(seen, t, d))
  <2>1. seen.paid \in Nat BY <1>2 DEF InvoiceRow
  <2>2. /\ EditedRow(seen, t, d).status = "draft"
        /\ EditedRow(seen, t, d).total = t
        /\ EditedRow(seen, t, d).paid = seen.paid
        /\ EditedRow(seen, t, d).due = t - seen.paid
    BY <1>2 DEF EditedRow, InvoiceRow
  <2> QED BY <2>1, <2>2, <1>2, <1>3, <1>4 DEF RowAgrees
<1>7. rows' \in [Invoice -> InvoiceRow] /\ StatusFollowsMoney'
  BY <1>2, <1>3, <1>5, <1>6, SetRow DEF TypeOK
<1>8. End(w) /\ UNCHANGED <<books, receipt, applied, refunded, lastNumber, today>>
  BY DEF WriteEdit
<1>9. /\ lock' \in [Row -> Worker \cup {Nobody}]
      /\ ws' \in [Worker -> Work] /\ WorkAgrees'
  BY <1>8, EndOK
<1> QED BY <1>7, <1>8, <1>9 DEF TypeOK

LEMMA IssueKeepsInv ==
  ASSUME ConstantsOK, Inv, NEW i \in Invoice, Issue(i) PROVE Inv'
<1> USE DEF Inv
<1> DEFINE r == [rows[i] EXCEPT !.status = "sent", !.number = lastNumber + 1,
                                !.entry = TRUE]
<1>1. rows[i] \in InvoiceRow /\ RowAgrees(rows[i]) /\ lastNumber \in Nat
  BY DEF TypeOK, StatusFollowsMoney
<1>2. rows' = [rows EXCEPT ![i] = r] BY DEF Issue, NextNumber, TypeOK
<1>3. r \in InvoiceRow
  <2>1. "sent" \in Status /\ lastNumber + 1 \in Nat BY <1>1 DEF Status
  <2> QED BY <1>1, <2>1 DEF InvoiceRow
<1>4. rows[i].status = "draft" /\ rows[i].total > 0 BY DEF Issue
<1>5. r.status = "sent" /\ r.total = rows[i].total /\ r.paid = rows[i].paid
      /\ r.due = rows[i].due
  BY <1>1 DEF InvoiceRow
<1> HIDE DEF r
<1>6. RowAgrees(r)
  <2>1. rows[i].total \in Nat /\ rows[i].paid \in Nat /\ rows[i].due \in Nat
    BY <1>1 DEF InvoiceRow
  <2>2. rows[i].paid = 0 /\ rows[i].due = rows[i].total - rows[i].paid
    BY <1>1, <1>4 DEF RowAgrees
  <2> QED BY <1>4, <1>5, <2>1, <2>2 DEF RowAgrees
<1>7. rows' \in [Invoice -> InvoiceRow] /\ StatusFollowsMoney'
  BY <1>2, <1>3, <1>6, SetRow DEF TypeOK
<1>8. lastNumber' \in Nat BY <1>1 DEF Issue, NextNumber
<1>9. books' \in [Invoice -> Books]
  <2>1. books \in [Invoice -> Books] BY DEF TypeOK
  <2>2. rows[i].total \in Nat /\ books[i].issue \in Nat
    BY <1>1, <2>1 DEF InvoiceRow, Books
  <2>3. books' = [books EXCEPT ![i].issue =
                    IF books[i].issue = 0 THEN rows[i].total ELSE books[i].issue]
    BY DEF Issue, PostIssue, NextNumber
  <2> QED BY <2>1, <2>2, <2>3 DEF Books
<1>10. UNCHANGED <<receipt, applied, refunded, today, lock, ws>> BY DEF Issue
<1>11. /\ lock' \in [Row -> Worker \cup {Nobody}]
       /\ ws' \in [Worker -> Work] /\ WorkAgrees'
  BY <1>10, WorkUntouched
<1> QED BY <1>7, <1>8, <1>9, <1>10, <1>11 DEF TypeOK

LEMMA VoidKeepsInv ==
  ASSUME ConstantsOK, Inv, NEW i \in Invoice, Void(i) PROVE Inv'
<1> USE DEF Inv
<1> DEFINE r == [rows[i] EXCEPT !.status = "voided"]
<1>1. rows[i] \in InvoiceRow /\ RowAgrees(rows[i])
  BY DEF TypeOK, StatusFollowsMoney
<1>2. rows' = [rows EXCEPT ![i] = r] BY DEF Void
<1>3. r \in InvoiceRow BY <1>1 DEF InvoiceRow, Status
<1>4. r.status = "voided" /\ r.total = rows[i].total /\ r.paid = rows[i].paid
      /\ r.due = rows[i].due
  BY <1>1 DEF InvoiceRow
<1> HIDE DEF r
<1>5. RowAgrees(r) BY <1>1, <1>4 DEF RowAgrees
<1>6. rows' \in [Invoice -> InvoiceRow] /\ StatusFollowsMoney'
  BY <1>2, <1>3, <1>5, SetRow DEF TypeOK
<1>7. books' \in [Invoice -> Books]
  <2>1. books \in [Invoice -> Books] BY DEF TypeOK
  <2>2. rows[i].entry \in BOOLEAN /\ books[i].withdrawn \in BOOLEAN
    BY <1>1, <2>1 DEF InvoiceRow, Books
  <2>3. (books[i].withdrawn \/ rows[i].entry) \in BOOLEAN BY <2>2
  <2>4. books' = [books EXCEPT ![i].withdrawn = books[i].withdrawn \/ rows[i].entry]
    BY DEF Void
  <2> QED BY <2>1, <2>3, <2>4 DEF Books
<1>8. UNCHANGED <<receipt, applied, refunded, lastNumber, today, lock, ws>>
  BY DEF Void
<1>9. /\ lock' \in [Row -> Worker \cup {Nobody}]
      /\ ws' \in [Worker -> Work] /\ WorkAgrees'
  BY <1>8, WorkUntouched
<1> QED BY <1>6, <1>7, <1>8, <1>9 DEF TypeOK

LEMMA WriteOffKeepsInv ==
  ASSUME ConstantsOK, Inv, NEW i \in Invoice, WriteOff(i) PROVE Inv'
<1> USE DEF Inv
<1> DEFINE r == [rows[i] EXCEPT !.status = "written_off", !.paid = rows[i].total,
                                !.due = 0]
<1>1. rows[i] \in InvoiceRow /\ rows[i].total \in Nat /\ rows[i].due \in Nat
  BY DEF TypeOK, InvoiceRow
<1>2. rows' = [rows EXCEPT ![i] = r] BY DEF WriteOff
<1>3. r \in InvoiceRow
  <2>1. "written_off" \in Status BY DEF Status
  <2> QED BY <1>1, <2>1 DEF InvoiceRow
<1>4. r.status = "written_off" /\ r.total = rows[i].total /\ r.paid = rows[i].total
      /\ r.due = 0
  BY <1>1 DEF InvoiceRow
<1> HIDE DEF r
<1>5. RowAgrees(r) BY <1>1, <1>4 DEF RowAgrees
<1>6. rows' \in [Invoice -> InvoiceRow] /\ StatusFollowsMoney'
  BY <1>2, <1>3, <1>5, SetRow DEF TypeOK
<1>7. books' \in [Invoice -> Books]
  <2>1. books \in [Invoice -> Books] BY DEF TypeOK
  <2>2. books[i].loss \in Nat BY <2>1 DEF Books
  <2>3. books' = [books EXCEPT ![i].loss =
                    IF books[i].loss = 0 THEN rows[i].due ELSE books[i].loss]
    BY DEF WriteOff
  <2> QED BY <1>1, <2>1, <2>2, <2>3 DEF Books
<1>8. UNCHANGED <<receipt, applied, refunded, lastNumber, today, lock, ws>>
  BY DEF WriteOff
<1>9. /\ lock' \in [Row -> Worker \cup {Nobody}]
      /\ ws' \in [Worker -> Work] /\ WorkAgrees'
  BY <1>8, WorkUntouched
<1> QED BY <1>6, <1>7, <1>8, <1>9 DEF TypeOK

LEMMA VoidFromLedgerKeepsInv ==
  ASSUME ConstantsOK, Inv, NEW i \in Invoice, VoidFromLedger(i) PROVE Inv'
<1> USE DEF Inv
<1>1. books' = [books EXCEPT ![i].withdrawn = TRUE]
      /\ UNCHANGED <<rows, receipt, applied, refunded, lastNumber, today, lock, ws>>
  BY DEF VoidFromLedger
<1>2. books' \in [Invoice -> Books] BY <1>1 DEF TypeOK, Books
<1>3. /\ lock' \in [Row -> Worker \cup {Nobody}]
      /\ ws' \in [Worker -> Work] /\ WorkAgrees'
  BY <1>1, WorkUntouched
<1>4. rows' \in [Invoice -> InvoiceRow] /\ StatusFollowsMoney'
  BY <1>1, RowsUntouched
<1> QED BY <1>1, <1>2, <1>3, <1>4 DEF TypeOK

LEMMA ReceiveKeepsInv ==
  ASSUME ConstantsOK, Inv, NEW p \in Payment, Receive(p) PROVE Inv'
<1> USE DEF Inv
<1>1. PICK a \in Amount : receipt' = [receipt EXCEPT ![p] =
         [status |-> IF p \in Gateway THEN "pending" ELSE "settled",
          amount |-> a, unapplied |-> a]]
  BY DEF Receive
<1>2. a \in Nat BY DEF ConstantsOK
<1>3. receipt' \in [Payment -> Receipt] BY <1>1, <1>2 DEF TypeOK, Receipt
<1>4. UNCHANGED <<rows, books, applied, refunded, lastNumber, today, lock, ws>>
  BY DEF Receive
<1>5. /\ lock' \in [Row -> Worker \cup {Nobody}]
      /\ ws' \in [Worker -> Work] /\ WorkAgrees'
  BY <1>4, WorkUntouched
<1>6. rows' \in [Invoice -> InvoiceRow] /\ StatusFollowsMoney'
  BY <1>4, RowsUntouched
<1> QED BY <1>3, <1>4, <1>5, <1>6 DEF TypeOK

LEMMA RefundKeepsInv ==
  ASSUME ConstantsOK, Inv, NEW p \in Payment, Refund(p) PROVE Inv'
<1> USE DEF Inv
<1>1. PICK a \in Amount : refunded' = [refunded EXCEPT ![p] = refunded[p] + a]
  BY DEF Refund
<1>2. a \in Nat /\ refunded[p] \in Nat BY DEF ConstantsOK, TypeOK
<1>3. refunded' \in [Payment -> Nat] BY <1>1, <1>2 DEF TypeOK
<1>4. UNCHANGED <<rows, books, receipt, applied, lastNumber, today, lock, ws>>
  BY DEF Refund
<1>5. /\ lock' \in [Row -> Worker \cup {Nobody}]
      /\ ws' \in [Worker -> Work] /\ WorkAgrees'
  BY <1>4, WorkUntouched
<1>6. rows' \in [Invoice -> InvoiceRow] /\ StatusFollowsMoney'
  BY <1>4, RowsUntouched
<1> QED BY <1>3, <1>4, <1>5, <1>6 DEF TypeOK

(* An order of the invoices of a request is a sequence of invoices.        *)
LEMMA OrderIsSeq ==
  ASSUME ConstantsOK, NEW S \in SUBSET Invoice, NEW order \in SetToSeqs(S)
  PROVE  order \in Seq(Invoice)
<1>1. IsFiniteSet(S) BY FS_Subset DEF ConstantsOK
<1>2. Cardinality(S) \in Nat BY <1>1, FS_CardinalityType
<1>3. order \in [1..Cardinality(S) -> S] BY DEF SetToSeqs
<1>4. order \in [1..Cardinality(S) -> Invoice] BY <1>3
<1> QED BY <1>2, <1>4

LEMMA BeginApplyKeepsInv ==
  ASSUME ConstantsOK, Inv, NEW w \in Worker, BeginApply(w) PROVE Inv'
<1> USE DEF Inv
<1>1. PICK p \in Payment, S \in SUBSET Invoice :
        \E f \in [S -> Amount], order \in SetToSeqs(S) :
          ws' = [ws EXCEPT ![w] = [Idle EXCEPT
                   !.at = "lock_receipt", !.doc = p, !.todo = order,
                   !.alloc = [i \in Invoice |-> IF i \in S THEN f[i] ELSE 0]]]
  BY DEF BeginApply
<1>2. PICK f \in [S -> Amount], order \in SetToSeqs(S) :
          ws' = [ws EXCEPT ![w] = [Idle EXCEPT
                   !.at = "lock_receipt", !.doc = p, !.todo = order,
                   !.alloc = [i \in Invoice |-> IF i \in S THEN f[i] ELSE 0]]]
  BY <1>1
<1> DEFINE alloc == [i \in Invoice |-> IF i \in S THEN f[i] ELSE 0]
           k == [Idle EXCEPT !.at = "lock_receipt", !.doc = p, !.todo = order,
                             !.alloc = alloc]
<1>3. order \in Seq(Invoice) BY OrderIsSeq
<1>4. alloc \in [Invoice -> Nat] BY DEF ConstantsOK
<1>5. Idle \in Work /\ WorkOK(Idle) BY IdleOK
<1>6. ws' = [ws EXCEPT ![w] = k] BY <1>2
<1> HIDE DEF alloc
<1>7. k \in Work BY <1>3, <1>4, <1>5 DEF Work, Row
<1>8. k.new = Idle.new /\ k.at = "lock_receipt" /\ k.doc = p BY <1>5 DEF Work
<1> HIDE DEF k
<1>9. WorkOK(k) BY <1>5, <1>8 DEF WorkOK
<1>10. ws' \in [Worker -> Work] /\ WorkAgrees'
  BY <1>6, <1>7, <1>9, SetWork DEF TypeOK
<1>11. UNCHANGED <<rows, books, receipt, applied, refunded, lastNumber, today, lock>>
  BY DEF BeginApply
<1>12. rows' \in [Invoice -> InvoiceRow] /\ StatusFollowsMoney'
  BY <1>11, RowsUntouched
<1> QED BY <1>10, <1>11, <1>12 DEF TypeOK

LEMMA LockReceiptKeepsInv ==
  ASSUME ConstantsOK, Inv, NEW w \in Worker, LockReceipt(w) PROVE Inv'
<1> USE DEF Inv
<1> DEFINE k == [ws[w] EXCEPT !.at = "settle"]
<1>1. ws[w] \in Work /\ WorkOK(ws[w]) /\ ws[w].at = "lock_receipt"
  BY DEF TypeOK, WorkAgrees, LockReceipt
<1>2. ws[w].doc \in Payment BY <1>1 DEF WorkOK
<1>3. k \in Work BY <1>1 DEF Work
<1>4. k.new = ws[w].new /\ k.at = "settle" /\ k.doc = ws[w].doc BY <1>1 DEF Work
<1>5. ws' = [ws EXCEPT ![w] = k] BY DEF LockReceipt
<1> HIDE DEF k
<1>6. WorkOK(k) BY <1>1, <1>2, <1>4 DEF WorkOK
<1>7. ws' \in [Worker -> Work] /\ WorkAgrees'
  BY <1>3, <1>5, <1>6, SetWork DEF TypeOK
<1>8. lock' \in [Row -> Worker \cup {Nobody}]
  BY <1>2, TakeTyped DEF LockReceipt, Take, TypeOK, Row
<1>9. UNCHANGED <<rows, books, receipt, applied, refunded, lastNumber, today>>
  BY DEF LockReceipt
<1>10. rows' \in [Invoice -> InvoiceRow] /\ StatusFollowsMoney'
  BY <1>9, RowsUntouched
<1> QED BY <1>7, <1>8, <1>9, <1>10 DEF TypeOK

(* The row apply_payment writes: the recomputed cash lies between nothing  *)
(* and the total, which is what SettledStatus distinguishes.               *)
LEMMA SettledRowOK ==
  ASSUME TypeOK, NEW w \in Worker, NEW i \in Invoice, Settles(w, i)
  PROVE  SettledRow(w, i) \in InvoiceRow /\ RowAgrees(SettledRow(w, i))
<1> DEFINE cash == Cash(w, i)
           total == rows[i].total
           late == rows[i].dueDay < today
           s == SettledStatus(total, cash, late)
<1>1. rows[i] \in InvoiceRow /\ total \in Nat BY DEF TypeOK, InvoiceRow
<1>2. cash \in Nat /\ cash <= total BY <1>1 DEF Settles
<1>3. late \in BOOLEAN OBVIOUS
<1>4. SettledRow(w, i) = [rows[i] EXCEPT !.paid = cash, !.due = total - cash,
                                         !.status = s]
  BY DEF SettledRow
<1> HIDE DEF cash, total, late
<1>5. /\ s \in {"paid", "overdue", "partially_paid", "sent"}
      /\ s = "paid" => cash = total
      /\ s = "overdue" => cash < total
      /\ s = "partially_paid" => 0 < cash /\ cash < total
      /\ s = "sent" => cash = 0 /\ cash < total
  BY <1>1, <1>2, <1>3 DEF SettledStatus
<1> HIDE DEF s
<1>6. s \in Status BY <1>5 DEF Status
<1>7. total - cash \in Nat BY <1>1, <1>2
<1>8. SettledRow(w, i) \in InvoiceRow
  BY <1>1, <1>2, <1>4, <1>6, <1>7 DEF InvoiceRow
<1>9. /\ SettledRow(w, i).status = s /\ SettledRow(w, i).paid = cash
      /\ SettledRow(w, i).due = total - cash /\ SettledRow(w, i).total = total
  BY <1>1, <1>4 DEF InvoiceRow, total
<1>10. RowAgrees(SettledRow(w, i)) BY <1>1, <1>2, <1>5, <1>9 DEF RowAgrees
<1> QED BY <1>8, <1>10

LEMMA NextInvoice ==
  ASSUME TypeOK, NEW w \in Worker, ws[w].todo # <<>>
  PROVE  Head(ws[w].todo) \in Invoice
<1>1. ws[w] \in Work BY DEF TypeOK
<1>2. ws[w].todo \in Seq(Invoice) BY <1>1 DEF Work
<1> QED BY <1>2

LEMMA SettleInvoiceKeepsInv ==
  ASSUME ConstantsOK, Inv, NEW w \in Worker, SettleInvoice(w) PROVE Inv'
<1> USE DEF Inv
<1> DEFINE i == Head(ws[w].todo)
<1>1. ws[w].at = "settle" /\ ws[w].todo # <<>> /\ Take(w, i) /\ Settles(w, i)
      /\ Updated(w, i, SettledRow(w, i))
  BY DEF SettleInvoice
<1>2. i \in Invoice BY <1>1, NextInvoice
<1> HIDE DEF i
<1>3. SettledRow(w, i) \in InvoiceRow /\ RowAgrees(SettledRow(w, i))
  BY <1>1, <1>2, SettledRowOK
<1>4. ws' \in [Worker -> Work] /\ WorkAgrees' BY <1>1, <1>2, <1>3, UpdatedOK
<1>5. lock' \in [Row -> Worker \cup {Nobody}]
  BY <1>1, <1>2, TakeTyped DEF Take, TypeOK, Row
<1>6. UNCHANGED <<rows, books, receipt, applied, refunded, lastNumber, today>>
  BY DEF SettleInvoice
<1>7. rows' \in [Invoice -> InvoiceRow] /\ StatusFollowsMoney'
  BY <1>6, RowsUntouched
<1> QED BY <1>4, <1>5, <1>6, <1>7 DEF TypeOK

LEMMA CommitApplyKeepsInv ==
  ASSUME ConstantsOK, Inv, NEW w \in Worker, CommitApply(w) PROVE Inv'
<1> USE DEF Inv
<1> DEFINE p == ws[w].doc
           alloc == ws[w].alloc
           left == Leftover(w, p)
<1>1. ws[w] \in Work /\ WorkOK(ws[w]) /\ ws[w].at = "settle"
  BY DEF TypeOK, WorkAgrees, CommitApply
<1>2. p \in Payment /\ alloc \in [Invoice -> Nat] BY <1>1 DEF WorkOK, Work
<1>3. /\ left \in 0..receipt[p].amount
      /\ applied' = [applied EXCEPT ![p] = [i \in Invoice |-> applied[p][i] + alloc[i]]]
      /\ receipt' = [receipt EXCEPT ![p].unapplied = left]
  BY <1>2 DEF CommitApply, TypeOK
<1> HIDE DEF p, alloc, left
<1>4. applied' \in [Payment -> [Invoice -> Nat]]
  <2>1. \A i \in Invoice : applied[p][i] + alloc[i] \in Nat BY <1>2 DEF TypeOK
  <2>2. [i \in Invoice |-> applied[p][i] + alloc[i]] \in [Invoice -> Nat] BY <2>1
  <2> QED BY <1>3, <2>2 DEF TypeOK
<1>5. receipt' \in [Payment -> Receipt]
  <2>1. receipt[p].amount \in Nat BY <1>2 DEF TypeOK, Receipt
  <2>2. left \in Nat BY <1>3, <2>1
  <2>3. receipt \in [Payment -> Receipt] BY DEF TypeOK
  <2>4. [receipt[p] EXCEPT !.unapplied = left] \in Receipt
    BY ONLY <1>2, <2>2, <2>3 DEF Receipt
  <2>5. receipt' = [receipt EXCEPT ![p] = [receipt[p] EXCEPT !.unapplied = left]]
    BY <1>3, <2>3
  <2> QED BY ONLY <1>2, <2>3, <2>4, <2>5
<1>6. WriteRows(w) /\ End(w) /\ UNCHANGED <<books, refunded, lastNumber, today>>
  BY DEF CommitApply
<1>7. rows' \in [Invoice -> InvoiceRow] /\ StatusFollowsMoney' BY <1>6, WriteRowsOK
<1>8. /\ lock' \in [Row -> Worker \cup {Nobody}]
      /\ ws' \in [Worker -> Work] /\ WorkAgrees'
  BY <1>6, EndOK
<1> QED BY <1>4, <1>5, <1>6, <1>7, <1>8 DEF TypeOK

LEMMA BeginSweepKeepsInv ==
  ASSUME ConstantsOK, Inv, NEW w \in Worker, BeginSweep(w) PROVE Inv'
<1> USE DEF Inv
<1>1. PICK order \in SetToSeqs({i \in Invoice : BecameLate(rows[i], today)}) :
       ws' = [ws EXCEPT ![w] = [Idle EXCEPT !.at = "mark", !.todo = order,
                                            !.asOf = today]]
  BY DEF BeginSweep
<1> DEFINE k == [Idle EXCEPT !.at = "mark", !.todo = order, !.asOf = today]
<1>2. {i \in Invoice : BecameLate(rows[i], today)} \in SUBSET Invoice OBVIOUS
<1>3. order \in Seq(Invoice) BY <1>2, OrderIsSeq
<1>4. Idle \in Work /\ WorkOK(Idle) BY IdleOK
<1>5. today \in Day BY DEF TypeOK
<1>6. ws' = [ws EXCEPT ![w] = k] BY <1>1
<1>7. k \in Work BY <1>3, <1>4, <1>5 DEF Work
<1>8. k.new = Idle.new /\ k.at = "mark" BY <1>4 DEF Work
<1> HIDE DEF k
<1>9. WorkOK(k) BY <1>4, <1>8 DEF WorkOK
<1>10. ws' \in [Worker -> Work] /\ WorkAgrees'
  BY <1>6, <1>7, <1>9, SetWork DEF TypeOK
<1>11. UNCHANGED <<rows, books, receipt, applied, refunded, lastNumber, today, lock>>
  BY DEF BeginSweep
<1>12. rows' \in [Invoice -> InvoiceRow] /\ StatusFollowsMoney'
  BY <1>11, RowsUntouched
<1> QED BY <1>10, <1>11, <1>12 DEF TypeOK

(* Both statements of the sweep write a row that differs in its status.    *)
LEMMA MarkOverdueKeepsInv ==
  ASSUME ConstantsOK, Inv, NEW w \in Worker, MarkOverdue(w) PROVE Inv'
<1> USE DEF Inv
<1> DEFINE i == Head(ws[w].todo)
           r == IF BecameLate(rows[i], ws[w].asOf)
                THEN [rows[i] EXCEPT !.status = "overdue"] ELSE rows[i]
<1>1. ws[w].at = "mark" /\ ws[w].todo # <<>> /\ TakeNext(w, i) /\ Updated(w, i, r)
  BY DEF MarkOverdue
<1>2. i \in Invoice BY <1>1, NextInvoice
<1> HIDE DEF i
<1>3. rows[i] \in InvoiceRow /\ RowAgrees(rows[i])
  BY <1>2 DEF TypeOK, StatusFollowsMoney
<1>4. r \in InvoiceRow /\ RowAgrees(r)
  <2>1. CASE BecameLate(rows[i], ws[w].asOf)
    <3> DEFINE q == [rows[i] EXCEPT !.status = "overdue"]
    <3>1. r = q BY <2>1
    <3>2. q \in InvoiceRow BY <1>3 DEF InvoiceRow, Status
    <3>3. q.status = "overdue" /\ q.total = rows[i].total /\ q.paid = rows[i].paid
          /\ q.due = rows[i].due
      BY <1>3 DEF InvoiceRow
    <3> HIDE DEF q
    <3>4. RowAgrees(q) BY <1>3, <2>1, <3>3 DEF RowAgrees, BecameLate
    <3> QED BY <3>1, <3>2, <3>4
  <2>2. CASE ~BecameLate(rows[i], ws[w].asOf)
    <3>1. r = rows[i] BY <2>2
    <3> QED BY <3>1, <1>3
  <2> QED BY <2>1, <2>2
<1> HIDE DEF r
<1>5. ws' \in [Worker -> Work] /\ WorkAgrees' BY <1>1, <1>2, <1>4, UpdatedOK
<1>6. lock' \in [Row -> Worker \cup {Nobody}]
  BY <1>1, <1>2, TakeTyped DEF TakeNext, TypeOK, Row
<1>7. UNCHANGED <<rows, books, receipt, applied, refunded, lastNumber, today>>
  BY DEF MarkOverdue
<1>8. rows' \in [Invoice -> InvoiceRow] /\ StatusFollowsMoney'
  BY <1>7, RowsUntouched
<1> QED BY <1>5, <1>6, <1>7, <1>8 DEF TypeOK

LEMMA CurrentOK ==
  ASSUME Inv, NEW w \in Worker, NEW i \in Invoice
  PROVE  Current(w, i) \in InvoiceRow /\ RowAgrees(Current(w, i))
<1>1. ws[w] \in Work /\ WorkOK(ws[w]) BY DEF Inv, TypeOK, WorkAgrees
<1>2. ws[w].new[i] \in InvoiceRow /\ RowAgrees(ws[w].new[i])
  BY <1>1 DEF WorkOK, Work
<1>3. rows[i] \in InvoiceRow /\ RowAgrees(rows[i])
  BY DEF Inv, TypeOK, StatusFollowsMoney
<1>4. CASE ws[w].new[i] = NoRow
  <2>1. Current(w, i) = rows[i] BY <1>4 DEF Current
  <2> QED BY <2>1, <1>3
<1>5. CASE ws[w].new[i] # NoRow
  <2>1. Current(w, i) = ws[w].new[i] BY <1>5 DEF Current
  <2> QED BY <2>1, <1>2
<1> QED BY <1>4, <1>5

LEMMA SecondUpdateKeepsInv ==
  ASSUME ConstantsOK, Inv, NEW w \in Worker, SecondUpdate(w) PROVE Inv'
<1> USE DEF Inv
<1> DEFINE S == {i \in Invoice : NoLongerLate(Current(w, i), ws[w].asOf)}
<1>1. PICK order \in SetToSeqs(S) :
        ws' = [ws EXCEPT ![w].at = "unmark", ![w].todo = order]
  BY DEF SecondUpdate
<1>2. S \in SUBSET Invoice OBVIOUS
<1> HIDE DEF S
<1>3. order \in Seq(Invoice) BY <1>2, OrderIsSeq
<1>4. ws[w] \in Work /\ WorkOK(ws[w]) BY DEF TypeOK, WorkAgrees
<1> DEFINE k == [ws[w] EXCEPT !.at = "unmark", !.todo = order]
<1>5. ws' = [ws EXCEPT ![w] = k] BY <1>1 DEF TypeOK
<1>6. k \in Work BY <1>3, <1>4 DEF Work
<1>7. k.new = ws[w].new /\ k.at = "unmark" BY <1>4 DEF Work
<1> HIDE DEF k
<1>8. WorkOK(k) BY <1>4, <1>7 DEF WorkOK
<1>9. ws' \in [Worker -> Work] /\ WorkAgrees'
  BY <1>5, <1>6, <1>8, SetWork DEF TypeOK
<1>10. UNCHANGED <<rows, books, receipt, applied, refunded, lastNumber, today, lock>>
  BY DEF SecondUpdate
<1>11. rows' \in [Invoice -> InvoiceRow] /\ StatusFollowsMoney'
  BY <1>10, RowsUntouched
<1> QED BY <1>9, <1>10, <1>11 DEF TypeOK

LEMMA UnmarkOverdueKeepsInv ==
  ASSUME ConstantsOK, Inv, NEW w \in Worker, UnmarkOverdue(w) PROVE Inv'
<1> DEFINE i == Head(ws[w].todo)
           c == Current(w, i)
           r == IF NoLongerLate(c, ws[w].asOf)
                THEN [c EXCEPT !.status = StatusAfterOverdue(c)] ELSE c
<1>1. ws[w].at = "unmark" /\ ws[w].todo # <<>> /\ TakeNext(w, i) /\ Updated(w, i, r)
  BY DEF UnmarkOverdue
<1>2. i \in Invoice BY <1>1, NextInvoice DEF Inv
<1> HIDE DEF i
<1>3. c \in InvoiceRow /\ RowAgrees(c) BY <1>2, CurrentOK
<1> HIDE DEF c
<1>4. r \in InvoiceRow /\ RowAgrees(r)
  <2>1. CASE NoLongerLate(c, ws[w].asOf)
    <3> DEFINE s == StatusAfterOverdue(c)
               q == [c EXCEPT !.status = s]
    <3>1. r = q BY <2>1
    <3>2. c.total \in Nat /\ c.paid \in Nat /\ c.due \in Nat BY <1>3 DEF InvoiceRow
    <3>3. /\ s \in {"paid", "partially_paid", "sent"}
          /\ s = "paid" => c.due = 0
          /\ s = "partially_paid" => c.due > 0 /\ c.paid > 0
          /\ s = "sent" => c.due > 0 /\ c.paid = 0
      BY <3>2 DEF StatusAfterOverdue
    <3> HIDE DEF s
    <3>4. s \in Status BY <3>3 DEF Status
    <3>5. q \in InvoiceRow BY <1>3, <3>4 DEF InvoiceRow
    <3>6. q.status = s /\ q.total = c.total /\ q.paid = c.paid /\ q.due = c.due
      BY <1>3 DEF InvoiceRow
    <3> HIDE DEF q
    <3>7. RowAgrees(q) BY <1>3, <3>2, <3>3, <3>6 DEF RowAgrees
    <3> QED BY <3>1, <3>5, <3>7
  <2>2. CASE ~NoLongerLate(c, ws[w].asOf)
    <3>1. r = c BY <2>2
    <3> QED BY <3>1, <1>3
  <2> QED BY <2>1, <2>2
<1> HIDE DEF r
<1>5. ws' \in [Worker -> Work] /\ WorkAgrees'
  BY <1>1, <1>2, <1>4, UpdatedOK DEF Inv
<1>6. lock' \in [Row -> Worker \cup {Nobody}]
  BY <1>1, <1>2, TakeTyped DEF TakeNext, Inv, TypeOK, Row
<1>7. UNCHANGED <<rows, books, receipt, applied, refunded, lastNumber, today>>
  BY DEF UnmarkOverdue
<1>8. rows' \in [Invoice -> InvoiceRow] /\ StatusFollowsMoney'
  BY <1>7, RowsUntouched DEF Inv
<1> QED BY <1>5, <1>6, <1>7, <1>8 DEF Inv, TypeOK

LEMMA CommitSweepKeepsInv ==
  ASSUME ConstantsOK, Inv, NEW w \in Worker, CommitSweep(w) PROVE Inv'
<1> USE DEF Inv
<1>1. /\ WriteRows(w) /\ End(w)
      /\ UNCHANGED <<books, receipt, applied, refunded, lastNumber, today>>
  BY DEF CommitSweep
<1>2. rows' \in [Invoice -> InvoiceRow] /\ StatusFollowsMoney' BY <1>1, WriteRowsOK
<1>3. /\ lock' \in [Row -> Worker \cup {Nobody}]
      /\ ws' \in [Worker -> Work] /\ WorkAgrees'
  BY <1>1, EndOK
<1> QED BY <1>1, <1>2, <1>3 DEF TypeOK

LEMMA RollbackKeepsInv ==
  ASSUME ConstantsOK, Inv, NEW w \in Worker, Rollback(w) PROVE Inv'
<1> USE DEF Inv
<1>1. End(w) /\ UNCHANGED <<rows, books, receipt, applied, refunded, lastNumber, today>>
  BY DEF Rollback
<1>2. rows' \in [Invoice -> InvoiceRow] /\ StatusFollowsMoney' BY <1>1, RowsUntouched
<1>3. /\ lock' \in [Row -> Worker \cup {Nobody}]
      /\ ws' \in [Worker -> Work] /\ WorkAgrees'
  BY <1>1, EndOK
<1> QED BY <1>1, <1>2, <1>3 DEF TypeOK

LEMMA TickKeepsInv == ASSUME ConstantsOK, Inv, Tick PROVE Inv'
<1> USE DEF Inv
<1>1. today' \in Day BY DEF Tick, TypeOK, Day, ConstantsOK
<1>2. UNCHANGED <<rows, books, receipt, applied, refunded, lastNumber, lock, ws>>
  BY DEF Tick
<1>3. rows' \in [Invoice -> InvoiceRow] /\ StatusFollowsMoney' BY <1>2, RowsUntouched
<1>4. /\ lock' \in [Row -> Worker \cup {Nobody}]
      /\ ws' \in [Worker -> Work] /\ WorkAgrees'
  BY <1>2, WorkUntouched
<1> QED BY <1>1, <1>2, <1>3, <1>4 DEF TypeOK

-----------------------------------------------------------------------------
(* The invariant holds at the start and every step keeps it.               *)

LEMMA InitInv == ConstantsOK /\ Init => Inv
<1> SUFFICES ASSUME ConstantsOK, Init PROVE Inv
  OBVIOUS
<1>1. NoRow \in InvoiceRow /\ RowAgrees(NoRow) BY NoRowOK
<1>2. Idle \in Work /\ WorkOK(Idle) BY IdleOK
<1>3. rows \in [Invoice -> InvoiceRow] BY <1>1 DEF Init
<1>4. StatusFollowsMoney BY <1>1 DEF Init, StatusFollowsMoney
<1>5. ws \in [Worker -> Work] /\ WorkAgrees BY <1>2 DEF Init, WorkAgrees
<1>6. books \in [Invoice -> Books] /\ receipt \in [Payment -> Receipt]
  BY DEF Init, Books, Receipt
<1>7. applied \in [Payment -> [Invoice -> Nat]] /\ refunded \in [Payment -> Nat]
      /\ lastNumber \in Nat
  BY DEF Init
<1>8. today \in Day BY DEF Init, Day, ConstantsOK
<1>9. lock \in [Row -> Worker \cup {Nobody}] BY DEF Init
<1> QED BY <1>3, <1>4, <1>5, <1>6, <1>7, <1>8, <1>9 DEF Inv, TypeOK

LEMMA NextKeepsInv == ASSUME ConstantsOK, Inv, [Next]_vars PROVE Inv'
<1>1. ASSUME NEW i \in Invoice,
             CreateInvoice(i) \/ Issue(i) \/ Void(i) \/ WriteOff(i) \/ VoidFromLedger(i)
      PROVE  Inv'
  BY <1>1, CreateKeepsInv, IssueKeepsInv, VoidKeepsInv, WriteOffKeepsInv,
     VoidFromLedgerKeepsInv
<1>2. ASSUME NEW p \in Payment, Receive(p) \/ Refund(p) PROVE Inv'
  BY <1>2, ReceiveKeepsInv, RefundKeepsInv
<1>3. ASSUME NEW w \in Worker, Apply(w) PROVE Inv'
  BY <1>3, BeginApplyKeepsInv, LockReceiptKeepsInv, SettleInvoiceKeepsInv,
     CommitApplyKeepsInv DEF Apply
<1>4. ASSUME NEW w \in Worker, Edit(w) PROVE Inv'
  BY <1>4, ReadForEditKeepsInv, WriteEditKeepsInv DEF Edit
<1>5. ASSUME NEW w \in Worker, Sweep(w) PROVE Inv'
  BY <1>5, BeginSweepKeepsInv, MarkOverdueKeepsInv, SecondUpdateKeepsInv,
     UnmarkOverdueKeepsInv, CommitSweepKeepsInv DEF Sweep
<1>6. ASSUME NEW w \in Worker, Refuse(w) \/ AbortDeadlock(w) \/ Crash(w) PROVE Inv'
  <2>1. Rollback(w) BY <1>6 DEF Refuse, AbortDeadlock, Crash
  <2> QED BY <2>1, RollbackKeepsInv
<1>7. CASE Tick BY <1>7, TickKeepsInv
<1>8. CASE UNCHANGED vars
  <2>1. UNCHANGED <<rows, books, receipt, applied, refunded, lastNumber, today, lock, ws>>
    BY <1>8 DEF vars
  <2>2. rows' \in [Invoice -> InvoiceRow] /\ StatusFollowsMoney'
    BY <2>1, RowsUntouched DEF Inv
  <2>3. /\ lock' \in [Row -> Worker \cup {Nobody}]
        /\ ws' \in [Worker -> Work] /\ WorkAgrees'
    BY <2>1, WorkUntouched DEF Inv
  <2> QED BY <2>1, <2>2, <2>3 DEF Inv, TypeOK
<1> QED BY <1>1, <1>2, <1>3, <1>4, <1>5, <1>6, <1>7, <1>8 DEF Next

LEMMA InvAlways == Spec => []Inv
<1>1. Init => Inv BY ConstantsOK, InitInv
<1>2. Inv /\ [Next]_vars => Inv' BY ConstantsOK, NextKeepsInv
<1> QED BY <1>1, <1>2, PTL DEF Spec

(* Types: whatever requests run beside each other and whichever of them    *)
(* fail, every stored amount is a natural number.  What is due never goes  *)
(* below zero: neither an allocation, nor a write-off, nor the edit of a   *)
(* draft takes more from an invoice than it comes to.                      *)
THEOREM Types == Spec => []TypeOK
<1>1. Inv => TypeOK BY DEF Inv
<1> QED BY <1>1, InvAlways, PTL

(* The status of every invoice says how its money stands: apply_payment,   *)
(* both statements of the overdue sweep, the write-off and a saved draft   *)
(* always leave a row whose columns agree.                                 *)
THEOREM StatusesFollowMoney == Spec => []StatusFollowsMoney
<1>1. Inv => StatusFollowsMoney BY DEF Inv
<1> QED BY <1>1, InvAlways, PTL

-----------------------------------------------------------------------------
(* The money.  What requests are about to write has to be described too:   *)
(* a row that a request has prepared belongs to an invoice it has locked,  *)
(* so nobody changes the invoice or what was applied to it before the      *)
(* request commits; and whatever it allocates is prepared by then.         *)
(* What is left to pay, is being paid or was paid.                         *)
Owed == {"sent", "partially_paid", "overdue", "paid"}

SameBill(r, s) == s.total = r.total /\ s.number = r.number /\ s.entry = r.entry

(* The row r of an invoice, what the ledger holds of it, and what was      *)
(* applied to it.                                                          *)
Agreed(r, b, cash) ==
  /\ r.status \in {"absent", "draft"} <=> r.number = 0
  /\ r.number = 0 => b.issue = 0
  /\ r.number # 0 => r.entry = TRUE /\ b.issue = r.total
  /\ r.status = "absent" => r.paid = 0
  /\ r.status # "written_off" => r.paid = cash /\ b.loss = 0
  /\ r.status = "written_off" => r.total = cash + b.loss
  /\ r.status = "voided" => cash = 0 /\ b.withdrawn = TRUE

RowMoney(i) == Agreed(rows[i], books[i], AppliedTo(i))

ReceiptMoney(p) ==
  /\ receipt[p].amount = receipt[p].unapplied + AppliedFrom(p)
  /\ receipt[p].status = "absent" => \A i \in Invoice : applied[p][i] = 0

(* The row n that a request prepares of r.                                 *)
Settled(r, n, cash) ==
  Open(r) /\ n.status \in Owed /\ SameBill(r, n) /\ n.paid = cash
Swept(r, n) == n = r \/ Settled(r, n, r.paid)

Prepared(w, i) ==
  /\ Exists(i) /\ lock[i] = w
  /\ ws[w].at = "settle" =>
       /\ ws[w].alloc[i] > 0
       /\ Settled(rows[i], ws[w].new[i], AppliedTo(i) + ws[w].alloc[i])
  /\ ws[w].at # "settle" =>
       ws[w].at \in {"mark", "unmark"} /\ Swept(rows[i], ws[w].new[i])

Listed(k, i) == \E n \in 1..Len(k.todo) : k.todo[n] = i

(* What an allocation asks for and has not prepared is on its list.        *)
Asks(k) == \A i \in Invoice :
  /\ k.alloc[i] > 0 => k.new[i] # NoRow \/ Listed(k, i)
  /\ Listed(k, i) => k.alloc[i] > 0

WorkMoney(w) ==
  /\ ws[w].at = "edit" =>
       w \in Editor /\ rows[ws[w].doc].status = "draft" /\ ws[w].seen.number = 0
  /\ ws[w].at \in {"lock_receipt", "settle"} =>
       receipt[ws[w].doc].status # "absent" /\ Asks(ws[w])
  /\ \A i \in Invoice : Listed(ws[w], i) => Exists(i)
  /\ \A i \in Invoice : ws[w].new[i] # NoRow => Prepared(w, i)

Numbered ==
  /\ \A n \in 1..lastNumber : \E i \in Invoice : rows[i].number = n
  /\ \A i \in Invoice : rows[i].number \in 0..lastNumber
  /\ \A i, j \in Invoice : rows[i].number = rows[j].number /\ rows[i].number # 0 => i = j

Money ==
  /\ \A i \in Invoice : RowMoney(i)
  /\ \A p \in Payment : ReceiptMoney(p)
  /\ \A w \in Worker : WorkMoney(w)
  /\ Numbered

-----------------------------------------------------------------------------
LEMMA SumIsTotal == \A f : SumFunction(f) = Total(f, DOMAIN f)
BY DEF SumFunction, SumFunctionOnSet, FoldFunctionOnSet, MapThenFoldSet, Total, IsSum,
       Partial, Pick

LEMMA AppliedIsTotal ==
  /\ \A i : AppliedTo(i) = Total([p \in Payment |-> applied[p][i]], Payment)
  /\ \A i : AppliedTo(i)' = Total([p \in Payment |-> applied'[p][i]], Payment)
BY SumIsTotal DEF AppliedTo

LEMMA AppliedNat ==
  ASSUME ConstantsOK, TypeOK, NEW i \in Invoice PROVE AppliedTo(i) \in Nat
<1> DEFINE f == [p \in Payment |-> applied[p][i]]
<1>1. \A p \in Payment : f[p] \in Nat BY DEF TypeOK
<1>2. AppliedTo(i) = Total(f, Payment) BY AppliedIsTotal
<1>3. IsFiniteSet(Payment) BY DEF ConstantsOK
<1> HIDE DEF f
<1> QED BY <1>1, <1>2, <1>3, TotalNat

LEMMA NothingApplied ==
  ASSUME UNCHANGED applied
  PROVE  (\A i : AppliedTo(i)' = AppliedTo(i)) /\ (\A p : AppliedFrom(p)' = AppliedFrom(p))
BY DEF AppliedTo, AppliedFrom

(* The sums after an allocation.                                           *)
LEMMA AllocationAdds ==
  ASSUME ConstantsOK, TypeOK, NEW p \in Payment, NEW alloc \in [Invoice -> Nat],
         applied' = [applied EXCEPT ![p] = [i \in Invoice |-> applied[p][i] + alloc[i]]]
  PROVE  /\ \A i \in Invoice : AppliedTo(i)' = AppliedTo(i) + alloc[i]
         /\ AppliedFrom(p)' = AppliedFrom(p) + SumFunction(alloc)
         /\ AppliedFrom(p) \in Int /\ SumFunction(alloc) \in Int
         /\ \A q \in Payment \ {p} : AppliedFrom(q)' = AppliedFrom(q)
<1>1. IsFiniteSet(Payment) /\ IsFiniteSet(Invoice) BY DEF ConstantsOK
<1>2. applied \in [Payment -> [Invoice -> Nat]] BY DEF TypeOK
<1>3. ASSUME NEW i \in Invoice PROVE AppliedTo(i)' = AppliedTo(i) + alloc[i]
  <2> DEFINE f == [q \in Payment |-> applied[q][i]]
             h == [q \in Payment |-> applied'[q][i]]
  <2>1. \A q \in Payment : f[q] \in Int /\ h[q] \in Int BY <1>2
  <2>2. \A q \in Payment \ {p} : h[q] = f[q] BY <1>2
  <2>3. h[p] = f[p] + alloc[i] BY <1>2
  <2>4. AppliedTo(i) = Total(f, Payment) /\ AppliedTo(i)' = Total(h, Payment)
    BY AppliedIsTotal
  <2> HIDE DEF f, h
  <2>5. /\ Total(f, Payment) \in Int /\ Total(h, Payment) \in Int
        /\ Total(h, Payment) = Total(f, Payment) - f[p] + h[p]
    BY <1>1, <2>1, <2>2, TotalChange
  <2>6. f[p] \in Int /\ alloc[i] \in Int BY <2>1
  <2> QED BY ONLY <2>3, <2>4, <2>5, <2>6
<1>4. /\ AppliedFrom(p)' = AppliedFrom(p) + SumFunction(alloc)
      /\ AppliedFrom(p) \in Int /\ SumFunction(alloc) \in Int
  <2> DEFINE f == applied[p]
             h == applied'[p]
  <2>1. Adds(h, f, alloc, Invoice) BY <1>2 DEF Adds
  <2>2. DOMAIN f = Invoice /\ DOMAIN h = Invoice /\ DOMAIN alloc = Invoice BY <1>2
  <2>3. AppliedFrom(p) = Total(f, Invoice) /\ AppliedFrom(p)' = Total(h, Invoice)
        /\ SumFunction(alloc) = Total(alloc, Invoice)
    BY <2>2, SumIsTotal DEF AppliedFrom
  <2>4. \A i \in Invoice : f[i] \in Nat BY <1>2
  <2>5. \A i \in Invoice : alloc[i] \in Nat OBVIOUS
  <2> HIDE DEF f, h
  <2>6. Total(h, Invoice) = Total(f, Invoice) + Total(alloc, Invoice)
    BY <1>1, <2>1, TotalPlus
  <2>7. Total(f, Invoice) \in Nat BY <1>1, <2>4, TotalNat
  <2>8. Total(alloc, Invoice) \in Nat BY <1>1, <2>5, TotalNat
  <2> QED BY ONLY <2>3, <2>6, <2>7, <2>8
<1>5. ASSUME NEW q \in Payment \ {p} PROVE AppliedFrom(q)' = AppliedFrom(q)
  BY <1>2 DEF AppliedFrom
<1> QED BY <1>3, <1>4, <1>5

-----------------------------------------------------------------------------
(* What a step leaves alone.                                               *)

(* The work of somebody else: what it has locked and prepared is as it     *)
(* was, and no document disappears.                                        *)
LEMMA OthersKeep ==
  ASSUME ConstantsOK, TypeOK, WorkAgrees, Money, NEW v \in Worker, ws'[v] = ws[v],
         \A i \in Invoice : lock[i] = v => lock'[i] = v,
         \A i \in Invoice : ws[v].new[i] # NoRow =>
           rows'[i] = rows[i] /\ AppliedTo(i)' = AppliedTo(i),
         \A i \in Invoice : Exists(i) => rows'[i].status # "absent",
         \A p \in Payment : receipt[p].status # "absent" => receipt'[p].status # "absent",
         ws[v].at = "edit" => rows'[ws[v].doc].status = "draft"
  PROVE  WorkMoney(v)'
<1>1. WorkMoney(v) /\ WorkOK(ws[v]) BY DEF Money, WorkAgrees
<1>2. ws[v].at = "edit" => v \in Editor /\ ws[v].seen.number = 0 BY <1>1 DEF WorkMoney
<1>3. ws[v].at \in {"lock_receipt", "settle"} =>
        receipt'[ws[v].doc].status # "absent" /\ Asks(ws[v])
  BY <1>1 DEF WorkMoney, WorkOK
<1>4. \A i \in Invoice : Listed(ws[v], i) => rows'[i].status # "absent"
  BY <1>1 DEF WorkMoney
<1>5. ASSUME NEW i \in Invoice, ws[v].new[i] # NoRow
      PROVE  Prepared(v, i)'
  <2>1. Prepared(v, i) BY <1>1, <1>5 DEF WorkMoney
  <2>2. rows'[i] = rows[i] /\ AppliedTo(i)' = AppliedTo(i) BY <1>5
  <2> QED BY <2>1, <2>2 DEF Prepared, Exists
<1> QED BY <1>2, <1>3, <1>4, <1>5 DEF WorkMoney, Exists, Asks, Listed

LEMMA StoreKept ==
  ASSUME Money, UNCHANGED <<rows, books, receipt, applied, lastNumber>>
  PROVE  /\ \A i \in Invoice : RowMoney(i)'
         /\ \A p \in Payment : ReceiptMoney(p)'
         /\ Numbered'
<1>1. (\A i : AppliedTo(i)' = AppliedTo(i)) /\ (\A p : AppliedFrom(p)' = AppliedFrom(p))
  BY NothingApplied
<1>2. \A i \in Invoice : RowMoney(i)' BY <1>1 DEF Money, RowMoney
<1>3. \A p \in Payment : ReceiptMoney(p)' BY <1>1 DEF Money, ReceiptMoney
<1>4. Numbered' BY DEF Money, Numbered
<1> QED BY <1>2, <1>3, <1>4

(* A step of one request that stores nothing.                              *)
LEMMA WorkStep ==
  ASSUME ConstantsOK, TypeOK, WorkAgrees, Money, NEW w \in Worker,
         UNCHANGED <<rows, books, receipt, applied, lastNumber>>,
         \A v \in Worker \ {w} : ws'[v] = ws[v],
         \A v \in Worker \ {w}, i \in Invoice : lock[i] = v => lock'[i] = v,
         WorkMoney(w)'
  PROVE  Money'
<1>1. /\ \A i \in Invoice : RowMoney(i)'
      /\ \A p \in Payment : ReceiptMoney(p)'
      /\ Numbered'
  BY StoreKept
<1>2. \A i : AppliedTo(i)' = AppliedTo(i) BY NothingApplied
<1>3. ASSUME NEW v \in Worker PROVE WorkMoney(v)'
  <2>1. CASE v = w BY <2>1
  <2>2. CASE v # w
    <3>1. ws'[v] = ws[v] /\ \A i \in Invoice : lock[i] = v => lock'[i] = v BY <2>2
    <3>2. ws[v].at = "edit" => rows'[ws[v].doc].status = "draft"
      BY DEF Money, WorkMoney
    <3>3. \A i \in Invoice : Exists(i) => rows'[i].status # "absent" BY DEF Exists
    <3> QED BY <1>2, <3>1, <3>2, <3>3, OthersKeep
  <2> QED BY <2>1, <2>2
<1> QED BY <1>1, <1>3 DEF Money

LEMMA IdleMoney == ASSUME NEW w \in Worker, ws'[w] = Idle PROVE WorkMoney(w)'
<1>1. Idle.at = "idle" /\ Idle.todo = <<>> /\ \A i \in Invoice : Idle.new[i] = NoRow
  BY DEF Idle
<1>2. \A i : ~Listed(Idle, i) BY <1>1 DEF Listed
<1> QED BY <1>1, <1>2 DEF WorkMoney, Listed

(* COMMIT and ROLLBACK: the others keep their work and their locks.        *)
LEMMA EndLeavesOthers ==
  ASSUME TypeOK, NEW w \in Worker, End(w)
  PROVE  /\ ws'[w] = Idle
         /\ \A v \in Worker \ {w} : ws'[v] = ws[v]
         /\ \A v \in Worker \ {w}, i \in Invoice : lock[i] = v => lock'[i] = v
BY DEF End, TypeOK, Row

LEMMA RollbackKeepsMoney ==
  ASSUME ConstantsOK, Inv, Money, NEW w \in Worker, Rollback(w) PROVE Money'
<1>1. UNCHANGED <<rows, books, receipt, applied, lastNumber>> /\ End(w) BY DEF Rollback
<1>2. WorkMoney(w)' BY <1>1, EndLeavesOthers, IdleMoney DEF Inv
<1> QED BY <1>1, <1>2, EndLeavesOthers, WorkStep DEF Inv

(* A step on one invoice that nobody has prepared and that touches no      *)
(* request.                                                                *)
LEMMA OneRow ==
  ASSUME ConstantsOK, TypeOK, WorkAgrees, Money, NEW i \in Invoice,
         UNCHANGED <<receipt, applied, lock, ws>>,
         ~Exists(i) \/ Free(i),
         \A j \in Invoice \ {i} : rows'[j] = rows[j] /\ books'[j] = books[j],
         RowMoney(i)', rows'[i].status # "absent", Numbered',
         rows[i].status # "draft" \/ \A w \in Worker : ~(ws[w].at = "edit" /\ ws[w].doc = i)
  PROVE  Money'
<1>1. (\A j : AppliedTo(j)' = AppliedTo(j)) /\ (\A p : AppliedFrom(p)' = AppliedFrom(p))
  BY NothingApplied
<1>2. \A j \in Invoice : RowMoney(j)'
  <2> SUFFICES ASSUME NEW j \in Invoice PROVE RowMoney(j)'
    OBVIOUS
  <2>1. CASE j = i BY <2>1
  <2>2. CASE j # i
    <3>1. rows'[j] = rows[j] /\ books'[j] = books[j] BY <2>2
    <3> QED BY <1>1, <3>1 DEF Money, RowMoney
  <2> QED BY <2>1, <2>2
<1>3. \A p \in Payment : ReceiptMoney(p)' BY <1>1 DEF Money, ReceiptMoney
<1>4. ASSUME NEW v \in Worker PROVE WorkMoney(v)'
  <2>1. WorkMoney(v) /\ WorkOK(ws[v]) /\ v # Nobody
    BY DEF Money, WorkAgrees, ConstantsOK
  <2>2. ASSUME NEW j \in Invoice, ws[v].new[j] # NoRow
        PROVE  rows'[j] = rows[j] /\ AppliedTo(j)' = AppliedTo(j)
    <3>1. Prepared(v, j) BY <2>1, <2>2 DEF WorkMoney
    <3>2. j # i BY <2>1, <3>1 DEF Prepared, Free
    <3> QED BY <1>1, <3>2
  <2>3. \A j \in Invoice : Exists(j) => rows'[j].status # "absent" BY DEF Exists
  <2>4. ws[v].at = "edit" => rows'[ws[v].doc].status = "draft"
    <3> SUFFICES ASSUME ws[v].at = "edit" PROVE rows'[ws[v].doc].status = "draft"
      OBVIOUS
    <3>1. ws[v].doc \in Invoice /\ rows[ws[v].doc].status = "draft"
      BY <2>1 DEF WorkMoney, WorkOK
    <3>2. ws[v].doc # i BY <3>1
    <3> QED BY <3>1, <3>2
  <2>5. ws'[v] = ws[v] /\ \A j \in Invoice : lock[j] = v => lock'[j] = v OBVIOUS
  <2> QED BY <2>2, <2>3, <2>4, <2>5, OthersKeep
<1> QED BY <1>2, <1>3, <1>4 DEF Money

LEMMA EmptySum ==
  ASSUME NEW S, IsFiniteSet(S), NEW f \in [S -> Nat], \A x \in S : f[x] = 0
  PROVE  SumFunction(f) = 0
<1> DEFINE Good == {T \in SUBSET S : Total(f, T) = 0}
<1>1. {} \in Good BY TotalRecurses
<1>2. ASSUME NEW T \in Good, NEW x \in S PROVE T \cup {x} \in Good
  <2>1. CASE x \in T
    <3>1. T \cup {x} = T BY <2>1
    <3> QED BY <3>1
  <2>2. CASE x \notin T
    <3>1. IsFiniteSet(T) BY FS_Subset
    <3>2. \A y \in T \cup {x} : f[y] \in Int OBVIOUS
    <3>3. Total(f, T \cup {x}) = Total(f, T) + f[x] BY <2>2, <3>1, <3>2, TotalAdd
    <3>4. Total(f, T) = 0 /\ f[x] = 0 OBVIOUS
    <3>5. Total(f, T \cup {x}) = 0 BY ONLY <3>3, <3>4
    <3> QED BY <3>5
  <2> QED BY <2>1, <2>2
<1> HIDE DEF Good
<1>3. Good \in SUBSET SUBSET S BY DEF Good
<1>4. \A T \in Good, x \in S : T \cup {x} \in Good BY <1>2
<1>5. \A T \in SUBSET S : T \in Good BY <1>1, <1>3, <1>4, OneByOne
<1>6. Total(f, S) = 0 BY <1>5 DEF Good
<1> QED BY <1>6, SumIsTotal

-----------------------------------------------------------------------------
(* The steps on one invoice.                                               *)

LEMMA CreateKeepsMoney ==
  ASSUME ConstantsOK, Inv, Money, NEW i \in Invoice, CreateInvoice(i) PROVE Money'
<1>1. PICK t \in LineTotal, d \in Day :
        rows' = [rows EXCEPT ![i] = [NoRow EXCEPT !.status = "draft", !.total = t,
                                                  !.due = t, !.dueDay = d]]
  BY DEF CreateInvoice
<1> DEFINE r == [NoRow EXCEPT !.status = "draft", !.total = t, !.due = t, !.dueDay = d]
<1>2. r.status = "draft" /\ r.number = 0 /\ r.paid = 0 BY DEF NoRow
<1>3. rows \in [Invoice -> InvoiceRow] BY DEF Inv, TypeOK
<1>4. rows'[i] = r /\ \A j \in Invoice \ {i} : rows'[j] = rows[j] BY <1>1, <1>3
<1> HIDE DEF r
<1>5. /\ ~Exists(i) /\ rows[i].status = "absent"
      /\ UNCHANGED <<books, receipt, applied, lastNumber, lock, ws>>
  BY DEF CreateInvoice, Exists
<1>6. RowMoney(i) /\ rows[i].number = 0 BY <1>5 DEF Money, RowMoney, Agreed
<1>7. RowMoney(i)'
  BY <1>2, <1>4, <1>5, <1>6, NothingApplied DEF RowMoney, Agreed
<1>8. \A j \in Invoice : rows'[j].number = rows[j].number BY <1>2, <1>4, <1>6
<1>9. Numbered' BY <1>5, <1>8 DEF Numbered, Money
<1> QED BY <1>2, <1>4, <1>5, <1>7, <1>9, OneRow DEF Inv

LEMMA IssueKeepsMoney ==
  ASSUME ConstantsOK, OneDesk, Inv, Money, NEW i \in Invoice, Issue(i) PROVE Money'
<1>1. /\ Free(i) /\ ~BeingEdited(i) /\ rows[i].status = "draft"
      /\ lastNumber' = lastNumber + 1
      /\ UNCHANGED <<receipt, applied, lock, ws>>
  BY DEF Issue, NextNumber
<1>2. lastNumber \in Nat /\ rows \in [Invoice -> InvoiceRow] /\ books \in [Invoice -> Books]
  BY DEF Inv, TypeOK
<1>3. rows[i] \in InvoiceRow /\ books[i] \in Books BY <1>2
<1>4. RowMoney(i) /\ rows[i].number = 0 /\ books[i].issue = 0
  BY <1>1 DEF Money, RowMoney, Agreed
<1> DEFINE r == [rows[i] EXCEPT !.status = "sent", !.number = lastNumber + 1, !.entry = TRUE]
           b == [books[i] EXCEPT !.issue = rows[i].total]
<1>5. rows' = [rows EXCEPT ![i] = r] BY <1>2 DEF Issue, NextNumber
<1>6. books' = [books EXCEPT ![i] = b]
  <2>1. books' = [books EXCEPT ![i] =
                    [books[i] EXCEPT !.issue = IF books[i].issue = 0 THEN rows[i].total
                                               ELSE books[i].issue]]
    BY <1>2 DEF Issue, PostIssue, NextNumber
  <2> QED BY <2>1, <1>4
<1>7. /\ r.status = "sent" /\ r.number = lastNumber + 1 /\ r.entry = TRUE
      /\ r.total = rows[i].total /\ r.paid = rows[i].paid
      /\ b.issue = rows[i].total /\ b.loss = books[i].loss
  BY <1>3 DEF InvoiceRow, Books
<1> HIDE DEF r, b
<1>8. /\ rows'[i] = r /\ books'[i] = b
      /\ \A j \in Invoice \ {i} : rows'[j] = rows[j] /\ books'[j] = books[j]
  BY <1>2, <1>5, <1>6
<1>9. RowMoney(i)'
  <2>1. AppliedTo(i)' = AppliedTo(i) BY <1>1, NothingApplied
  <2>2. lastNumber + 1 # 0 BY <1>2
  <2> QED BY <1>1, <1>4, <1>7, <1>8, <2>1, <2>2 DEF RowMoney, Agreed
<1>10. Numbered'
  <2>1. Numbered BY DEF Money
  <2>2. ASSUME NEW n \in 1..lastNumber' PROVE \E j \in Invoice : rows'[j].number = n
    <3>1. CASE n = lastNumber + 1 BY <1>7, <1>8, <3>1
    <3>2. CASE n # lastNumber + 1
      <4>1. n \in 1..lastNumber BY <1>1, <1>2, <3>2
      <4>2. PICK j \in Invoice : rows[j].number = n BY <2>1, <4>1 DEF Numbered
      <4>3. j # i BY <1>4, <4>1, <4>2
      <4> QED BY <1>8, <4>2, <4>3
    <3> QED BY <3>1, <3>2
  <2>3. ASSUME NEW j \in Invoice PROVE rows'[j].number \in 0..lastNumber'
    <3>1. rows[j].number \in 0..lastNumber BY <2>1 DEF Numbered
    <3> QED BY <1>1, <1>2, <1>7, <1>8, <3>1
  <2>4. ASSUME NEW j \in Invoice, NEW k \in Invoice,
               rows'[j].number = rows'[k].number, rows'[j].number # 0
        PROVE  j = k
    <3>1. rows[j].number \in 0..lastNumber /\ rows[k].number \in 0..lastNumber
      BY <2>1 DEF Numbered
    <3>2. CASE j # i /\ k # i BY <1>8, <2>1, <2>4, <3>2 DEF Numbered
    <3>3. CASE j = i \/ k = i BY <1>2, <1>7, <1>8, <2>4, <3>1, <3>3
    <3> QED BY <3>2, <3>3
  <2> QED BY <2>2, <2>3, <2>4 DEF Numbered
<1>11. \A w \in Worker : ~(ws[w].at = "edit" /\ ws[w].doc = i)
  <2> SUFFICES ASSUME NEW w \in Worker, ws[w].at = "edit", ws[w].doc = i PROVE FALSE
    OBVIOUS
  <2>1. w \in Editor BY DEF Money, WorkMoney
  <2> QED BY <1>1, <2>1 DEF BeingEdited
<1> QED BY <1>1, <1>7, <1>8, <1>9, <1>10, <1>11, OneRow DEF Inv

LEMMA VoidKeepsMoney ==
  ASSUME ConstantsOK, Inv, Money, NEW i \in Invoice, Void(i) PROVE Money'
<1>1. /\ Free(i) /\ rows[i].paid = 0 /\ rows[i].number # 0 /\ Exists(i)
      /\ "voided" \in Allowed[rows[i].status]
      /\ UNCHANGED <<receipt, applied, lastNumber, lock, ws>>
  BY DEF Void
<1>2. rows \in [Invoice -> InvoiceRow] /\ books \in [Invoice -> Books]
  BY DEF Inv, TypeOK
<1>3. rows[i] \in InvoiceRow /\ books[i] \in Books BY <1>2
<1>4. rows[i].status \in {"sent", "overdue"}
  <2>1. rows[i].status \in Status BY <1>1, <1>3 DEF InvoiceRow, Exists
  <2>2. rows[i].status # "draft" BY <1>1 DEF Money, RowMoney, Agreed
  <2> QED BY <1>1, <2>1, <2>2 DEF Allowed, Status
<1>5. RowMoney(i) /\ rows[i].entry = TRUE BY <1>1 DEF Money, RowMoney, Agreed
<1> DEFINE r == [rows[i] EXCEPT !.status = "voided"]
           b == [books[i] EXCEPT !.withdrawn = TRUE]
<1>6. rows' = [rows EXCEPT ![i] = r] BY <1>2 DEF Void
<1>7. books' = [books EXCEPT ![i] = b]
  <2>1. books' = [books EXCEPT ![i] =
                    [books[i] EXCEPT !.withdrawn = books[i].withdrawn \/ rows[i].entry]]
    BY <1>2 DEF Void
  <2>2. (books[i].withdrawn \/ rows[i].entry) = TRUE BY <1>5
  <2> QED BY <2>1, <2>2
<1>8. /\ r.status = "voided" /\ r.number = rows[i].number /\ r.entry = rows[i].entry
      /\ r.total = rows[i].total /\ r.paid = rows[i].paid
      /\ b.issue = books[i].issue /\ b.loss = books[i].loss /\ b.withdrawn = TRUE
  BY <1>3 DEF InvoiceRow, Books
<1> HIDE DEF r, b
<1>9. /\ rows'[i] = r /\ books'[i] = b
      /\ \A j \in Invoice \ {i} : rows'[j] = rows[j] /\ books'[j] = books[j]
  BY <1>2, <1>6, <1>7
<1>10. RowMoney(i)'
  <2>1. AppliedTo(i)' = AppliedTo(i) BY <1>1, NothingApplied
  <2> QED BY <1>1, <1>4, <1>5, <1>8, <1>9, <2>1 DEF RowMoney, Agreed
<1>11. Numbered'
  <2>1. \A j \in Invoice : rows'[j].number = rows[j].number BY <1>8, <1>9
  <2> QED BY <1>1, <2>1 DEF Numbered, Money
<1> QED BY <1>1, <1>4, <1>8, <1>9, <1>10, <1>11, OneRow DEF Inv

LEMMA WriteOffKeepsMoney ==
  ASSUME ConstantsOK, Inv, Money, NEW i \in Invoice, WriteOff(i) PROVE Money'
<1>1. /\ Free(i) /\ Exists(i) /\ "written_off" \in Allowed[rows[i].status]
      /\ UNCHANGED <<receipt, applied, lastNumber, lock, ws>>
  BY DEF WriteOff
<1>2. rows \in [Invoice -> InvoiceRow] /\ books \in [Invoice -> Books]
  BY DEF Inv, TypeOK
<1>3. rows[i] \in InvoiceRow /\ books[i] \in Books BY <1>2
<1>4. Open(rows[i])
  <2>1. rows[i].status \in Status BY <1>1, <1>3 DEF InvoiceRow, Exists
  <2> QED BY <1>1, <2>1 DEF Allowed, Status, Open
<1>5. RowMoney(i) /\ books[i].loss = 0 BY <1>4 DEF Money, RowMoney, Agreed, Open
<1> DEFINE r == [rows[i] EXCEPT !.status = "written_off", !.paid = rows[i].total, !.due = 0]
           b == [books[i] EXCEPT !.loss = rows[i].due]
<1>6. rows' = [rows EXCEPT ![i] = r] BY <1>2 DEF WriteOff
<1>7. books' = [books EXCEPT ![i] = b]
  <2>1. books' = [books EXCEPT ![i] =
          [books[i] EXCEPT !.loss = IF books[i].loss = 0 THEN rows[i].due ELSE books[i].loss]]
    BY <1>2 DEF WriteOff
  <2> QED BY <2>1, <1>5
<1>8. /\ r.status = "written_off" /\ r.number = rows[i].number /\ r.entry = rows[i].entry
      /\ r.total = rows[i].total
      /\ b.issue = books[i].issue /\ b.loss = rows[i].due
  BY <1>3 DEF InvoiceRow, Books
<1> HIDE DEF r, b
<1>9. /\ rows'[i] = r /\ books'[i] = b
      /\ \A j \in Invoice \ {i} : rows'[j] = rows[j] /\ books'[j] = books[j]
  BY <1>2, <1>6, <1>7
<1>10. RowMoney(i)'
  <2>1. AppliedTo(i)' = AppliedTo(i) BY <1>1, NothingApplied
  <2>2. rows[i].due = rows[i].total - rows[i].paid BY DEF Inv, StatusFollowsMoney, RowAgrees
  <2>3. rows[i].paid = AppliedTo(i) BY <1>4, <1>5 DEF RowMoney, Agreed, Open
  <2>4. rows[i].total \in Nat /\ rows[i].paid \in Nat BY <1>3 DEF InvoiceRow
  <2>5. r.total = AppliedTo(i) + b.loss BY <1>8, <2>2, <2>3, <2>4
  <2> QED BY <1>4, <1>5, <1>8, <1>9, <2>1, <2>5 DEF RowMoney, Agreed, Open
<1>11. Numbered'
  <2>1. \A j \in Invoice : rows'[j].number = rows[j].number BY <1>8, <1>9
  <2> QED BY <1>1, <2>1 DEF Numbered, Money
<1> QED BY <1>1, <1>4, <1>8, <1>9, <1>10, <1>11, OneRow DEF Inv, Open

LEMMA VoidFromLedgerKeepsMoney ==
  ASSUME ConstantsOK, Inv, Money, NEW i \in Invoice, VoidFromLedger(i) PROVE Money'
<1>1. books' = [books EXCEPT ![i].withdrawn = TRUE]
      /\ UNCHANGED <<rows, receipt, applied, lastNumber, lock, ws>>
  BY DEF VoidFromLedger
<1>2. books \in [Invoice -> Books] BY DEF Inv, TypeOK
<1>3. \A j \in Invoice : /\ books'[j].issue = books[j].issue /\ books'[j].loss = books[j].loss
                         /\ books[j].withdrawn = TRUE => books'[j].withdrawn = TRUE
  BY <1>1, <1>2 DEF Books
<1>4. (\A j : AppliedTo(j)' = AppliedTo(j)) /\ (\A p : AppliedFrom(p)' = AppliedFrom(p))
  BY <1>1, NothingApplied
<1>5. \A j \in Invoice : RowMoney(j)'
  <2> SUFFICES ASSUME NEW j \in Invoice PROVE RowMoney(j)'
    OBVIOUS
  <2>1. RowMoney(j) /\ rows'[j] = rows[j] BY <1>1 DEF Money
  <2> QED BY <1>3, <1>4, <2>1 DEF RowMoney, Agreed
<1>6. \A p \in Payment : ReceiptMoney(p)' BY <1>1, <1>4 DEF Money, ReceiptMoney
<1>7. \A v \in Worker : WorkMoney(v)' BY <1>1, <1>4 DEF Money, WorkMoney, Prepared, Exists
<1>8. Numbered' BY <1>1 DEF Money, Numbered
<1> QED BY <1>5, <1>6, <1>7, <1>8 DEF Money

LEMMA ReceiveKeepsMoney ==
  ASSUME ConstantsOK, Inv, Money, NEW p \in Payment, Receive(p) PROVE Money'
<1>1. PICK a \in Amount : receipt' = [receipt EXCEPT ![p] =
         [status |-> IF p \in Gateway THEN "pending" ELSE "settled",
          amount |-> a, unapplied |-> a]]
  BY DEF Receive
<1>2. receipt[p].status = "absent" /\ UNCHANGED <<rows, books, applied, lastNumber, lock, ws>>
  BY DEF Receive
<1>3. receipt \in [Payment -> Receipt] /\ a \in Nat BY DEF Inv, TypeOK, ConstantsOK
<1>4. /\ receipt'[p].status # "absent" /\ receipt'[p].amount = a /\ receipt'[p].unapplied = a
      /\ \A q \in Payment \ {p} : receipt'[q] = receipt[q]
  BY <1>1, <1>3
<1>5. (\A j : AppliedTo(j)' = AppliedTo(j)) /\ (\A q : AppliedFrom(q)' = AppliedFrom(q))
  BY <1>2, NothingApplied
<1>6. AppliedFrom(p) = 0
  <2>1. receipt[p].amount = receipt[p].unapplied + AppliedFrom(p)
    BY DEF Money, ReceiptMoney
  <2>2. applied[p] \in [Invoice -> Nat] /\ \A i \in Invoice : applied[p][i] = 0
    BY <1>2 DEF Money, ReceiptMoney, Inv, TypeOK
  <2> QED BY <2>2, EmptySum DEF AppliedFrom, ConstantsOK
<1>7. \A q \in Payment : ReceiptMoney(q)'
  <2> SUFFICES ASSUME NEW q \in Payment PROVE ReceiptMoney(q)'
    OBVIOUS
  <2>1. CASE q = p BY <1>3, <1>4, <1>5, <1>6, <2>1 DEF ReceiptMoney
  <2>2. CASE q # p
    <3>1. receipt'[q] = receipt[q] BY <1>4, <2>2
    <3> QED BY <1>2, <1>5, <3>1 DEF Money, ReceiptMoney
  <2> QED BY <2>1, <2>2
<1>8. \A j \in Invoice : RowMoney(j)' BY <1>2, <1>5 DEF Money, RowMoney
<1>9. ASSUME NEW v \in Worker PROVE WorkMoney(v)'
  <2>1. /\ ws'[v] = ws[v]
        /\ \A i \in Invoice : lock[i] = v => lock'[i] = v
        /\ \A i \in Invoice : rows'[i] = rows[i] /\ AppliedTo(i)' = AppliedTo(i)
        /\ \A i \in Invoice : Exists(i) => rows'[i].status # "absent"
    BY <1>2, <1>5 DEF Exists
  <2>2. ws[v].at = "edit" => rows'[ws[v].doc].status = "draft"
    BY <1>2 DEF Money, WorkMoney
  <2>3. \A q \in Payment : receipt[q].status # "absent" => receipt'[q].status # "absent"
    BY <1>4
  <2> QED BY <2>1, <2>2, <2>3, OthersKeep DEF Inv
<1>10. Numbered' BY <1>2 DEF Money, Numbered
<1> QED BY <1>7, <1>8, <1>9, <1>10 DEF Money

LEMMA QuietStep ==
  ASSUME ConstantsOK, TypeOK, WorkAgrees, Money,
         UNCHANGED <<rows, books, receipt, applied, lastNumber, lock, ws>>
  PROVE  Money'
<1>1. /\ \A i \in Invoice : RowMoney(i)'
      /\ \A p \in Payment : ReceiptMoney(p)'
      /\ Numbered'
  BY StoreKept
<1>2. \A i : AppliedTo(i)' = AppliedTo(i) BY NothingApplied
<1>3. \A v \in Worker : WorkMoney(v)' BY <1>2 DEF Money, WorkMoney, Prepared, Exists
<1> QED BY <1>1, <1>3 DEF Money

-----------------------------------------------------------------------------
(* The steps of a request that store nothing.                              *)

LEMMA RefundKeepsMoney ==
  ASSUME ConstantsOK, Inv, Money, NEW p \in Payment, Refund(p) PROVE Money'
<1>1. UNCHANGED <<rows, books, receipt, applied, lastNumber, lock, ws>> BY DEF Refund
<1> QED BY <1>1, QuietStep DEF Inv

(* The work of a request becomes k, and its locks grow.                    *)
LEMMA WorkBecomes ==
  ASSUME ConstantsOK, Inv, Money, NEW w \in Worker, NEW k, ws' = [ws EXCEPT ![w] = k],
         UNCHANGED <<rows, books, receipt, applied, lastNumber>>,
         \A v \in Worker \ {w}, i \in Invoice : lock[i] = v => lock'[i] = v,
         WorkMoney(w)'
  PROVE  Money'
<1>1. \A v \in Worker \ {w} : ws'[v] = ws[v] BY DEF Inv, TypeOK
<1> QED BY <1>1, WorkStep DEF Inv

LEMMA ReadForEditKeepsMoney ==
  ASSUME ConstantsOK, Inv, Money, NEW w \in Worker, ReadForEdit(w) PROVE Money'
<1>1. PICK i \in Invoice :
        /\ rows[i].status = "draft"
        /\ ws' = [ws EXCEPT ![w] =
                    [Idle EXCEPT !.at = "edit", !.doc = i, !.seen = rows[i]]]
  BY DEF ReadForEdit
<1> DEFINE k == [Idle EXCEPT !.at = "edit", !.doc = i, !.seen = rows[i]]
<1>2. /\ k.at = "edit" /\ k.doc = i /\ k.seen = rows[i] /\ k.todo = <<>>
      /\ \A j \in Invoice : k.new[j] = NoRow
  BY DEF Idle
<1>3. ws' = [ws EXCEPT ![w] = k] /\ ws'[w] = k BY <1>1 DEF Inv, TypeOK
<1> HIDE DEF k
<1>4. w \in Editor /\ UNCHANGED <<rows, books, receipt, applied, lastNumber, lock>>
  BY DEF ReadForEdit
<1>5. rows[i].number = 0 BY <1>1 DEF Money, RowMoney, Agreed
<1>6. \A j : ~Listed(k, j) BY <1>2 DEF Listed
<1>7. WorkMoney(w)'
  <2>1. \A j \in Invoice : ~Listed(ws[w], j)' BY <1>3, <1>6 DEF Listed
  <2> QED BY <1>1, <1>2, <1>3, <1>4, <1>5, <2>1 DEF WorkMoney
<1> QED BY <1>3, <1>4, <1>7, WorkBecomes

(* An order lists the invoices of a set, each of them.                     *)
LEMMA OrderListsAll ==
  ASSUME ConstantsOK, NEW S \in SUBSET Invoice, NEW order \in SetToSeqs(S)
  PROVE  /\ \A n \in 1..Len(order) : order[n] \in S
         /\ \A i \in S : \E n \in 1..Len(order) : order[n] = i
<1>1. IsFiniteSet(S) BY FS_Subset DEF ConstantsOK
<1> DEFINE c == Cardinality(S)
<1>2. c \in Nat BY <1>1, FS_CardinalityType
<1>3. order \in [1..c -> S] /\ \A i, j \in 1..c : i # j => order[i] # order[j]
  BY DEF SetToSeqs
<1> HIDE DEF c
<1>4. Len(order) = c BY <1>2, <1>3
<1>5. order \in Injection(1..c, S) BY <1>3 DEF Injection, IsInjective
<1>6. Cardinality(1..c) = c BY <1>2, FS_Interval
<1>7. order \in Surjection(1..c, S) BY <1>1, <1>5, <1>6, FS_Injection DEF c
<1>8. \A i \in S : \E n \in 1..c : order[n] = i BY <1>7 DEF Surjection
<1> QED BY <1>3, <1>4, <1>8

LEMMA BeginApplyKeepsMoney ==
  ASSUME ConstantsOK, Inv, Money, NEW w \in Worker, BeginApply(w) PROVE Money'
<1>1. PICK p \in Payment, S \in SUBSET Invoice :
        /\ receipt[p].status = "settled" /\ \A i \in S : Exists(i)
        /\ \E f \in [S -> Amount], order \in SetToSeqs(S) :
             ws' = [ws EXCEPT ![w] = [Idle EXCEPT
                      !.at = "lock_receipt", !.doc = p, !.todo = order,
                      !.alloc = [i \in Invoice |-> IF i \in S THEN f[i] ELSE 0]]]
  BY DEF BeginApply
<1>2. PICK f \in [S -> Amount], order \in SetToSeqs(S) :
        ws' = [ws EXCEPT ![w] = [Idle EXCEPT
                 !.at = "lock_receipt", !.doc = p, !.todo = order,
                 !.alloc = [i \in Invoice |-> IF i \in S THEN f[i] ELSE 0]]]
  BY <1>1
<1> DEFINE alloc == [i \in Invoice |-> IF i \in S THEN f[i] ELSE 0]
           k == [Idle EXCEPT !.at = "lock_receipt", !.doc = p, !.todo = order,
                             !.alloc = alloc]
<1>3. ASSUME NEW i \in Invoice PROVE alloc[i] > 0 <=> i \in S
  <2>1. CASE i \in S
    <3>1. alloc[i] = f[i] /\ f[i] \in Amount BY <2>1
    <3>2. Amount \subseteq Nat \ {0} BY DEF ConstantsOK
    <3>3. f[i] \in Nat \ {0} BY ONLY <3>1, <3>2
    <3> QED BY ONLY <2>1, <3>1, <3>3
  <2>2. CASE i \notin S
    <3>1. alloc[i] = 0 BY <2>2
    <3> QED BY <2>2, <3>1
  <2> QED BY <2>1, <2>2
<1> HIDE DEF alloc
<1>4. /\ k.at = "lock_receipt" /\ k.doc = p /\ k.todo = order /\ k.alloc = alloc
      /\ \A j \in Invoice : k.new[j] = NoRow
  BY DEF Idle
<1>5. ws' = [ws EXCEPT ![w] = k] /\ ws'[w] = k BY <1>2 DEF Inv, TypeOK, alloc
<1> HIDE DEF k
<1>6. \A i \in Invoice : Listed(k, i) <=> i \in S BY <1>4, OrderListsAll DEF Listed
<1>7. UNCHANGED <<rows, books, receipt, applied, lastNumber, lock>> BY DEF BeginApply
<1>8. Asks(k) BY <1>3, <1>4, <1>6 DEF Asks
<1>9. WorkMoney(w)'
  <2>1. Asks(ws[w])' BY <1>5, <1>8 DEF Asks, Listed
  <2>2. \A i \in Invoice : Listed(ws[w], i)' => Exists(i)'
    BY <1>1, <1>5, <1>6, <1>7 DEF Listed, Exists
  <2> QED BY <1>1, <1>4, <1>5, <1>7, <2>1, <2>2 DEF WorkMoney
<1> QED BY <1>5, <1>7, <1>9, WorkBecomes

LEMMA LockReceiptKeepsMoney ==
  ASSUME ConstantsOK, Inv, Money, NEW w \in Worker, LockReceipt(w) PROVE Money'
<1> DEFINE k == [ws[w] EXCEPT !.at = "settle"]
<1>1. ws[w] \in Work /\ WorkOK(ws[w]) /\ ws[w].at = "lock_receipt"
  BY DEF Inv, TypeOK, WorkAgrees, LockReceipt
<1>2. ws[w].doc \in Payment BY <1>1 DEF WorkOK
<1>3. /\ k.new = ws[w].new /\ k.at = "settle" /\ k.doc = ws[w].doc
      /\ k.todo = ws[w].todo /\ k.alloc = ws[w].alloc
  BY <1>1 DEF Work
<1>4. ws' = [ws EXCEPT ![w] = k] /\ ws'[w] = k BY DEF LockReceipt, Inv, TypeOK
<1> HIDE DEF k
<1>5. UNCHANGED <<rows, books, receipt, applied, lastNumber>> BY DEF LockReceipt
<1>6. \A v \in Worker \ {w}, i \in Invoice : lock[i] = v => lock'[i] = v
  <2>1. ws[w].doc \notin Invoice BY <1>2 DEF ConstantsOK
  <2> QED BY <2>1 DEF LockReceipt, Take, Inv, TypeOK, Row
<1>7. WorkMoney(w) BY DEF Money
<1>8. \A i \in Invoice : ws[w].new[i] = NoRow
  BY <1>1, <1>7 DEF WorkMoney, Prepared
<1>9. WorkMoney(w)'
  BY <1>1, <1>3, <1>4, <1>5, <1>7, <1>8 DEF WorkMoney, Asks, Listed, Exists
<1> QED BY <1>4, <1>5, <1>6, <1>9, WorkBecomes

(* The next invoice comes off the list.                                    *)
LEMMA TailLists ==
  ASSUME NEW t \in Seq(Invoice), t # <<>>, NEW j \in Invoice
  PROVE  /\ \E n \in 1..Len(t) : t[n] = Head(t)
         /\ (\E n \in 1..Len(Tail(t)) : Tail(t)[n] = j) => \E n \in 1..Len(t) : t[n] = j
         /\ (\E n \in 1..Len(t) : t[n] = j)
              => j = Head(t) \/ \E n \in 1..Len(Tail(t)) : Tail(t)[n] = j
<1>1. /\ Len(t) \in Nat \ {0} /\ Len(Tail(t)) = Len(t) - 1 /\ Head(t) = t[1]
      /\ \A n \in 1..Len(Tail(t)) : Tail(t)[n] = t[n + 1]
  OBVIOUS
<1>2. \E n \in 1..Len(t) : t[n] = Head(t) BY <1>1
<1>3. ASSUME NEW n \in 1..Len(Tail(t)), Tail(t)[n] = j
      PROVE  \E m \in 1..Len(t) : t[m] = j
  <2>1. n + 1 \in 1..Len(t) /\ t[n + 1] = j BY <1>1, <1>3
  <2> QED BY <2>1
<1>4. ASSUME NEW n \in 1..Len(t), t[n] = j, j # Head(t)
      PROVE  \E m \in 1..Len(Tail(t)) : Tail(t)[m] = j
  <2>1. n - 1 \in 1..Len(Tail(t)) BY <1>1, <1>4
  <2>2. Tail(t)[n - 1] = t[(n - 1) + 1] BY <1>1, <2>1
  <2>3. (n - 1) + 1 = n OBVIOUS
  <2>4. Tail(t)[n - 1] = j BY <1>4, <2>2, <2>3
  <2> QED BY <2>1, <2>4
<1> QED BY <1>2, <1>3, <1>4

(* A request locks the next invoice of its list and prepares its row.      *)
LEMMA PrepareKeepsMoney ==
  ASSUME ConstantsOK, Inv, Money, NEW w \in Worker, NEW i \in Invoice, NEW r \in InvoiceRow,
         ws[w].at \in {"settle", "mark", "unmark"}, ws[w].todo # <<>>,
         i = Head(ws[w].todo), Updated(w, i, r),
         lock[i] \in {Nobody, w}, lock' = [lock EXCEPT ![i] = w],
         UNCHANGED <<rows, books, receipt, applied, lastNumber>>,
         ws[w].at = "settle" => Settled(rows[i], r, AppliedTo(i) + ws[w].alloc[i]),
         ws[w].at # "settle" => Swept(rows[i], r)
  PROVE  Money'
<1> DEFINE t == ws[w].todo
           new == ws[w].new
           k == [ws[w] EXCEPT !.todo = Tail(t), !.new = [new EXCEPT ![i] = r]]
<1>1. ws[w] \in Work /\ WorkMoney(w) /\ ws \in [Worker -> Work]
  BY DEF Inv, TypeOK, Money
<1>2. t \in Seq(Invoice) /\ new \in [Invoice -> InvoiceRow] BY <1>1 DEF Work
<1>3. ws' = [ws EXCEPT ![w] = k] /\ ws'[w] = k BY <1>1 DEF Updated, Work
<1>4. /\ k.at = ws[w].at /\ k.doc = ws[w].doc /\ k.alloc = ws[w].alloc
      /\ k.todo = Tail(t) /\ k.new = [new EXCEPT ![i] = r]
  BY <1>1 DEF Work
<1> HIDE DEF k
<1>5. k.new[i] = r /\ \A j \in Invoice \ {i} : k.new[j] = new[j] BY <1>2, <1>4
<1>6. /\ Listed(ws[w], i)
      /\ \A j \in Invoice : Listed(k, j) => Listed(ws[w], j)
      /\ \A j \in Invoice : Listed(ws[w], j) => j = i \/ Listed(k, j)
  <2>1. t # <<>> /\ i = Head(t) OBVIOUS
  <2>2. \A j : Listed(ws[w], j) <=> \E n \in 1..Len(t) : t[n] = j BY DEF Listed
  <2>3. \A j : Listed(k, j) <=> \E n \in 1..Len(Tail(t)) : Tail(t)[n] = j
    BY <1>4 DEF Listed
  <2> HIDE DEF t
  <2>4. \E n \in 1..Len(t) : t[n] = i BY <1>2, <2>1, TailLists
  <2>5. ASSUME NEW j \in Invoice, \E n \in 1..Len(Tail(t)) : Tail(t)[n] = j
        PROVE  \E n \in 1..Len(t) : t[n] = j
    BY <1>2, <2>1, <2>5, TailLists
  <2>6. ASSUME NEW j \in Invoice, \E n \in 1..Len(t) : t[n] = j
        PROVE  j = i \/ \E n \in 1..Len(Tail(t)) : Tail(t)[n] = j
    BY <1>2, <2>1, <2>6, TailLists
  <2> QED BY <2>2, <2>3, <2>4, <2>5, <2>6
<1>7. Exists(i) BY <1>1, <1>6 DEF WorkMoney
<1>8. r # NoRow
  <2>1. r.status # "absent" BY <1>7 DEF Swept, Settled, Owed, Exists
  <2> QED BY <2>1 DEF NoRow
<1>9. \A v \in Worker \ {w}, j \in Invoice : lock[j] = v => lock'[j] = v
  <2>1. lock \in [Row -> Worker \cup {Nobody}] /\ Nobody \notin Worker
    BY DEF Inv, TypeOK, ConstantsOK
  <2> QED BY <2>1 DEF Row
<1>10. k.at = "settle" => Asks(k)
  <2> SUFFICES ASSUME k.at = "settle", NEW j \in Invoice
               PROVE  /\ k.alloc[j] > 0 => k.new[j] # NoRow \/ Listed(k, j)
                      /\ Listed(k, j) => k.alloc[j] > 0
    BY DEF Asks
  <2>1. Asks(ws[w]) BY <1>1, <1>4 DEF WorkMoney
  <2>2. CASE j = i BY <1>4, <1>5, <1>6, <1>8, <2>1, <2>2 DEF Asks
  <2>3. CASE j # i
    <3>1. k.new[j] = new[j] /\ k.alloc[j] = ws[w].alloc[j] BY <1>4, <1>5, <2>3
    <3>2. Listed(ws[w], j) <=> Listed(k, j) BY <1>6, <2>3
    <3> QED BY <2>1, <3>1, <3>2 DEF Asks
  <2> QED BY <2>2, <2>3
<1>11. \A j \in Invoice : AppliedTo(j)' = AppliedTo(j) BY NothingApplied
<1>12. lock'[i] = w /\ \A j \in Invoice : lock[j] = w => lock'[j] = w
  BY DEF Inv, TypeOK, Row
<1>13. ASSUME NEW j \in Invoice, k.new[j] # NoRow PROVE Prepared(w, j)'
  <2>1. CASE j = i
    <3>1. ws[w].at = "settle" => k.alloc[i] > 0 BY <1>1, <1>4, <1>6 DEF WorkMoney, Asks
    <3>2. k.at = "settle" => Settled(rows'[i], k.new[i], AppliedTo(i)' + k.alloc[i])
      BY <1>4, <1>5, <1>11
    <3>3. k.at # "settle" => k.at \in {"mark", "unmark"} /\ Swept(rows'[i], k.new[i])
      BY <1>4, <1>5
    <3> QED BY <1>3, <1>4, <1>7, <1>12, <2>1, <3>1, <3>2, <3>3 DEF Prepared, Exists
  <2>2. CASE j # i
    <3>1. k.new[j] = new[j] BY <1>5, <2>2
    <3>2. Prepared(w, j) BY <1>1, <1>13, <3>1 DEF WorkMoney
    <3> QED BY <1>3, <1>4, <1>11, <1>12, <3>1, <3>2 DEF Prepared, Exists
  <2> QED BY <2>1, <2>2
<1>14. WorkMoney(w)'
  <2>1. ws'[w].at # "edit" /\ ws'[w].at # "lock_receipt" BY <1>3, <1>4
  <2>2. ws'[w].at = "settle" => receipt'[ws'[w].doc].status # "absent"
    BY <1>1, <1>3, <1>4 DEF WorkMoney
  <2>3. ws'[w].at = "settle" => Asks(ws[w])' BY <1>3, <1>10 DEF Asks, Listed
  <2>4. \A j \in Invoice : Listed(ws[w], j)' => Exists(j)'
    <3>1. \A j \in Invoice : Listed(k, j) => Exists(j) BY <1>1, <1>6 DEF WorkMoney
    <3> QED BY <1>3, <3>1 DEF Listed, Exists
  <2>5. \A j \in Invoice : ws'[w].new[j] # NoRow => Prepared(w, j)' BY <1>3, <1>13
  <2> QED BY <2>1, <2>2, <2>3, <2>4, <2>5 DEF WorkMoney
<1> QED BY <1>3, <1>9, <1>14, WorkBecomes

LEMMA SettleInvoiceKeepsMoney ==
  ASSUME ConstantsOK, Inv, Money, NEW w \in Worker, SettleInvoice(w) PROVE Money'
<1> DEFINE i == Head(ws[w].todo)
<1>1. /\ ws[w].at = "settle" /\ ws[w].todo # <<>> /\ Take(w, i) /\ Settles(w, i)
      /\ Updated(w, i, SettledRow(w, i))
      /\ UNCHANGED <<rows, books, receipt, applied, lastNumber>>
  BY DEF SettleInvoice
<1>2. PICK j \in Invoice : j = i BY <1>1, NextInvoice DEF Inv
<1>3. SettledRow(w, j) \in InvoiceRow BY <1>1, <1>2, SettledRowOK DEF Inv
<1>4. ws[w] \in Work /\ WorkMoney(w) BY DEF Inv, TypeOK, Money
<1>5. ws[w].todo \in Seq(Invoice) /\ ws[w].alloc \in [Invoice -> Nat] BY <1>4 DEF Work
<1>6. Listed(ws[w], j) BY <1>1, <1>2, <1>5, TailLists DEF Listed
<1>7. ws[w].alloc[j] \in Nat /\ ws[w].alloc[j] > 0 /\ Exists(j)
  BY <1>1, <1>4, <1>5, <1>6 DEF WorkMoney, Asks
<1>8. rows[j] \in InvoiceRow /\ rows[j].total \in Nat BY DEF Inv, TypeOK, InvoiceRow
<1>9. Cash(w, j) = AppliedTo(j) + ws[w].alloc[j] /\ Cash(w, j) \in 0..rows[j].total
  BY <1>1, <1>2 DEF Cash, Settles
<1>10. AppliedTo(j) \in Nat BY AppliedNat DEF Inv
<1>11. Open(rows[j])
  <2>1. rows[j].status \in Status \ {"draft", "voided", "written_off"}
    BY <1>1, <1>2, <1>7, <1>8 DEF Settles, Exists, InvoiceRow
  <2>2. rows[j].status # "paid"
    <3> SUFFICES ASSUME rows[j].status = "paid" PROVE FALSE
      OBVIOUS
    <3>1. rows[j].paid = AppliedTo(j) BY DEF Money, RowMoney, Agreed
    <3>2. rows[j].due = 0 /\ rows[j].due = rows[j].total - rows[j].paid
      BY DEF Inv, StatusFollowsMoney, RowAgrees
    <3> QED BY <1>7, <1>8, <1>9, <1>10, <3>1, <3>2
  <2> QED BY <2>1, <2>2 DEF Open, Status
<1>12. Settled(rows[j], SettledRow(w, j), AppliedTo(j) + ws[w].alloc[j])
  <2> DEFINE s == SettledStatus(rows[j].total, Cash(w, j), rows[j].dueDay < today)
             r == [rows[j] EXCEPT !.paid = Cash(w, j), !.due = rows[j].total - Cash(w, j),
                                  !.status = s]
  <2>1. SettledRow(w, j) = r BY DEF SettledRow
  <2>2. /\ r.paid = Cash(w, j) /\ r.status = s /\ r.total = rows[j].total
        /\ r.number = rows[j].number /\ r.entry = rows[j].entry
    BY <1>8 DEF InvoiceRow
  <2>3. s \in Owed
    <3> DEFINE late == rows[j].dueDay < today
    <3>1. late \in BOOLEAN OBVIOUS
    <3> HIDE DEF late
    <3>2. SettledStatus(rows[j].total, Cash(w, j), late) \in Owed
      BY <1>8, <1>9, <3>1 DEF SettledStatus, Owed
    <3> QED BY <3>2 DEF late
  <2> HIDE DEF r, s
  <2> QED BY <1>9, <1>11, <2>1, <2>2, <2>3 DEF Settled, SameBill
<1> HIDE DEF i
<1>13. lock[j] = Nobody /\ lock' = [lock EXCEPT ![j] = w]
  BY <1>1, <1>2 DEF Take, Free
<1> QED BY <1>1, <1>2, <1>3, <1>12, <1>13, PrepareKeepsMoney DEF i

LEMMA MarkOverdueKeepsMoney ==
  ASSUME ConstantsOK, Inv, Money, NEW w \in Worker, MarkOverdue(w) PROVE Money'
<1> DEFINE i == Head(ws[w].todo)
<1>1. /\ ws[w].at = "mark" /\ ws[w].todo # <<>> /\ TakeNext(w, i)
      /\ Updated(w, i, IF BecameLate(rows[i], ws[w].asOf)
                       THEN [rows[i] EXCEPT !.status = "overdue"] ELSE rows[i])
      /\ UNCHANGED <<rows, books, receipt, applied, lastNumber>>
  BY DEF MarkOverdue
<1>2. PICK j \in Invoice : j = i BY <1>1, NextInvoice DEF Inv
<1> DEFINE q == [rows[j] EXCEPT !.status = "overdue"]
           r == IF BecameLate(rows[j], ws[w].asOf) THEN q ELSE rows[j]
<1>3. rows[j] \in InvoiceRow BY DEF Inv, TypeOK
<1>4. /\ q \in InvoiceRow /\ q.status = "overdue" /\ q.total = rows[j].total
      /\ q.paid = rows[j].paid /\ q.number = rows[j].number /\ q.entry = rows[j].entry
  BY <1>3 DEF InvoiceRow, Status
<1> HIDE DEF i, q
<1>5. r \in InvoiceRow BY <1>3, <1>4
<1>6. Swept(rows[j], r)
  <2>1. CASE BecameLate(rows[j], ws[w].asOf)
    <3>1. r = q /\ Open(rows[j]) BY <2>1 DEF BecameLate, Open
    <3> QED BY <1>4, <3>1 DEF Swept, Settled, SameBill, Owed
  <2>2. CASE ~BecameLate(rows[j], ws[w].asOf) BY <2>2 DEF Swept
  <2> QED BY <2>1, <2>2
<1>7. Updated(w, j, r) BY <1>1, <1>2 DEF q
<1> HIDE DEF r
<1>8. lock[j] \in {Nobody, w} /\ lock' = [lock EXCEPT ![j] = w] BY <1>1, <1>2 DEF TakeNext
<1>9. j = Head(ws[w].todo) BY <1>2 DEF i
<1>10. ws[w].at = "mark" /\ ws[w].todo # <<>>
       /\ UNCHANGED <<rows, books, receipt, applied, lastNumber>>
  BY <1>1
<1> QED BY <1>5, <1>6, <1>7, <1>8, <1>9, <1>10, PrepareKeepsMoney

LEMMA UnmarkOverdueKeepsMoney ==
  ASSUME ConstantsOK, Inv, Money, NEW w \in Worker, UnmarkOverdue(w) PROVE Money'
<1> DEFINE i == Head(ws[w].todo)
           c == Current(w, i)
<1>1. /\ ws[w].at = "unmark" /\ ws[w].todo # <<>> /\ TakeNext(w, i)
      /\ Updated(w, i, IF NoLongerLate(c, ws[w].asOf)
                       THEN [c EXCEPT !.status = StatusAfterOverdue(c)] ELSE c)
      /\ UNCHANGED <<rows, books, receipt, applied, lastNumber>>
  BY DEF UnmarkOverdue
<1>2. PICK j \in Invoice : j = i BY <1>1, NextInvoice DEF Inv
<1> DEFINE b == Current(w, j)
           s == StatusAfterOverdue(b)
           q == [b EXCEPT !.status = s]
           r == IF NoLongerLate(b, ws[w].asOf) THEN q ELSE b
<1>3. b \in InvoiceRow BY CurrentOK
<1>4. Swept(rows[j], b)
  <2>1. CASE ws[w].new[j] = NoRow
    <3>1. b = rows[j] BY <2>1 DEF Current
    <3> QED BY <3>1 DEF Swept
  <2>2. CASE ws[w].new[j] # NoRow
    <3>1. Prepared(w, j) /\ b = ws[w].new[j] BY <2>2 DEF Money, WorkMoney, Current
    <3> QED BY <1>1, <3>1 DEF Prepared
  <2> QED BY <2>1, <2>2
<1> HIDE DEF b
<1>5. s \in {"paid", "partially_paid", "sent"}
  <2>1. b.due \in Nat /\ b.paid \in Nat BY <1>3 DEF InvoiceRow
  <2> QED BY <2>1 DEF StatusAfterOverdue
<1> HIDE DEF s
<1>6. /\ q \in InvoiceRow /\ q.status = s /\ q.total = b.total
      /\ q.paid = b.paid /\ q.number = b.number /\ q.entry = b.entry
  <2>1. s \in Status BY <1>5 DEF Status
  <2> QED BY <1>3, <2>1 DEF InvoiceRow
<1> HIDE DEF q
<1>7. r \in InvoiceRow BY <1>3, <1>6
<1>8. Swept(rows[j], r)
  <2>1. CASE NoLongerLate(b, ws[w].asOf)
    <3>1. r = q /\ b.status = "overdue" BY <2>1 DEF NoLongerLate
    <3>2. Open(rows[j]) /\ b.total = rows[j].total /\ b.number = rows[j].number
          /\ b.entry = rows[j].entry /\ b.paid = rows[j].paid
      BY <1>4, <3>1 DEF Swept, Settled, SameBill, Open
    <3> QED BY <1>5, <1>6, <3>1, <3>2 DEF Swept, Settled, SameBill, Owed
  <2>2. CASE ~NoLongerLate(b, ws[w].asOf)
    <3>1. r = b BY <2>2
    <3> QED BY <1>4, <3>1
  <2> QED BY <2>1, <2>2
<1>9. Updated(w, j, r) BY <1>1, <1>2 DEF b, q, s
<1> HIDE DEF r, c, i
<1>10. lock[j] \in {Nobody, w} /\ lock' = [lock EXCEPT ![j] = w] BY <1>1, <1>2 DEF TakeNext
<1>11. j = Head(ws[w].todo) BY <1>2 DEF i
<1>12. ws[w].at = "unmark" /\ ws[w].todo # <<>>
       /\ UNCHANGED <<rows, books, receipt, applied, lastNumber>>
  BY <1>1
<1> QED BY <1>7, <1>8, <1>9, <1>10, <1>11, <1>12, PrepareKeepsMoney

LEMMA BeginSweepKeepsMoney ==
  ASSUME ConstantsOK, Inv, Money, NEW w \in Worker, BeginSweep(w) PROVE Money'
<1> DEFINE S == {i \in Invoice : BecameLate(rows[i], today)}
<1>1. PICK order \in SetToSeqs(S) :
        ws' = [ws EXCEPT ![w] = [Idle EXCEPT !.at = "mark", !.todo = order, !.asOf = today]]
  BY DEF BeginSweep
<1>2. S \in SUBSET Invoice /\ \A i \in S : Exists(i) BY DEF BecameLate, Exists
<1> HIDE DEF S
<1> DEFINE k == [Idle EXCEPT !.at = "mark", !.todo = order, !.asOf = today]
<1>3. k.at = "mark" /\ k.todo = order /\ \A j \in Invoice : k.new[j] = NoRow BY DEF Idle
<1>4. ws' = [ws EXCEPT ![w] = k] /\ ws'[w] = k BY <1>1 DEF Inv, TypeOK
<1> HIDE DEF k
<1>5. \A i \in Invoice : Listed(k, i) => Exists(i)
  <2>1. \A n \in 1..Len(order) : order[n] \in S BY <1>2, OrderListsAll
  <2> QED BY <1>2, <1>3, <2>1 DEF Listed
<1>6. UNCHANGED <<rows, books, receipt, applied, lastNumber, lock>> BY DEF BeginSweep
<1>7. WorkMoney(w)'
  <2>1. \A i \in Invoice : Listed(ws[w], i)' => Exists(i)'
    BY <1>4, <1>5, <1>6 DEF Listed, Exists
  <2>2. ws'[w].at = "mark" /\ \A j \in Invoice : ws'[w].new[j] = NoRow BY <1>3, <1>4
  <2> QED BY <2>1, <2>2 DEF WorkMoney
<1> QED BY <1>4, <1>6, <1>7, WorkBecomes

LEMMA SecondUpdateKeepsMoney ==
  ASSUME ConstantsOK, Inv, Money, NEW w \in Worker, SecondUpdate(w) PROVE Money'
<1> DEFINE S == {i \in Invoice : NoLongerLate(Current(w, i), ws[w].asOf)}
<1>1. PICK order \in SetToSeqs(S) :
        ws' = [ws EXCEPT ![w].at = "unmark", ![w].todo = order]
  BY DEF SecondUpdate
<1>2. ws[w].at = "mark" /\ ws[w] \in Work /\ WorkMoney(w)
      /\ UNCHANGED <<rows, books, receipt, applied, lastNumber, lock>>
  BY DEF SecondUpdate, Inv, TypeOK, Money
<1>3. S \in SUBSET Invoice OBVIOUS
<1>4. ASSUME NEW i \in S PROVE Exists(i)
  <2>1. i \in Invoice /\ Current(w, i).status = "overdue" BY DEF NoLongerLate
  <2>2. CASE ws[w].new[i] = NoRow
    <3>1. Current(w, i) = rows[i] BY <2>2 DEF Current
    <3> QED BY <2>1, <3>1 DEF Exists
  <2>3. CASE ws[w].new[i] # NoRow BY <1>2, <2>1, <2>3 DEF WorkMoney, Prepared
  <2> QED BY <2>2, <2>3
<1> HIDE DEF S
<1> DEFINE k == [ws[w] EXCEPT !.at = "unmark", !.todo = order]
<1>5. k.at = "unmark" /\ k.todo = order /\ k.new = ws[w].new BY <1>2 DEF Work
<1>6. ws' = [ws EXCEPT ![w] = k] /\ ws'[w] = k BY <1>1 DEF Inv, TypeOK
<1> HIDE DEF k
<1>7. \A i \in Invoice : Listed(k, i) => Exists(i)
  <2>1. \A n \in 1..Len(order) : order[n] \in S BY <1>3, OrderListsAll
  <2> QED BY <1>4, <1>5, <2>1 DEF Listed
<1>8. ASSUME NEW i \in Invoice, k.new[i] # NoRow PROVE Prepared(w, i)'
  <2>1. Prepared(w, i) BY <1>2, <1>5, <1>8 DEF WorkMoney
  <2>2. Exists(i) /\ lock[i] = w /\ Swept(rows[i], ws[w].new[i])
    BY <1>2, <2>1 DEF Prepared
  <2> QED BY <1>2, <1>5, <1>6, <2>2 DEF Prepared, Exists
<1>9. WorkMoney(w)'
  <2>1. \A i \in Invoice : Listed(ws[w], i)' => Exists(i)'
    BY <1>2, <1>6, <1>7 DEF Listed, Exists
  <2>2. ws'[w].at = "unmark" /\ \A j \in Invoice : ws'[w].new[j] # NoRow => Prepared(w, j)'
    BY <1>5, <1>6, <1>8
  <2> QED BY <2>1, <2>2 DEF WorkMoney
<1> QED BY <1>2, <1>6, <1>9, WorkBecomes

-----------------------------------------------------------------------------
(* The steps of a request that commit.                                     *)

LEMMA WriteEditKeepsMoney ==
  ASSUME ConstantsOK, Inv, Money, NEW w \in Worker, WriteEdit(w) PROVE Money'
<1> DEFINE i == ws[w].doc
           seen == ws[w].seen
<1>1. /\ ws[w].at = "edit" /\ lock[i] = Nobody /\ End(w)
      /\ UNCHANGED <<books, receipt, applied, lastNumber>>
  BY DEF WriteEdit, Free
<1>2. ws[w] \in Work /\ WorkOK(ws[w]) /\ WorkMoney(w)
  BY DEF Inv, TypeOK, WorkAgrees, Money
<1>3. /\ i \in Invoice /\ seen \in InvoiceRow /\ rows[i].status = "draft"
      /\ seen.status = "draft" /\ seen.paid = 0 /\ seen.number = 0
  BY <1>1, <1>2 DEF WorkOK, Work, WorkMoney
<1>4. PICK t \in LineTotal \cup {rows[i].total}, d \in Day :
        rows' = [rows EXCEPT ![i] = EditedRow(seen, t, d)]
  BY DEF WriteEdit
<1> HIDE DEF i, seen
<1> DEFINE r == [seen EXCEPT !.total = t, !.due = t - seen.paid, !.dueDay = d]
<1>5. r.status = "draft" /\ r.paid = 0 /\ r.number = 0 BY <1>3 DEF InvoiceRow
<1>6. rows' = [rows EXCEPT ![i] = r] BY <1>4 DEF EditedRow
<1> HIDE DEF r
<1>7. rows'[i] = r /\ \A j \in Invoice \ {i} : rows'[j] = rows[j]
  BY <1>3, <1>6 DEF Inv, TypeOK
<1>8. (\A j : AppliedTo(j)' = AppliedTo(j)) /\ (\A p : AppliedFrom(p)' = AppliedFrom(p))
  BY <1>1, NothingApplied
<1>9. RowMoney(i) /\ rows[i].paid = 0 /\ rows[i].number = 0
  <2>1. RowMoney(i) /\ RowAgrees(rows[i]) BY <1>3 DEF Money, Inv, StatusFollowsMoney
  <2> QED BY <1>3, <2>1 DEF RowMoney, Agreed, RowAgrees
<1>10. \A j \in Invoice : RowMoney(j)'
  <2> SUFFICES ASSUME NEW j \in Invoice PROVE RowMoney(j)'
    OBVIOUS
  <2>1. CASE j = i BY <1>1, <1>3, <1>5, <1>7, <1>8, <1>9, <2>1 DEF RowMoney, Agreed
  <2>2. CASE j # i
    <3>1. rows'[j] = rows[j] /\ books'[j] = books[j] BY <1>1, <1>7, <2>2
    <3> QED BY <1>8, <3>1 DEF Money, RowMoney
  <2> QED BY <2>1, <2>2
<1>11. \A p \in Payment : ReceiptMoney(p)' BY <1>1, <1>8 DEF Money, ReceiptMoney
<1>12. Numbered'
  <2>1. \A j \in Invoice : rows'[j].number = rows[j].number BY <1>5, <1>7, <1>9
  <2> QED BY <1>1, <2>1 DEF Numbered, Money
<1>13. ASSUME NEW v \in Worker PROVE WorkMoney(v)'
  <2>1. CASE v = w
    <3>1. ws'[w] = Idle BY <1>1, EndLeavesOthers DEF Inv
    <3> QED BY <2>1, <3>1, IdleMoney
  <2>2. CASE v # w
    <3>1. ws'[v] = ws[v] /\ \A j \in Invoice : lock[j] = v => lock'[j] = v
      BY <1>1, <2>2, EndLeavesOthers DEF Inv
    <3>2. WorkMoney(v) /\ WorkOK(ws[v]) /\ v # Nobody
      BY DEF Money, Inv, WorkAgrees, ConstantsOK
    <3>3. ASSUME NEW j \in Invoice, ws[v].new[j] # NoRow
          PROVE  rows'[j] = rows[j] /\ AppliedTo(j)' = AppliedTo(j)
      <4>1. lock[j] = v BY <3>2, <3>3 DEF WorkMoney, Prepared
      <4>2. j # i BY <1>1, <3>2, <4>1 DEF i
      <4> QED BY <1>7, <1>8, <4>2
    <3>4. \A j \in Invoice : Exists(j) => rows'[j].status # "absent"
      BY <1>3, <1>5, <1>7 DEF Exists
    <3>5. ws[v].at = "edit" => rows'[ws[v].doc].status = "draft"
      <4> SUFFICES ASSUME ws[v].at = "edit" PROVE rows'[ws[v].doc].status = "draft"
        OBVIOUS
      <4>1. ws[v].doc \in Invoice /\ rows[ws[v].doc].status = "draft"
        BY <3>2 DEF WorkOK, WorkMoney
      <4> QED BY <1>5, <1>7, <4>1
    <3> QED BY <1>1, <3>1, <3>3, <3>4, <3>5, OthersKeep DEF Inv
  <2> QED BY <2>1, <2>2
<1> QED BY <1>10, <1>11, <1>12, <1>13 DEF Money

(* The rows a request has prepared are written, and it ends.               *)
Becomes(w, i) ==
  /\ ws[w].new[i] = NoRow => AppliedTo(i)' = AppliedTo(i)
  /\ ws[w].new[i] # NoRow =>
       \/ ws[w].new[i] = rows[i] /\ AppliedTo(i)' = AppliedTo(i)
       \/ Settled(rows[i], ws[w].new[i], AppliedTo(i)')

LEMMA CommitKeepsMoney ==
  ASSUME ConstantsOK, Inv, Money, NEW w \in Worker, WriteRows(w), End(w),
         UNCHANGED <<books, lastNumber>>,
         \A p \in Payment : ReceiptMoney(p)',
         \A p \in Payment : receipt[p].status # "absent" => receipt'[p].status # "absent",
         \A i \in Invoice : Becomes(w, i)
  PROVE  Money'
<1>1. ASSUME NEW i \in Invoice
      PROVE  \/ rows'[i] = rows[i] /\ AppliedTo(i)' = AppliedTo(i)
             \/ ws[w].new[i] # NoRow /\ Settled(rows[i], rows'[i], AppliedTo(i)')
  <2>1. rows'[i] = Current(w, i) BY DEF WriteRows
  <2> QED BY <2>1 DEF Becomes, Current
<1>2. ASSUME NEW i \in Invoice, Settled(rows[i], rows'[i], AppliedTo(i)')
      PROVE  RowMoney(i)' /\ rows'[i].number = rows[i].number /\ Exists(i)
             /\ rows[i].status # "draft" /\ rows'[i].status # "absent"
  <2>1. RowMoney(i) /\ Open(rows[i]) BY <1>2 DEF Money, Settled
  <2>2. books'[i] = books[i] OBVIOUS
  <2>3. rows'[i].status \in Owed /\ SameBill(rows[i], rows'[i])
        /\ rows'[i].paid = AppliedTo(i)'
    BY <1>2 DEF Settled
  <2> QED BY <2>1, <2>2, <2>3 DEF RowMoney, Agreed, SameBill, Owed, Open, Exists
<1>3. ASSUME NEW i \in Invoice PROVE RowMoney(i)' /\ rows'[i].number = rows[i].number
  <2>1. CASE rows'[i] = rows[i] /\ AppliedTo(i)' = AppliedTo(i)
    BY <2>1 DEF Money, RowMoney
  <2>2. CASE Settled(rows[i], rows'[i], AppliedTo(i)') BY <1>2, <2>2
  <2> QED BY <1>1, <2>1, <2>2
<1>4. Numbered' BY <1>3 DEF Numbered, Money
<1>5. ASSUME NEW v \in Worker PROVE WorkMoney(v)'
  <2>1. CASE v = w
    <3>1. ws'[w] = Idle BY EndLeavesOthers DEF Inv
    <3> QED BY <2>1, <3>1, IdleMoney
  <2>2. CASE v # w
    <3>1. ws'[v] = ws[v] /\ \A j \in Invoice : lock[j] = v => lock'[j] = v
      BY <2>2, EndLeavesOthers DEF Inv
    <3>2. WorkMoney(v) /\ WorkOK(ws[v]) /\ WorkMoney(w) BY DEF Money, Inv, WorkAgrees
    <3>3. ASSUME NEW j \in Invoice, ws[v].new[j] # NoRow
          PROVE  rows'[j] = rows[j] /\ AppliedTo(j)' = AppliedTo(j)
      <4>1. lock[j] = v BY <3>2, <3>3 DEF WorkMoney, Prepared
      <4>2. ws[w].new[j] = NoRow BY <2>2, <3>2, <4>1 DEF WorkMoney, Prepared
      <4> QED BY <1>1, <4>2
    <3>4. \A j \in Invoice : Exists(j) => rows'[j].status # "absent"
      BY <1>1, <1>2 DEF Exists
    <3>5. ws[v].at = "edit" => rows'[ws[v].doc].status = "draft"
      <4> SUFFICES ASSUME ws[v].at = "edit" PROVE rows'[ws[v].doc].status = "draft"
        OBVIOUS
      <4>1. ws[v].doc \in Invoice /\ rows[ws[v].doc].status = "draft"
        BY <3>2 DEF WorkOK, WorkMoney
      <4>2. rows'[ws[v].doc] = rows[ws[v].doc] BY <1>1, <1>2, <4>1
      <4> QED BY <4>1, <4>2
    <3> QED BY <3>1, <3>3, <3>4, <3>5, OthersKeep DEF Inv
  <2> QED BY <2>1, <2>2
<1> QED BY <1>3, <1>4, <1>5 DEF Money

LEMMA CommitSweepKeepsMoney ==
  ASSUME ConstantsOK, Inv, Money, NEW w \in Worker, CommitSweep(w) PROVE Money'
<1>1. /\ ws[w].at = "unmark" /\ WriteRows(w) /\ End(w)
      /\ UNCHANGED <<books, receipt, applied, lastNumber>>
  BY DEF CommitSweep
<1>2. (\A i : AppliedTo(i)' = AppliedTo(i)) /\ (\A p : AppliedFrom(p)' = AppliedFrom(p))
  BY <1>1, NothingApplied
<1>3. \A p \in Payment : ReceiptMoney(p)' BY <1>1, <1>2 DEF Money, ReceiptMoney
<1>4. ASSUME NEW i \in Invoice PROVE Becomes(w, i)
  <2>1. CASE ws[w].new[i] = NoRow BY <1>2, <2>1 DEF Becomes
  <2>2. CASE ws[w].new[i] # NoRow
    <3>1. Prepared(w, i) BY <2>2 DEF Money, WorkMoney
    <3>2. Swept(rows[i], ws[w].new[i]) BY <1>1, <3>1 DEF Prepared
    <3>3. CASE ws[w].new[i] = rows[i] BY <1>2, <2>2, <3>3 DEF Becomes
    <3>4. CASE Settled(rows[i], ws[w].new[i], rows[i].paid)
      <4>1. rows[i].paid = AppliedTo(i)
        BY <3>4 DEF Settled, Open, Money, RowMoney, Agreed
      <4> QED BY <1>2, <2>2, <3>4, <4>1 DEF Becomes
    <3> QED BY <3>2, <3>3, <3>4 DEF Swept
  <2> QED BY <2>1, <2>2
<1>5. \A p \in Payment : receipt[p].status # "absent" => receipt'[p].status # "absent"
  BY <1>1
<1> QED BY <1>1, <1>3, <1>4, <1>5, CommitKeepsMoney

LEMMA CommitApplyKeepsMoney ==
  ASSUME ConstantsOK, Inv, Money, NEW w \in Worker, CommitApply(w) PROVE Money'
<1>1. ws[w] \in Work /\ WorkOK(ws[w]) /\ WorkMoney(w) /\ ws[w].at = "settle"
      /\ ws[w].todo = <<>>
  BY DEF Inv, TypeOK, WorkAgrees, Money, CommitApply
<1>2. PICK p \in Payment, alloc \in [Invoice -> Nat] : p = ws[w].doc /\ alloc = ws[w].alloc
  BY <1>1 DEF WorkOK, Work
<1>12. PICK left : left = Leftover(w, p) OBVIOUS
<1>3. /\ applied' = [applied EXCEPT ![p] = [i \in Invoice |-> applied[p][i] + alloc[i]]]
      /\ receipt' = [receipt EXCEPT ![p].unapplied = left]
      /\ WriteRows(w) /\ End(w) /\ UNCHANGED <<books, lastNumber>>
  BY <1>2, <1>12 DEF CommitApply, Inv, TypeOK
<1>4. left = receipt[p].amount - AppliedFrom(p) - SumFunction(alloc)
  BY <1>2, <1>12 DEF Leftover
<1>5. receipt[p].status # "absent" BY <1>1, <1>2 DEF WorkMoney
<1>6. /\ \A i \in Invoice : AppliedTo(i)' = AppliedTo(i) + alloc[i]
      /\ AppliedFrom(p)' = AppliedFrom(p) + SumFunction(alloc)
      /\ AppliedFrom(p) \in Int /\ SumFunction(alloc) \in Int
      /\ \A q \in Payment \ {p} : AppliedFrom(q)' = AppliedFrom(q)
  BY <1>2, <1>3, AllocationAdds DEF Inv
<1>7. receipt \in [Payment -> Receipt] /\ receipt[p].amount \in Int
  BY <1>2 DEF Inv, TypeOK, Receipt
<1>8. /\ receipt'[p].amount = receipt[p].amount /\ receipt'[p].unapplied = left
      /\ receipt'[p].status = receipt[p].status
      /\ \A q \in Payment \ {p} : receipt'[q] = receipt[q]
  BY <1>2, <1>3, <1>7 DEF Receipt
<1>9. ASSUME NEW q \in Payment PROVE ReceiptMoney(q)'
  <2>1. CASE q = p
    <3>1. receipt[p].amount = left + AppliedFrom(p)'
      BY ONLY <1>4, <1>6, <1>7
    <3> QED BY <1>5, <1>8, <2>1, <3>1 DEF ReceiptMoney, AppliedFrom
  <2>2. CASE q # p
    <3>1. receipt'[q] = receipt[q] /\ AppliedFrom(q)' = AppliedFrom(q)
      BY <1>6, <1>8, <2>2
    <3>2. applied'[q] = applied[q] BY <1>3, <2>2 DEF Inv, TypeOK
    <3> QED BY <3>1, <3>2 DEF Money, ReceiptMoney
  <2> QED BY <2>1, <2>2
<1>10. ASSUME NEW i \in Invoice PROVE Becomes(w, i)
  <2>1. AppliedTo(i) \in Nat /\ AppliedTo(i)' = AppliedTo(i) + alloc[i]
    BY <1>6, AppliedNat DEF Inv
  <2>2. CASE ws[w].new[i] = NoRow
    <3>1. ~Listed(ws[w], i) BY <1>1 DEF Listed
    <3>2. ~(alloc[i] > 0) BY <1>1, <1>2, <2>2, <3>1 DEF WorkMoney, Asks
    <3>3. AppliedTo(i)' = AppliedTo(i) BY <1>2, <2>1, <3>2
    <3> QED BY <2>2, <3>3 DEF Becomes
  <2>3. CASE ws[w].new[i] # NoRow
    <3>1. Settled(rows[i], ws[w].new[i], AppliedTo(i) + alloc[i])
      BY <1>1, <1>2, <2>3 DEF WorkMoney, Prepared
    <3> QED BY <2>1, <2>3, <3>1 DEF Becomes
  <2> QED BY <2>2, <2>3
<1>11. \A q \in Payment : receipt[q].status # "absent" => receipt'[q].status # "absent"
  BY <1>5, <1>8
<1> QED BY <1>3, <1>9, <1>10, <1>11, CommitKeepsMoney

-----------------------------------------------------------------------------
LEMMA InitMoney == ConstantsOK /\ Init => Money
<1> SUFFICES ASSUME ConstantsOK, Init PROVE Money
  OBVIOUS
<1>1. IsFiniteSet(Invoice) /\ IsFiniteSet(Payment) BY DEF ConstantsOK
<1>2. ASSUME NEW i \in Invoice PROVE AppliedTo(i) = 0
  <2> DEFINE f == [p \in Payment |-> applied[p][i]]
  <2>1. f \in [Payment -> Nat] /\ \A p \in Payment : f[p] = 0 BY DEF Init
  <2> HIDE DEF f
  <2>2. SumFunction(f) = 0 BY <1>1, <2>1, EmptySum
  <2> QED BY <2>2 DEF AppliedTo, f
<1>3. ASSUME NEW p \in Payment PROVE AppliedFrom(p) = 0
  <2> DEFINE f == applied[p]
  <2>1. f \in [Invoice -> Nat] /\ \A i \in Invoice : f[i] = 0 BY DEF Init
  <2> HIDE DEF f
  <2>2. SumFunction(f) = 0 BY <1>1, <2>1, EmptySum
  <2> QED BY <2>2 DEF AppliedFrom, f
<1>4. \A i \in Invoice : RowMoney(i) BY <1>2 DEF Init, NoRow, RowMoney, Agreed
<1>5. \A p \in Payment : ReceiptMoney(p) BY <1>3 DEF Init, ReceiptMoney
<1>6. ASSUME NEW w \in Worker PROVE WorkMoney(w)
  <2>1. ws[w] = Idle BY DEF Init
  <2>2. Idle.at = "idle" /\ Idle.todo = <<>> /\ \A i \in Invoice : Idle.new[i] = NoRow
    BY DEF Idle
  <2>3. \A i : ~Listed(Idle, i) BY <2>2 DEF Listed
  <2> QED BY <2>1, <2>2, <2>3 DEF WorkMoney
<1>7. Numbered BY DEF Init, Numbered, NoRow
<1> QED BY <1>4, <1>5, <1>6, <1>7 DEF Money

LEMMA NextKeepsMoney ==
  ASSUME ConstantsOK, OneDesk = TRUE, Inv, Money, [Next]_vars PROVE Money'
<1>1. ASSUME NEW i \in Invoice,
             CreateInvoice(i) \/ Issue(i) \/ Void(i) \/ WriteOff(i) \/ VoidFromLedger(i)
      PROVE  Money'
  BY <1>1, CreateKeepsMoney, IssueKeepsMoney, VoidKeepsMoney, WriteOffKeepsMoney,
     VoidFromLedgerKeepsMoney
<1>2. ASSUME NEW p \in Payment, Receive(p) \/ Refund(p) PROVE Money'
  BY <1>2, ReceiveKeepsMoney, RefundKeepsMoney
<1>3. ASSUME NEW w \in Worker, Apply(w) PROVE Money'
  BY <1>3, BeginApplyKeepsMoney, LockReceiptKeepsMoney, SettleInvoiceKeepsMoney,
     CommitApplyKeepsMoney DEF Apply
<1>4. ASSUME NEW w \in Worker, Edit(w) PROVE Money'
  BY <1>4, ReadForEditKeepsMoney, WriteEditKeepsMoney DEF Edit
<1>5. ASSUME NEW w \in Worker, Sweep(w) PROVE Money'
  BY <1>5, BeginSweepKeepsMoney, MarkOverdueKeepsMoney, SecondUpdateKeepsMoney,
     UnmarkOverdueKeepsMoney, CommitSweepKeepsMoney DEF Sweep
<1>6. ASSUME NEW w \in Worker, Refuse(w) \/ AbortDeadlock(w) \/ Crash(w) PROVE Money'
  <2>1. Rollback(w) BY <1>6 DEF Refuse, AbortDeadlock, Crash
  <2> QED BY <2>1, RollbackKeepsMoney
<1>7. CASE Tick
  <2>1. UNCHANGED <<rows, books, receipt, applied, lastNumber, lock, ws>> BY <1>7 DEF Tick
  <2> QED BY <2>1, QuietStep DEF Inv
<1>8. CASE UNCHANGED vars
  <2>1. UNCHANGED <<rows, books, receipt, applied, lastNumber, lock, ws>> BY <1>8 DEF vars
  <2> QED BY <2>1, QuietStep DEF Inv
<1> QED BY <1>1, <1>2, <1>3, <1>4, <1>5, <1>6, <1>7, <1>8 DEF Next

LEMMA MoneyAlways == OneDesk = TRUE => (Spec => [](Inv /\ Money))
<1> SUFFICES ASSUME OneDesk = TRUE PROVE Spec => [](Inv /\ Money)
  OBVIOUS
<1>1. Init => Inv /\ Money BY ConstantsOK, InitInv, InitMoney
<1>2. Inv /\ Money /\ [Next]_vars => (Inv /\ Money)'
  BY ConstantsOK, NextKeepsInv, NextKeepsMoney
<1> QED BY <1>1, <1>2, PTL DEF Spec

(* Applications are the one record of where money went: what an invoice    *)
(* caches as paid and what a receipt caches as left over follow from them, *)
(* for any number of invoices, receipts and requests that allocate, sweep, *)
(* edit, correct, fail and die beside each other.  The recomputation under *)
(* the row lock (apply_payment) is what the proof rests on.                *)
THEOREM MoneyAddsUp == OneDesk = TRUE => (Spec => []ReceiptsAddUp)
<1>1. Inv /\ Money => ReceiptsAddUp
  <2> SUFFICES ASSUME Inv, Money PROVE ReceiptsAddUp
    OBVIOUS
  <2>1. PaidIsApplied BY DEF Money, RowMoney, Agreed, PaidIsApplied
  <2>2. ReceiptConserved BY DEF Money, ReceiptMoney, ReceiptConserved
  <2> QED BY <2>1, <2>2 DEF ReceiptsAddUp
<1> SUFFICES ASSUME OneDesk = TRUE PROVE Spec => []ReceiptsAddUp
  OBVIOUS
<1>2. Spec => [](Inv /\ Money) BY MoneyAlways
<1> QED BY <1>1, <1>2, PTL

(* void_invoice and write_off_invoice close an invoice for what is still   *)
(* owed: cash and loss are the invoice together, and a voided invoice has  *)
(* neither cash against it nor an entry left in the ledger.                *)
THEOREM CorrectionsFit == OneDesk = TRUE => (Spec => []CorrectionsTakeTheRest)
<1>1. Inv /\ Money => CorrectionsTakeTheRest
  BY DEF Money, RowMoney, Agreed, CorrectionsTakeTheRest, VoidedIsClean, WriteOffIsTheRest
<1> SUFFICES ASSUME OneDesk = TRUE PROVE Spec => []CorrectionsTakeTheRest
  OBVIOUS
<1>2. Spec => [](Inv /\ Money) BY MoneyAlways
<1> QED BY <1>1, <1>2, PTL

(* What was issued is in the ledger for its total, under a number of its   *)
(* own, and the numbers have no gap.                                       *)
THEOREM IssuesAreRecorded == OneDesk = TRUE => (Spec => []IssueIsRecorded)
<1>1. Inv /\ Money => IssueIsRecorded
  <2> SUFFICES ASSUME Inv, Money PROVE IssueIsRecorded
    OBVIOUS
  <2>1. EntryIsTotal BY DEF Money, RowMoney, Agreed, EntryIsTotal, Issued
  <2>2. Numbered /\ lastNumber \in Nat BY DEF Money, Inv, TypeOK
  <2>3. {rows[i].number : i \in Invoice} \ {0} = 1..lastNumber
    <3>1. \A i \in Invoice : rows[i].number \in 0..lastNumber BY <2>2 DEF Numbered
    <3>2. \A n \in 1..lastNumber : \E i \in Invoice : rows[i].number = n
      BY <2>2 DEF Numbered
    <3>3. ASSUME NEW n \in {rows[i].number : i \in Invoice} \ {0} PROVE n \in 1..lastNumber
      BY <2>2, <3>1, <3>3
    <3>4. ASSUME NEW n \in 1..lastNumber
          PROVE  n \in {rows[i].number : i \in Invoice} \ {0}
      BY <2>2, <3>2, <3>4
    <3> QED BY <3>3, <3>4
  <2> QED BY <2>1, <2>2, <2>3 DEF IssueIsRecorded, NumbersOnInvoices, Numbered
<1> SUFFICES ASSUME OneDesk = TRUE PROVE Spec => []IssueIsRecorded
  OBVIOUS
<1>2. Spec => [](Inv /\ Money) BY MoneyAlways
<1> QED BY <1>1, <1>2, PTL

-----------------------------------------------------------------------------
(* No step changes an invoice that is settled, voided or written off.      *)

Final(r) == r.status \in {"paid", "voided", "written_off"}

(* What a commit writes over a settled invoice is the invoice.             *)
LEMMA CommitLeavesFinal ==
  ASSUME Money, NEW w \in Worker, WriteRows(w), NEW i \in Invoice, Final(rows[i]),
         ws[w].at \in {"settle", "unmark"}
  PROVE  rows'[i] = rows[i]
<1>1. rows'[i] = Current(w, i) BY DEF WriteRows
<1>2. CASE ws[w].new[i] = NoRow BY <1>1, <1>2 DEF Current
<1>3. CASE ws[w].new[i] # NoRow
  <2>1. Prepared(w, i) BY <1>3 DEF Money, WorkMoney
  <2>2. ~Open(rows[i]) BY DEF Open, Final
  <2>3. ws[w].new[i] = rows[i] BY <2>1, <2>2 DEF Prepared, Swept, Settled
  <2> QED BY <1>1, <2>3 DEF Current
<1> QED BY <1>2, <1>3

LEMMA FinalStays ==
  ASSUME ConstantsOK, Inv, Money, [Next]_vars, NEW i \in Invoice, Final(rows[i])
  PROVE  rows'[i] = rows[i]
<1>1. rows \in [Invoice -> InvoiceRow] BY DEF Inv, TypeOK
<1>2. ASSUME NEW j \in Invoice,
             CreateInvoice(j) \/ Issue(j) \/ Void(j) \/ WriteOff(j) \/ VoidFromLedger(j)
      PROVE  rows'[i] = rows[i]
  <2>1. CASE i = j
    <3>1. CASE CreateInvoice(j) BY <2>1, <3>1 DEF CreateInvoice, Final, Exists
    <3>2. CASE Issue(j) BY <2>1, <3>2 DEF Issue, Final
    <3>3. CASE Void(j) BY <2>1, <3>3 DEF Void, Final, Allowed
    <3>4. CASE WriteOff(j)
      <4>1. rows[i].due > 0 /\ "written_off" \in Allowed[rows[i].status]
        BY <2>1, <3>4 DEF WriteOff
      <4>2. rows[i].due = 0 \/ rows[i].status = "voided"
        BY DEF Inv, StatusFollowsMoney, RowAgrees, Final
      <4> QED BY <4>1, <4>2 DEF Allowed
    <3>5. CASE VoidFromLedger(j) BY <3>5 DEF VoidFromLedger
    <3> QED BY <1>2, <3>1, <3>2, <3>3, <3>4, <3>5
  <2>2. CASE i # j
    BY <1>1, <1>2, <2>2 DEF CreateInvoice, Issue, Void, WriteOff, VoidFromLedger
  <2> QED BY <2>1, <2>2
<1>3. ASSUME NEW p \in Payment, Receive(p) \/ Refund(p) PROVE rows'[i] = rows[i]
  BY <1>3 DEF Receive, Refund
<1>4. ASSUME NEW w \in Worker, Apply(w) PROVE rows'[i] = rows[i]
  <2>1. CASE CommitApply(w)
    <3>1. WriteRows(w) /\ ws[w].at = "settle" BY <2>1 DEF CommitApply
    <3> QED BY <3>1, CommitLeavesFinal
  <2>2. CASE BeginApply(w) \/ LockReceipt(w) \/ SettleInvoice(w)
    BY <2>2 DEF BeginApply, LockReceipt, SettleInvoice
  <2> QED BY <1>4, <2>1, <2>2 DEF Apply
<1>5. ASSUME NEW w \in Worker, Edit(w) PROVE rows'[i] = rows[i]
  <2>1. CASE ReadForEdit(w) BY <2>1 DEF ReadForEdit
  <2>2. CASE WriteEdit(w)
    <3>1. ws[w].at = "edit" BY <2>2 DEF WriteEdit
    <3>2. rows[ws[w].doc].status = "draft" BY <3>1 DEF Money, WorkMoney
    <3>3. i # ws[w].doc BY <3>2 DEF Final
    <3>4. PICK r : rows' = [rows EXCEPT ![ws[w].doc] = r] BY <2>2 DEF WriteEdit
    <3> QED BY <1>1, <3>3, <3>4
  <2> QED BY <1>5, <2>1, <2>2 DEF Edit
<1>6. ASSUME NEW w \in Worker, Sweep(w) PROVE rows'[i] = rows[i]
  <2>1. CASE CommitSweep(w)
    <3>1. WriteRows(w) /\ ws[w].at = "unmark" BY <2>1 DEF CommitSweep
    <3> QED BY <3>1, CommitLeavesFinal
  <2>2. CASE BeginSweep(w) \/ MarkOverdue(w) \/ SecondUpdate(w) \/ UnmarkOverdue(w)
    BY <2>2 DEF BeginSweep, MarkOverdue, SecondUpdate, UnmarkOverdue
  <2> QED BY <1>6, <2>1, <2>2 DEF Sweep
<1>7. ASSUME NEW w \in Worker, Refuse(w) \/ AbortDeadlock(w) \/ Crash(w)
      PROVE  rows'[i] = rows[i]
  BY <1>7 DEF Refuse, AbortDeadlock, Crash, Rollback
<1>8. CASE Tick BY <1>8 DEF Tick
<1>9. CASE UNCHANGED vars BY <1>9 DEF vars
<1> QED BY <1>2, <1>3, <1>4, <1>5, <1>6, <1>7, <1>8, <1>9 DEF Next

(* A settled invoice stays settled and a voided or written-off one never   *)
(* changes, whatever an allocation, an edit or a sweep had read before.    *)
THEOREM SettledStays == OneDesk = TRUE => (Spec => SettledIsFinal)
<1> SUFFICES ASSUME OneDesk = TRUE PROVE Spec => SettledIsFinal
  OBVIOUS
<1>1. Inv /\ Money /\ [Next]_vars =>
        [\A i \in Invoice :
           /\ rows[i].status = "paid" => rows'[i].status = "paid"
           /\ rows[i].status \in {"voided", "written_off"} => rows'[i] = rows[i]]_vars
  <2> SUFFICES ASSUME Inv, Money, [Next]_vars, NEW i \in Invoice
               PROVE  /\ rows[i].status = "paid" => rows'[i].status = "paid"
                      /\ rows[i].status \in {"voided", "written_off"}
                           => rows'[i] = rows[i]
    OBVIOUS
  <2>1. Final(rows[i]) => rows'[i] = rows[i] BY ConstantsOK, FinalStays
  <2> QED BY <2>1 DEF Final
<1>2. Spec => [](Inv /\ Money) BY MoneyAlways
<1> QED BY <1>1, <1>2, PTL DEF Spec, SettledIsFinal

-----------------------------------------------------------------------------
(* The pages that add up what customers owe.                               *)
DueIf(S)  == [i \in Invoice |-> IF i \in S THEN rows[i].due ELSE 0]
OpenSet   == {i \in Invoice : Open(rows[i])}
VoidedSet == {i \in Invoice : rows[i].status = "voided"}
AgedSet(b) == {i \in Invoice : InBucket(i, b)}

LEMMA DueIsTotal == \A S : DueOf(S) = Total(DueIf(S), Invoice)
BY SumIsTotal DEF DueOf, DueIf

LEMMA DueInt == ASSUME ConstantsOK, TypeOK, NEW S PROVE DueOf(S) \in Int
<1>1. \A i \in Invoice : DueIf(S)[i] \in Int BY DEF TypeOK, InvoiceRow, DueIf
<1>2. IsFiniteSet(Invoice) BY DEF ConstantsOK
<1> QED BY <1>1, <1>2, TotalType, DueIsTotal

(* Two sets of invoices and their union, but for invoices with nothing due. *)
LEMMA DueSplits ==
  ASSUME ConstantsOK, TypeOK, NEW S, NEW T, NEW U,
         \A i \in Invoice : rows[i].due # 0 =>
           /\ (i \in U <=> i \in S \/ i \in T)
           /\ ~(i \in S /\ i \in T)
  PROVE  DueOf(U) = DueOf(S) + DueOf(T)
<1>1. Adds(DueIf(U), DueIf(S), DueIf(T), Invoice)
  <2> SUFFICES ASSUME NEW i \in Invoice
               PROVE  /\ DueIf(S)[i] \in Int /\ DueIf(T)[i] \in Int
                      /\ DueIf(U)[i] = DueIf(S)[i] + DueIf(T)[i]
    BY DEF Adds
  <2>1. rows[i].due \in Int BY DEF TypeOK, InvoiceRow
  <2>2. CASE rows[i].due = 0 BY <2>2 DEF DueIf
  <2>3. CASE rows[i].due # 0 BY <2>1, <2>3 DEF DueIf
  <2> QED BY <2>2, <2>3
<1>2. IsFiniteSet(Invoice) BY DEF ConstantsOK
<1>3. Total(DueIf(U), Invoice) = Total(DueIf(S), Invoice) + Total(DueIf(T), Invoice)
  BY <1>1, <1>2, TotalPlus
<1> QED BY <1>3, DueIsTotal

(* No open invoice falls between two buckets or into two.                  *)
LEMMA BucketsSplit ==
  ASSUME ConstantsOK, Inv, NEW i \in Invoice
  PROVE  /\ i \in OpenSet <=> \/ i \in AgedSet("current") \/ i \in AgedSet("1_30")
                              \/ i \in AgedSet("31_60") \/ i \in AgedSet("61_90")
                              \/ i \in AgedSet("90_plus")
         /\ \A a, b : i \in AgedSet(a) /\ i \in AgedSet(b) => a = b
<1>1. today - rows[i].dueDay \in Int
  BY DEF Inv, TypeOK, InvoiceRow, Day, ConstantsOK
<1>2. Open(rows[i]) => rows[i].due > 0
  BY DEF Inv, StatusFollowsMoney, RowAgrees, Open
<1>3. \A d \in Int : Bucket(d) \in {"current", "1_30", "31_60", "61_90", "90_plus"}
  <2> SUFFICES ASSUME NEW d \in Int
               PROVE  Bucket(d) \in {"current", "1_30", "31_60", "61_90", "90_plus"}
    OBVIOUS
  <2>1. d <= 0 \/ (0 < d /\ d <= 30) \/ (30 < d /\ d <= 60) \/ (60 < d /\ d <= 90) \/ 90 < d
    OBVIOUS
  <2> QED BY <2>1 DEF Bucket
<1>4. Bucket(today - rows[i].dueDay) \in {"current", "1_30", "31_60", "61_90", "90_plus"}
  BY <1>1, <1>3
<1> QED BY <1>2, <1>4 DEF OpenSet, AgedSet, InBucket

LEMMA AgesAddUp == ASSUME ConstantsOK, Inv PROVE AgingTotal = Outstanding
<1> USE DEF Inv
<1> DEFINE A1 == AgedSet("current")
           A2 == AgedSet("1_30")
           A3 == AgedSet("31_60")
           A4 == AgedSet("61_90")
           A5 == AgedSet("90_plus")
           B2 == A1 \cup A2
           B3 == B2 \cup A3
           B4 == B3 \cup A4
<1>1. \A i \in Invoice :
        /\ i \in OpenSet <=> i \in A1 \/ i \in A2 \/ i \in A3 \/ i \in A4 \/ i \in A5
        /\ \A a, b : i \in AgedSet(a) /\ i \in AgedSet(b) => a = b
  BY BucketsSplit
<1>2. \A i \in Invoice :
        /\ ~(i \in A1 /\ i \in A2) /\ ~(i \in B2 /\ i \in A3)
        /\ ~(i \in B3 /\ i \in A4) /\ ~(i \in B4 /\ i \in A5)
        /\ i \in OpenSet <=> i \in B4 \/ i \in A5
  BY <1>1
<1> HIDE DEF A1, A2, A3, A4, A5
<1>3. DueOf(B2) = DueOf(A1) + DueOf(A2) BY <1>2, DueSplits
<1>4. DueOf(B3) = DueOf(B2) + DueOf(A3)
  <2> HIDE DEF B2
  <2> QED BY <1>2, DueSplits
<1>5. DueOf(B4) = DueOf(B3) + DueOf(A4)
  <2> HIDE DEF B3
  <2> QED BY <1>2, DueSplits
<1>6. DueOf(OpenSet) = DueOf(B4) + DueOf(A5)
  <2> HIDE DEF B4
  <2> QED BY <1>2, DueSplits
<1>7. /\ DueOf(A1) \in Int /\ DueOf(A2) \in Int /\ DueOf(A3) \in Int
      /\ DueOf(A4) \in Int /\ DueOf(A5) \in Int
  BY DueInt
<1> HIDE DEF B2, B3, B4
<1>8. DueOf(OpenSet) = DueOf(A1) + DueOf(A2) + DueOf(A3) + DueOf(A4) + DueOf(A5)
  BY <1>3, <1>4, <1>5, <1>6, <1>7
<1>9. Outstanding = DueOf(OpenSet) BY DEF Outstanding, OpenSet
<1>10. AgingTotal = DueOf(A1) + DueOf(A2) + DueOf(A3) + DueOf(A4) + DueOf(A5)
  BY DEF AgingTotal, Aged, AgedSet, A1, A2, A3, A4, A5
<1> QED BY <1>8, <1>9, <1>10

LEMMA StatementIsOff ==
  ASSUME ConstantsOK, Inv PROVE StatementDue = Outstanding + DueOf(VoidedSet)
<1> DEFINE I == {i \in Invoice : Issued(rows[i])}
<1>1. \A i \in Invoice : rows[i].due # 0 =>
        /\ (i \in I <=> i \in OpenSet \/ i \in VoidedSet)
        /\ ~(i \in OpenSet /\ i \in VoidedSet)
  BY DEF Inv, StatusFollowsMoney, RowAgrees, TypeOK, InvoiceRow, Status, Issued, Open,
         OpenSet, VoidedSet
<1>2. DueOf(I) = DueOf(OpenSet) + DueOf(VoidedSet)
  <2> HIDE DEF I
  <2> QED BY <1>1, DueSplits DEF Inv
<1> QED BY <1>2 DEF StatementDue, Outstanding, OpenSet

(* What was applied adds up alike by invoice and by receipt.               *)
ByInvoice == [i \in Invoice |-> AppliedTo(i)]

LEMMA AppliedEitherWay ==
  ASSUME ConstantsOK, TypeOK
  PROVE  SumFunction([p \in Payment |-> AppliedFrom(p)]) = Total(ByInvoice, Invoice)
<1> DEFINE R == ByRows(applied, Payment, Invoice)
           C == ByColumns(applied, Payment, Payment, Invoice)
<1>1. IsFiniteSet(Payment) /\ IsFiniteSet(Invoice) BY DEF ConstantsOK
<1>2. applied \in [Payment -> [Invoice -> Nat]] BY DEF TypeOK
<1>3. [p \in Payment |-> AppliedFrom(p)] = R
  <2>1. \A p \in Payment : AppliedFrom(p) = Total(applied[p], Invoice)
    BY <1>2, SumIsTotal DEF AppliedFrom
  <2> QED BY <2>1 DEF ByRows
<1>4. ByInvoice = C
  <2>1. \A i \in Invoice : AppliedTo(i) = Total(Column(applied, Payment, i), Payment)
    BY AppliedIsTotal DEF Column
  <2> QED BY <2>1 DEF ByColumns, ByInvoice
<1>5. DOMAIN R = Payment BY DEF ByRows
<1>6. \A p \in Payment : \A i \in Invoice : applied[p][i] \in Int BY <1>2
<1> HIDE DEF R, C
<1>7. Total(R, Payment) = Total(C, Invoice)
  BY <1>1, <1>6, TotalSwap DEF R, C
<1>8. SumFunction(R) = Total(R, Payment) BY <1>5, SumIsTotal
<1> QED BY <1>3, <1>4, <1>7, <1>8

(* The receivable that the ledger holds of the invoices that stand.        *)
Stands(i)  == Issued(rows[i]) /\ rows[i].status # "voided"
LedgerOf   == [i \in Invoice |-> IF Stands(i) THEN LedgerReceivable(i) ELSE 0]

LEMMA LedgerIsOff ==
  ASSUME ConstantsOK, Inv, Money, \A i \in Invoice : Stands(i) => ~books[i].withdrawn
  PROVE  Total(LedgerOf, Invoice) = Outstanding + Total(ByInvoice, Invoice)
<1>1. Adds(LedgerOf, DueIf(OpenSet), ByInvoice, Invoice)
  <2> SUFFICES ASSUME NEW i \in Invoice
               PROVE  /\ DueIf(OpenSet)[i] \in Int /\ ByInvoice[i] \in Int
                      /\ LedgerOf[i] = DueIf(OpenSet)[i] + ByInvoice[i]
    BY DEF Adds
  <2>1. rows[i] \in InvoiceRow /\ books[i] \in Books BY DEF Inv, TypeOK
  <2>2. AppliedTo(i) \in Nat BY AppliedNat DEF Inv
  <2>3. RowAgrees(rows[i]) /\ Agreed(rows[i], books[i], AppliedTo(i))
    BY DEF Inv, StatusFollowsMoney, Money, RowMoney
  <2>4. LedgerOf[i] = IF Stands(i) THEN books[i].issue - books[i].loss ELSE 0
    BY <2>1 DEF LedgerOf, LedgerReceivable, Books
  <2>5. /\ DueIf(OpenSet)[i] = IF Open(rows[i]) THEN rows[i].due ELSE 0
        /\ ByInvoice[i] = AppliedTo(i)
    BY DEF DueIf, OpenSet, ByInvoice
  <2>6. CASE rows[i].status \in {"absent", "draft", "voided"}
    <3>1. ~Stands(i) /\ ~Open(rows[i]) BY <2>6 DEF Stands, Issued, Open
    <3>2. AppliedTo(i) = 0 BY <2>3, <2>6 DEF RowAgrees, Agreed
    <3> QED BY <2>4, <2>5, <3>1, <3>2
  <2>7. CASE Open(rows[i])
    <3>1. Stands(i) BY <2>7 DEF Stands, Issued, Open
    <3>2. /\ books[i].issue = rows[i].total /\ books[i].loss = 0
          /\ rows[i].paid = AppliedTo(i) /\ rows[i].due = rows[i].total - rows[i].paid
      BY <2>3, <2>7 DEF RowAgrees, Agreed, Open
    <3>3. rows[i].total \in Nat /\ rows[i].due \in Nat BY <2>1 DEF InvoiceRow
    <3> QED BY <2>2, <2>4, <2>5, <2>7, <3>1, <3>2, <3>3
  <2>8. CASE rows[i].status \in {"paid", "written_off"}
    <3>1. Stands(i) /\ ~Open(rows[i]) BY <2>8 DEF Stands, Issued, Open
    <3>2. /\ books[i].issue = rows[i].total /\ rows[i].total = AppliedTo(i) + books[i].loss
      <4>1. books[i].issue = rows[i].total BY <2>3, <2>8 DEF Agreed
      <4>2. CASE rows[i].status = "written_off" BY <2>3, <4>1, <4>2 DEF Agreed
      <4>3. CASE rows[i].status = "paid"
        <5>1. rows[i].paid = AppliedTo(i) /\ books[i].loss = 0
          BY <2>3, <4>3 DEF Agreed
        <5>2. 0 = rows[i].total - rows[i].paid BY <2>3, <4>3 DEF RowAgrees
        <5>3. rows[i].total \in Nat BY <2>1 DEF InvoiceRow
        <5> QED BY <2>2, <4>1, <5>1, <5>2, <5>3
      <4> QED BY <2>8, <4>2, <4>3
    <3>3. books[i].loss \in Nat BY <2>1 DEF Books
    <3> QED BY <2>2, <2>4, <2>5, <3>1, <3>2, <3>3
  <2> QED BY <2>1, <2>6, <2>7, <2>8 DEF InvoiceRow, Status, Open
<1>2. IsFiniteSet(Invoice) BY DEF ConstantsOK
<1>3. Total(LedgerOf, Invoice) = Total(DueIf(OpenSet), Invoice) + Total(ByInvoice, Invoice)
  BY <1>1, <1>2, TotalPlus
<1>4. Outstanding = Total(DueIf(OpenSet), Invoice)
  BY DueIsTotal DEF Outstanding, OpenSet
<1> QED BY <1>3, <1>4

(* Whatever the book of invoices is, the aging report adds up to the total *)
(* of the refresh button and the customers' list, the statement to it and  *)
(* what voided invoices show, and the ledger's receivable to it and the    *)
(* cash applied, which no receipt posts.                                   *)
THEOREM PagesAddUp == OneDesk = TRUE => (Spec => []PagesAgree)
<1>1. ASSUME ConstantsOK, Inv, Money PROVE PagesAgree
  <2>1. AgingTotal = Outstanding BY <1>1, AgesAddUp
  <2>2. StatementDue = Outstanding + DueOf(VoidedSet) BY <1>1, StatementIsOff
  <2>3. ASSUME \A i \in Invoice : Stands(i) => ~books[i].withdrawn
        PROVE  SumFunction(LedgerOf)
                 = Outstanding + SumFunction([p \in Payment |-> AppliedFrom(p)])
    <3>1. Total(LedgerOf, Invoice) = Outstanding + Total(ByInvoice, Invoice)
      BY <1>1, <2>3, LedgerIsOff
    <3>2. SumFunction([p \in Payment |-> AppliedFrom(p)]) = Total(ByInvoice, Invoice)
      BY <1>1, AppliedEitherWay DEF Inv
    <3>3. SumFunction(LedgerOf) = Total(LedgerOf, Invoice)
      BY SumIsTotal DEF LedgerOf
    <3> QED BY <3>1, <3>2, <3>3
  <2>4. \A i \in Invoice :
          Stands(i) <=> i \in {j \in Invoice : Issued(rows[j])} \ VoidedSet
    BY DEF Stands, VoidedSet
  <2>5. LedgerOf = [i \in Invoice |->
          IF i \in {j \in Invoice : Issued(rows[j])} \ VoidedSet
          THEN LedgerReceivable(i) ELSE 0]
    BY <2>4 DEF LedgerOf
  <2> QED BY <2>1, <2>2, <2>3, <2>4, <2>5 DEF PagesAgree, VoidedSet
<1> SUFFICES ASSUME OneDesk = TRUE PROVE Spec => []PagesAgree
  OBVIOUS
<1>2. Spec => [](Inv /\ Money) BY MoneyAlways
<1>3. Inv /\ Money => PagesAgree BY <1>1, ConstantsOK
<1> QED BY <1>2, <1>3, PTL
=============================================================================
