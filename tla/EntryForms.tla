------------------------------ MODULE EntryForms ------------------------------
(***************************************************************************)
(* The arithmetic of the invoice and the journal form (app.js) beside that *)
(* of the server, which computes every line again                          *)
(* (sales/serializers.py): what a discount typed into a line becomes, what *)
(* the form shows of it later, and how the journal form is balanced.       *)
(*                                                                         *)
(* Money is counted in minor units, Scale of the units of a line's gross   *)
(* in each; rates in RateUnits, the last decimal that is sent, of which    *)
(* the form shows ShownUnits.                                              *)
(***************************************************************************)
EXTENDS Integers, Sequences

LOCAL INSTANCE Functions

CONSTANTS RateUnits, ShownUnits, Scale

EntryFormsConstantsOK ==
  {RateUnits, ShownUnits, Scale} \subseteq Nat \ {0} /\ RateUnits % ShownUnits = 0

Half(n, d) == (2 * n + d) \div (2 * d)     \* n / d, halves up
Least(a, b) == IF a < b THEN a ELSE b

-----------------------------------------------------------------------------
(* A line: its gross, a discount in per cent or as an amount, a tax in per *)
(* cent.                                                                   *)

(* ivSave: a discount is sent as a rate.  An amount above the gross is the *)
(* whole line, a percentage above 100 is 100.                              *)
SentRate(line) ==
  IF line.mode = "pct" THEN Half(Least(line.typed, 100 * ShownUnits) * RateUnits, 100 * ShownUnits)
  ELSE IF line.gross = 0 THEN 0
  ELSE Half(Least(line.typed * Scale, line.gross) * RateUnits, line.gross)

(* InvoiceSerializer: the line is rounded once, then its tax.              *)
Subtotal(gross, rate) == Half(gross * (RateUnits - rate), RateUnits * Scale)
Tax(subtotal, percent) == Half(subtotal * percent, 100)
LineTotal(line) ==
  LET net == Subtotal(line.gross, SentRate(line)) IN net + Tax(net, line.tax)

(* ivCalc: the same line as the form estimates it, unrounded: in units of  *)
(* a minor unit cut into 10000 * ShownUnits * Scale.                       *)
Fine == 10000 * ShownUnits * Scale
Estimate(line) ==
  LET off == IF line.mode = "pct"
             THEN line.gross * 100 * Least(line.typed, 100 * ShownUnits)
             ELSE 10000 * ShownUnits * Least(line.typed * Scale, line.gross)
      net == line.gross * 10000 * ShownUnits - off
  IN net + (net * line.tax) \div 100

(* ivPrefillRow: a line that is opened again shows its rate in per cent,   *)
(* to two decimals.                                                        *)
Reopened(line) ==
  [line EXCEPT !.mode = "pct", !.typed = Half(SentRate(line) * 100 * ShownUnits, RateUnits)]

-----------------------------------------------------------------------------
(* The journal form: rows with a debit or a credit, an account or none.    *)
Debits(rows) == SumFunction([n \in DOMAIN rows |-> rows[n].debit])
Credits(rows) == SumFunction([n \in DOMAIN rows |-> rows[n].credit])
Filled(row) == row.account # "none" \/ row.debit > 0 \/ row.credit > 0

(* jCalc: the button to post.                                              *)
Postable(rows) ==
  /\ Debits(rows) = Credits(rows) /\ Debits(rows) > 0
  /\ \A n \in DOMAIN rows : Filled(rows[n]) => rows[n].account = "known"
  /\ \E a, b \in DOMAIN rows : a # b /\ Filled(rows[a]) /\ Filled(rows[b])

(* saveJournal: the lines that are sent, or a refusal in the form.         *)
Sent(rows) == SelectSeq(rows, Filled)
Accepted(rows) ==
  /\ Len(Sent(rows)) >= 2
  /\ \A n \in DOMAIN rows : Filled(rows[n]) =>
       /\ rows[n].account = "known"
       /\ (rows[n].debit > 0) # (rows[n].credit > 0)

(* jBalance: the difference goes to the other side of a row, and replaces  *)
(* what the row held.                                                      *)
AutoBalanced(rows, n) ==
  LET diff == Debits(rows) - Credits(rows) IN
  IF diff = 0 THEN rows
  ELSE [rows EXCEPT ![n].debit = IF diff > 0 THEN 0 ELSE -diff,
                    ![n].credit = IF diff > 0 THEN diff ELSE 0]

-----------------------------------------------------------------------------
(* The payload of a posting (accounting/serializers.py, no endpoint takes  *)
(* it yet): sides in amounts of which scale make a minor unit.             *)
OneSided(row) == (row.debit > 0) # (row.credit > 0)

ValidPayload(rows, scale) ==
  LET debit == Half(Debits(rows), scale)  credit == Half(Credits(rows), scale) IN
  /\ Len(rows) >= 2 /\ \A n \in DOMAIN rows : OneSided(rows[n])
  /\ debit = credit /\ debit > 0

(* to_draft: the lines on either side.                                     *)
Positive(n) == n > 0
Drafted(rows) ==
  [debits  |-> SelectSeq([n \in DOMAIN rows |-> rows[n].debit], Positive),
   credits |-> SelectSeq([n \in DOMAIN rows |-> rows[n].credit], Positive)]
=============================================================================
