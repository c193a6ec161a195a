---------------------------- MODULE MCReceivables ----------------------------
(***************************************************************************)
(* Small instances of Receivables for TLC.                                 *)
(***************************************************************************)
EXTENDS Receivables, TLC

CONSTANTS i1, i2, p1, p2

(* Documents of a kind are interchangeable, and so are their lock rows.    *)
DocumentSymmetry == Permutations({i1, i2}) \cup Permutations({p1, p2})

InvoiceSymmetry == Permutations({i1, i2})

(* The cash desk: documents, receipts, and allocations of two cashiers.    *)
(* Nobody edits a draft, the sweep does not run and the day does not end;  *)
(* MCReceivablesCases puts those beside it.                                *)
DeskNext ==
  \/ \E i \in Invoice : \/ CreateInvoice(i) \/ Issue(i) \/ Void(i) \/ WriteOff(i)
  \/ \E p \in Payment : Receive(p) \/ Refund(p)
  \/ \E w \in Worker : Apply(w) \/ Refuse(w) \/ AbortDeadlock(w) \/ Crash(w)

DeskSpec == Init /\ [][DeskNext]_vars

One         == {1}
Two         == {2}
OneOrTwo    == {1, 2}
ZeroOrTwo   == {0, 2}
=============================================================================
