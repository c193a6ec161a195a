------------------------------- MODULE Payables -------------------------------
(***************************************************************************)
(* Vendor bills and expense claims: entry and edit (expenses/serializers), *)
(* the approval chain (expenses/viewsets), the posting of the obligation   *)
(* and of payments (expenses/services/bill_posting.py) and the accrual and *)
(* reimbursement of claims (expenses/services/posting.py).                 *)
(*                                                                         *)
(* Every verb but pay reads the document without a lock, decides on what   *)
(* it read and later writes the columns it names.  So a request is two     *)
(* actions: Read, which takes the copy ws[w].seen, and the verb, which is  *)
(* its writes, its posting and COMMIT.  pay_bill reads under the row lock  *)
(* and is one action.  bills, claims and lines are the committed rows;     *)
(* owed and accrued are what the ledger holds for them.                    *)
(***************************************************************************)
EXTENDS Integers, FiniteSets

CONSTANTS
  Bill, Claim,
  Early,      \* the bills whose post verb may be used before their approval
  Clerk,      \* the workers that serve requests
  OneDesk,    \* do its author's requests have a document to themselves?
  LineTotal,  \* what the lines of a document may add up to, tax included
  Withheld,   \* what may be withheld from a vendor
  Amount,     \* amounts of payments
  NoDoc       \* an idle worker's document

Doc == Bill \cup Claim

ASSUME ConstantsOK ==
  /\ IsFiniteSet(Bill) /\ IsFiniteSet(Claim) /\ Bill \cap Claim = {} /\ NoDoc \notin Doc
  /\ Early \subseteq Bill /\ OneDesk \in BOOLEAN
  /\ LineTotal \subseteq Nat /\ Withheld \subseteq Nat /\ Amount \subseteq Nat \ {0}

VARIABLES
  bills,      \* the bill headers
  lines,      \* what the lines of each bill add up to
  claims,     \* the expense rows
  owed,       \* the entries of each bill: the obligation and its settlements
  payments,   \* the payment rows of each bill: keys <<paid so far, amount>>
  accrued,    \* the entries of each claim: the accrual and its settlement
  ws          \* the request of each worker

vars == <<bills, lines, claims, owed, payments, accrued, ws>>

BillStatus == {"draft", "awaiting", "approved", "partially_paid", "paid", "voided"}

(* ALLOWED_TRANSITIONS of Bill; no code in the repository makes one overdue. *)
BillAllowed == [draft          |-> {"awaiting", "voided"},
                awaiting       |-> {"approved", "draft", "voided"},
                approved       |-> {"partially_paid", "paid", "voided"},
                partially_paid |-> {"paid", "approved"},
                paid           |-> {"partially_paid"},
                voided         |-> {}]

ClaimStatus == {"draft", "submitted", "approved", "rejected", "reimbursed"}

(* ALLOWED_TRANSITIONS of Expense. *)
ClaimAllowed == [draft      |-> {"submitted"},
                 submitted  |-> {"approved", "rejected", "draft"},
                 approved   |-> {"reimbursed", "rejected"},
                 rejected   |-> {"draft"},
                 reimbursed |-> {}]

(* entry: is journal_entry set?  The database holds                        *)
(* ck_bill_amounts_non_negative and ck_bill_no_overpayment.                *)
BillRow == [status : BillStatus \cup {"absent"}, total : Nat, withheld : Nat,
            paid : Nat, entry : BOOLEAN]
ClaimRow == [status : ClaimStatus \cup {"absent"}, total : Nat,
             entry : BOOLEAN, refund : BOOLEAN]

NoBill  == [status |-> "absent", total |-> 0, withheld |-> 0, paid |-> 0, entry |-> FALSE]
NoClaim == [status |-> "absent", total |-> 0, entry |-> FALSE, refund |-> FALSE]

Verb == {"edit", "submit", "approve", "post", "void", "reject", "reimburse"}
Idle == [verb |-> "idle", doc |-> NoDoc, seen |-> NoBill]

RowOf(d) == IF d \in Bill THEN bills[d] ELSE claims[d]
Serves(w, verb, D) == ws[w].verb = verb /\ ws[w].doc \in D
End(w) == ws' = [ws EXCEPT ![w] = Idle]

-----------------------------------------------------------------------------
(* get_object, at the start of a request; void looks at what is paid and   *)
(* the serializers of bills and claims at the status of this copy.         *)

MayRead(verb, d) ==
  CASE verb = "edit"      -> RowOf(d).status \in (IF d \in Bill THEN {"draft", "awaiting"}
                                                             ELSE {"draft"})
    [] verb = "void"      -> d \in Bill /\ bills[d].status # "absent" /\ bills[d].paid = 0
    [] verb = "post"      -> d \in Bill /\ bills[d].status # "absent"
                             /\ (bills[d].status \in {"draft", "awaiting"} => d \in Early)
    [] verb \in {"reject", "reimburse"} -> d \in Claim /\ claims[d].status # "absent"
    [] OTHER              -> RowOf(d).status # "absent"

Author == {"edit", "submit"}
Alone(verb, d) == OneDesk =>
  \A w \in Clerk : ws[w].doc = d => {verb, ws[w].verb} \cap Author = {}

Read(w, verb, d) ==
  /\ ws[w].verb = "idle" /\ MayRead(verb, d) /\ Alone(verb, d)
  /\ ws' = [ws EXCEPT ![w] = [verb |-> verb, doc |-> d, seen |-> RowOf(d)]]
  /\ UNCHANGED <<bills, lines, claims, owed, payments, accrued>>

(* A request that is refused, or whose process dies, leaves nothing.       *)
GiveUp(w) ==
  /\ ws[w].verb # "idle"
  /\ End(w)
  /\ UNCHANGED <<bills, lines, claims, owed, payments, accrued>>

-----------------------------------------------------------------------------
(* Bills: entry and edit.  The header total is what the lines add up to    *)
(* less the tax withheld.                                                  *)

CreateBill(b) == \E t \in LineTotal, h \in Withheld :
  /\ bills[b].status = "absent" /\ h <= t
  /\ bills' = [bills EXCEPT ![b] = [NoBill EXCEPT !.status = "draft", !.total = t - h,
                                                  !.withheld = h]]
  /\ lines' = [lines EXCEPT ![b] = t]
  /\ UNCHANGED <<claims, owed, payments, accrued, ws>>

(* instance.save() writes every column of the copy; the totals are derived *)
(* from the new lines or from those that are there.                        *)
EditBill(w) == LET b == ws[w].doc  seen == ws[w].seen IN
  /\ Serves(w, "edit", Bill)
  /\ \E t \in LineTotal \cup {lines[b]}, h \in Withheld \cup {seen.withheld} :
       /\ t - h >= seen.paid
       /\ lines' = [lines EXCEPT ![b] = t]
       /\ bills' = [bills EXCEPT ![b] = [seen EXCEPT !.total = t - h, !.withheld = h]]
  /\ End(w)
  /\ UNCHANGED <<claims, owed, payments, accrued>>

SubmitBill(w) == LET b == ws[w].doc IN
  /\ Serves(w, "submit", Bill)
  /\ "awaiting" \in BillAllowed[ws[w].seen.status]
  /\ bills' = [bills EXCEPT ![b] = [bills[b] EXCEPT !.status = "awaiting"]]
  /\ End(w)
  /\ UNCHANGED <<lines, claims, owed, payments, accrued>>

-----------------------------------------------------------------------------
(* Bills: the obligation.                                                  *)

(* build_bill_entry: the lines are debited, the tax withheld and the rest  *)
(* of the total credited; an entry that does not balance is refused, and   *)
(* so is a bill worth nothing or one with less to pay than is withheld.    *)
Debits(b)     == lines[b]
Credits(seen) == seen.withheld + (seen.total - seen.withheld)

Balances(b, seen) == seen.total > 0 /\ seen.withheld <= seen.total
                     /\ Debits(b) = Credits(seen)

\* Mutant: the key is the request's own.
PostsAgain(b, seen) ==
  /\ ~seen.entry /\ seen.status # "voided" /\ Balances(b, seen)
  /\ owed' = [owed EXCEPT ![b].cost = @ + seen.total]

(* post_bill checks the copy; post_entry finds an entry by its key         *)
(* bill:{id} before it posts one.                                          *)
Posts(b, seen) ==
  /\ ~seen.entry /\ seen.status # "voided" /\ Balances(b, seen)
  /\ owed' = [owed EXCEPT ![b] =
                [owed[b] EXCEPT !.cost = IF owed[b].cost = 0 THEN seen.total ELSE owed[b].cost]]

ApproveBill(w) == LET b == ws[w].doc IN
  /\ Serves(w, "approve", Bill)
  /\ "approved" \in BillAllowed[ws[w].seen.status]
  /\ Posts(b, ws[w].seen)
  /\ bills' = [bills EXCEPT ![b] = [bills[b] EXCEPT !.status = "approved", !.entry = TRUE]]
  /\ End(w)
  /\ UNCHANGED <<lines, claims, payments, accrued>>

PostBill(w) == LET b == ws[w].doc IN
  /\ Serves(w, "post", Bill)
  /\ Posts(b, ws[w].seen)
  /\ bills' = [bills EXCEPT ![b] = [bills[b] EXCEPT !.entry = TRUE]]
  /\ End(w)
  /\ UNCHANGED <<lines, claims, payments, accrued>>

(* The status is all that a void writes.                                   *)
VoidBill(w) == LET b == ws[w].doc IN
  /\ Serves(w, "void", Bill)
  /\ "voided" \in BillAllowed[ws[w].seen.status]
  /\ bills' = [bills EXCEPT ![b] = [bills[b] EXCEPT !.status = "voided"]]
  /\ End(w)
  /\ UNCHANGED <<lines, claims, owed, payments, accrued>>

PaidRow(row, a) ==
  [row EXCEPT !.paid = row.paid + a,
              !.status = IF row.paid + a = row.total THEN "paid" ELSE "partially_paid"]

\* Mutant: the outstanding amount is not looked at.
PayBillFreely(b) == \E a \in Amount :
  /\ bills[b].entry /\ bills[b].status # "voided"
  /\ owed' = [owed EXCEPT ![b].settled = @ + a]
  /\ payments' = [payments EXCEPT ![b] = @ \cup {<<bills[b].paid, a>>}]
  /\ bills' = [bills EXCEPT ![b] = PaidRow(@, a)]
  /\ UNCHANGED <<lines, claims, accrued, ws>>

(* pay_bill: the key of the entry is the amount and what was paid before,  *)
(* so an entry with this key is found and not posted again.                *)
PayBill(b) == \E a \in Amount :
  /\ bills[b].entry /\ bills[b].status # "voided"
  /\ a <= bills[b].total - bills[b].paid
  /\ owed' = IF <<bills[b].paid, a>> \in payments[b] THEN owed
             ELSE [owed EXCEPT ![b] = [owed[b] EXCEPT !.settled = owed[b].settled + a]]
  /\ payments' = [payments EXCEPT ![b] = payments[b] \cup {<<bills[b].paid, a>>}]
  /\ bills' = [bills EXCEPT ![b] = PaidRow(bills[b], a)]
  /\ UNCHANGED <<lines, claims, accrued, ws>>

-----------------------------------------------------------------------------
(* Expense claims.                                                         *)

CreateClaim(c) == \E t \in LineTotal :
  /\ claims[c].status = "absent" /\ t > 0
  /\ claims' = [claims EXCEPT ![c] = [NoClaim EXCEPT !.status = "draft", !.total = t]]
  /\ UNCHANGED <<bills, lines, owed, payments, accrued, ws>>

EditClaim(w) == LET c == ws[w].doc IN
  /\ Serves(w, "edit", Claim)
  /\ \E t \in LineTotal : t > 0 /\ claims' = [claims EXCEPT ![c] = [ws[w].seen EXCEPT !.total = t]]
  /\ End(w)
  /\ UNCHANGED <<bills, lines, owed, payments, accrued>>

(* submit and reject write the status and nothing else.                    *)
MoveClaim(w, verb, to) == LET c == ws[w].doc IN
  /\ Serves(w, verb, Claim)
  /\ to \in ClaimAllowed[ws[w].seen.status]
  /\ claims' = [claims EXCEPT ![c] = [claims[c] EXCEPT !.status = to]]
  /\ End(w)
  /\ UNCHANGED <<bills, lines, owed, payments, accrued>>

SubmitClaim(w) == MoveClaim(w, "submit", "submitted")
RejectClaim(w) == MoveClaim(w, "reject", "rejected")

(* approve: status and accrual in one transaction, key expense:{id}.       *)
ApproveClaim(w) == LET c == ws[w].doc  seen == ws[w].seen IN
  /\ Serves(w, "approve", Claim)
  /\ "approved" \in ClaimAllowed[seen.status] /\ ~seen.entry
  /\ accrued' = [accrued EXCEPT ![c] =
        [accrued[c] EXCEPT !.cost = IF accrued[c].cost = 0 THEN seen.total ELSE accrued[c].cost]]
  /\ claims' = [claims EXCEPT ![c] = [claims[c] EXCEPT !.status = "approved", !.entry = TRUE]]
  /\ End(w)
  /\ UNCHANGED <<bills, lines, owed, payments>>

(* reimburse: status and settlement, key expense-reimbursement:{id}.       *)
Reimburse(w) == LET c == ws[w].doc  seen == ws[w].seen IN
  /\ Serves(w, "reimburse", Claim)
  /\ "reimbursed" \in ClaimAllowed[seen.status] /\ seen.entry /\ ~seen.refund
  /\ accrued' = [accrued EXCEPT ![c] = [accrued[c] EXCEPT
                    !.settled = IF accrued[c].settled = 0 THEN seen.total ELSE accrued[c].settled]]
  /\ claims' = [claims EXCEPT ![c] = [claims[c] EXCEPT !.status = "reimbursed", !.refund = TRUE]]
  /\ End(w)
  /\ UNCHANGED <<bills, lines, owed, payments>>

-----------------------------------------------------------------------------
NoEntries == [cost |-> 0, settled |-> 0]

Init ==
  /\ bills = [b \in Bill |-> NoBill] /\ lines = [b \in Bill |-> 0]
  /\ claims = [c \in Claim |-> NoClaim]
  /\ owed = [b \in Bill |-> NoEntries] /\ payments = [b \in Bill |-> {}]
  /\ accrued = [c \in Claim |-> NoEntries]
  /\ ws = [w \in Clerk |-> Idle]

Serve(w) ==
  \/ \E verb \in Verb, d \in Doc : Read(w, verb, d)
  \/ EditBill(w) \/ SubmitBill(w) \/ ApproveBill(w) \/ PostBill(w) \/ VoidBill(w)
  \/ EditClaim(w) \/ SubmitClaim(w) \/ ApproveClaim(w) \/ RejectClaim(w) \/ Reimburse(w)
  \/ GiveUp(w)

Next ==
  \/ \E b \in Bill : CreateBill(b) \/ PayBill(b)
  \/ \E c \in Claim : CreateClaim(c)
  \/ \E w \in Clerk : Serve(w)

Spec == Init /\ [][Next]_vars

-----------------------------------------------------------------------------
Entries == [cost : Nat, settled : Nat]

(* Every variable has the values its columns can hold.                     *)
PayablesTypeOK ==
  /\ bills \in [Bill -> BillRow] /\ lines \in [Bill -> Nat]
  /\ claims \in [Claim -> ClaimRow]
  /\ owed \in [Bill -> Entries] /\ accrued \in [Claim -> Entries]
  /\ payments \in [Bill -> SUBSET (Nat \X Nat)]
  /\ ws \in [Clerk -> [verb : Verb \cup {"idle"}, doc : Doc \cup {NoDoc},
                       seen : BillRow \cup ClaimRow]]

(* A vendor is never paid more than the ledger says is owed, and the bill  *)
(* knows every payment: whatever requests hold copies of it, the amount    *)
(* paid is what the settlements add up to and stays within the obligation. *)
(* Bills posted before their approval are the exception.                   *)
VendorNeverOverpaid == \A b \in Bill \ Early :
  /\ bills[b].paid = owed[b].settled
  /\ owed[b].settled <= owed[b].cost

(* The obligation in the ledger is what the bill says and what its lines   *)
(* add up to, however approval, void, payment and edits interleave.        *)
ObligationIsTheBill == \A b \in Bill \ Early :
  owed[b].cost > 0 => owed[b].cost = bills[b].total /\ owed[b].cost = lines[b]

(* A claimant is paid back what was accrued, once; a claim marked          *)
(* reimbursed has been paid, and no claim is paid back without an accrual. *)
ReimbursedOnce == \A c \in Claim :
  /\ accrued[c].settled \in {0, accrued[c].cost}
  /\ claims[c].status = "reimbursed" => accrued[c].settled > 0

(* Money goes out once: a vendor is never paid more than the ledger says   *)
(* is owed and the bill knows each payment, and a claimant is paid back    *)
(* what was accrued, whatever copies of the document requests hold.        *)
PaidOutOnce == VendorNeverOverpaid /\ ReimbursedOnce

(* The docstring of post_expense, expenses/services/posting.py:258: an     *)
(* entry but no approval records a cost nobody accepted, and is not a      *)
(* tolerable resting state.                                                *)
RejectedCostsNothing == \A c \in Claim :
  claims[c].status = "rejected" => accrued[c].cost = 0

(* The refusal of void, expenses/viewsets.py:574: voiding a bill that has  *)
(* been paid in part would strand the payment against nothing.             *)
NoPaymentStranded == \A b \in Bill :
  bills[b].status = "voided" => bills[b].paid = 0

(* test_withholding_is_credited_to_the_authority_not_netted_off_cost: a    *)
(* bill that withholds tax can be approved; a bill with something to pay   *)
(* is one whose entry balances.                                            *)
WithholdingCanPost == \A b \in Bill :
  bills[b].status = "awaiting" /\ bills[b].total > 0 => Balances(b, bills[b])

(* The docstring of the post verb, expenses/viewsets.py:587: it exists for *)
(* bills that were approved.                                               *)
OnlyApprovedArePosted == \A b \in Bill :
  bills[b].entry => bills[b].status \notin {"draft", "awaiting"}
=============================================================================
