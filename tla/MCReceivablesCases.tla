-------------------------- MODULE MCReceivablesCases --------------------------
(***************************************************************************)
(* Four situations of Receivables and one of the page before it, Client,   *)
(* in one run.  A behaviour is in one of them from its first state on: the *)
(* overdue sweep beside allocations and over midnight, allocations that    *)
(* lock two invoices in opposite orders, drafts that are edited, issued    *)
(* and voided from both desks, reminders of an invoice that is being paid, *)
(* and a user at the page.                                                 *)
(***************************************************************************)
EXTENDS MCReceivables, Reminders

CONSTANTS
  p3, w1, w2, w3,
  (* Of Client: its users, their files and the bounds.                     *)
  f1, File, Users, Loses, MaxCalls, MaxDocs, MaxForms, MaxExpiries

VARIABLES situation,
  session, page, box, iv, calls, saved, newest, expiries, opened, picked, user
pageVars == <<session, page, box, iv, calls, saved, newest, expiries, opened, picked, user>>

(* The users at the page: patient ones with the invoice form, its files    *)
(* and the rows of lists, patient ones with the other forms and time, and  *)
(* one who clicks on without waiting.                                      *)
Uses(waits, kinds, moves) == [waits |-> waits, kinds |-> kinds, moves |-> moves]
PageUsers ==
  {Uses(TRUE, {"invoice"}, {"pick", "go", "back"}),
   Uses(TRUE, {"invoice"}, {"row", "go", "colleague"}),
   Uses(TRUE, {"journal", "payment"}, {"go", "linger"}),
   Uses(TRUE, {"payout", "account"}, {"report", "reload", "go"}),
   Uses(FALSE, {"invoice"}, {})}
Page == INSTANCE Client WITH rows <- saved
ASSUME PageConstants == Page!ClientConstantsOK

(* Who does what, on which documents.                                      *)
Situations == [
  sweep  |-> [apply |-> {w1}, edit |-> {}, sweep |-> {w3},
              invoices |-> {i1}, receipts |-> {p1, p2}, amount |-> 1,
              totals |-> {2}, days |-> 0..1, batch |-> 1],
  locks  |-> [apply |-> {w1, w2}, edit |-> {}, sweep |-> {},
              invoices |-> {i1, i2}, receipts |-> {p1, p2}, amount |-> 2,
              totals |-> {1}, days |-> {0}, batch |-> 2],
  drafts |-> [apply |-> {}, edit |-> {w2, w3}, sweep |-> {},
              invoices |-> {i1, i2}, receipts |-> {p3}, amount |-> 1,
              totals |-> {1, 2}, days |-> {0}, batch |-> 1],
  chase  |-> [apply |-> {w1}, edit |-> {}, sweep |-> {},
              invoices |-> {i1}, receipts |-> {p1}, amount |-> 1,
              totals |-> {2}, days |-> {0}, batch |-> 1]]

Requested(w) == {i \in Invoice : ws'[w].alloc[i] > 0}

(* The inputs of a step belong to the situation.                           *)
Within(s) ==
  /\ \A w \in Worker :
       /\ ws'[w].at = "edit" => w \in s.edit
       /\ ws'[w].at \in {"lock_receipt", "settle"} => w \in s.apply
       /\ ws'[w].at \in {"mark", "unmark"} => w \in s.sweep
       /\ Cardinality(Requested(w)) <= s.batch
       /\ \A i \in Invoice : ws'[w].alloc[i] <= 1
  /\ \A i \in Invoice : rows'[i].status # "absent" =>
       i \in s.invoices /\ rows'[i].total \in s.totals /\ rows'[i].dueDay \in s.days
  /\ \A p \in Payment : receipt'[p].status # "absent" =>
       p \in s.receipts /\ receipt'[p].amount = s.amount
  /\ today' \in s.days
  /\ s.batch = 1 \/ refunded' = refunded
  /\ \/ s.edit # {}
     \/ \A i \in Invoice : books'[i].withdrawn => rows'[i].status = "voided"

CaseInit ==
  /\ Init /\ ChaseInit /\ Page!Init
  /\ \/ situation \in DOMAIN Situations /\ user = Uses(FALSE, {"invoice"}, {}) /\ saved[1] = Page!NoRow
     \/ situation = "page" /\ (user.waits \/ saved[1] # Page!NoRow)
Stays ==
  /\ situation # "page" /\ Within(Situations[situation])
  /\ UNCHANGED <<situation, pageVars, chaseVars>>
Browses == situation = "page" /\ Page!Next /\ UNCHANGED <<situation, vars, chaseVars>>
Chases == situation = "chase" /\ Chase /\ UNCHANGED <<situation, vars, pageVars>>

(* Next, action by action, each with inputs of the situation.              *)
CaseNext ==
  \/ Browses \/ Chases
  \/ \E i \in Invoice : CreateInvoice(i) /\ Stays
  \/ \E i \in Invoice : Issue(i) /\ Stays
  \/ \E i \in Invoice : Void(i) /\ Stays
  \/ \E i \in Invoice : WriteOff(i) /\ Stays
  \/ \E i \in Invoice : VoidFromLedger(i) /\ Stays
  \/ \E p \in Payment : Receive(p) /\ Stays
  \/ \E p \in Payment : Refund(p) /\ Stays
  \/ \E w \in Worker : Apply(w) /\ Stays
  \/ \E w \in Worker : Edit(w) /\ Stays
  \/ \E w \in Worker : Sweep(w) /\ Stays
  \/ \E w \in Worker : Refuse(w) /\ Stays
  \/ \E w \in Worker : AbortDeadlock(w) /\ Stays
  \/ \E w \in Worker : Crash(w) /\ Stays
  \/ Tick /\ Stays

(* Fairness is that of Receivables, of the workers a situation has: the    *)
(* sweeper owes nothing where no sweep is let begin.                       *)
caseVars == <<vars, situation, pageVars, chaseVars>>
Active(s)    == s.apply \cup s.edit \cup s.sweep
CaseFairness == \A w \in Worker :
  SF_vars(situation # "page" /\ w \in Active(Situations[situation]) /\ Progress(w))

CaseSpec == CaseInit /\ [][CaseNext]_caseVars /\ CaseFairness

-----------------------------------------------------------------------------
(* What the page is asked to do arrives once: an invoice is in the ledger  *)
(* under one number for what was typed into one form, with its files, and  *)
(* every page adds it up alike; and nobody is reminded of what he paid.    *)
InvoicesAreAsked ==
  /\ IssueIsRecorded /\ PagesAgree /\ RemindedOfWhatIsOwed
  /\ situation = "page" => Page!ClientTypeOK /\ Page!PageKeepsItsWord
=============================================================================
