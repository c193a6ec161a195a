-------------------------------- MODULE Payroll --------------------------------
(***************************************************************************)
(* Payroll runs and the overtime they pay (payroll/services/engine.py,     *)
(* payroll/viewsets.py, hr/services/overtime.py): a run is calculated,     *)
(* submitted, approved by somebody else, accrued in the ledger and paid.   *)
(*                                                                         *)
(* Every verb reads its run or slip without a lock, decides on that copy   *)
(* and writes the columns it names, so it is two actions: Read, and the    *)
(* verb.  A calculation is three: its first UPDATE locks the run until     *)
(* COMMIT, and what it reads in between may change.  Posting is three too: *)
(* the entry is built from the payslips before the run row is written.     *)
(* What one employee earns stands for the payslips of a run; tax and       *)
(* insurance are in module Payslips.                                       *)
(***************************************************************************)
EXTENDS Integers, FiniteSets, Functions

CONSTANTS
  Run, Slip,
  Covers,      \* the overtime slips whose day is in the period of each run
  User,
  Worker,      \* workers that serve requests
  Salary,      \* what the salary history may say
  OneOfficer,  \* do requests that prepare a run or a slip not overlap others on it?
  None         \* nobody, no run and no document

Doc == Run \cup Slip

ASSUME ConstantsOK ==
  /\ IsFiniteSet(Run) /\ IsFiniteSet(Slip) /\ Run \cap Slip = {}
  /\ Covers \in [Run -> SUBSET Slip] /\ None \notin Doc \cup User \cup Worker
  /\ Salary \subseteq Nat \ {0} /\ OneOfficer \in BOOLEAN

VARIABLES
  salary,    \* what SalaryRevision says
  runs,      \* the rows of the payroll runs
  payslips,  \* what the payslips of each run pay: base and overtime slips
  slips,     \* the rows of the overtime slips
  ledger,    \* the entries of each run: accrual and disbursement
  lock,      \* the worker that holds the row lock of each run
  ws         \* the request of each worker

vars == <<salary, runs, payslips, slips, ledger, lock, ws>>

RunStatus  == {"draft", "calculated", "pending_approval", "approved",
               "posted", "paid", "cancelled"}
SlipStatus == {"submitted", "approved", "rejected", "paid"}

(* PayrollRun.ALLOWED_TRANSITIONS; calculating is seen by nobody, it is    *)
(* written and left within one transaction.                                *)
RunAllowed == [draft            |-> {"calculating", "cancelled"},
               calculated       |-> {"pending_approval", "calculating", "cancelled"},
               pending_approval |-> {"approved", "calculated", "cancelled"},
               approved         |-> {"posted", "cancelled"},
               posted           |-> {"paid"},
               paid             |-> {},
               cancelled        |-> {}]

(* OvertimeSlip.ALLOWED_TRANSITIONS from submitted on.                     *)
SlipAllowed == [submitted |-> {"approved", "rejected"}, approved |-> {"paid"},
                rejected  |-> {}, paid |-> {}]

RunRow  == [status : RunStatus, total : Nat, by : User \cup {None},
            approver : User \cup {None}, entry : BOOLEAN]
SlipRow == [status : SlipStatus, run : Run \cup {None}]
NewRun  == [status |-> "draft", total |-> 0, by |-> None, approver |-> None, entry |-> FALSE]
NoPay   == [base |-> 0, slips |-> {}]

Pay(p) == p.base + Cardinality(p.slips)

Idle == [verb |-> "idle", at |-> "start", doc |-> None, user |-> None, seen |-> NewRun,
         pay |-> NoPay]
End(w) == ws' = [ws EXCEPT ![w] = Idle]
Serves(w, verb, at) == ws[w].verb = verb /\ ws[w].at = at

RowOf(d) == IF d \in Run THEN runs[d] ELSE slips[d]

-----------------------------------------------------------------------------
(* get_object and the checks that every verb makes on its copy.            *)

RunVerb  == {"calculate", "submit", "approve", "post", "pay", "cancel", "patch"}
SlipVerb == {"certify", "reject", "amend"}

(* approve_run: never the user who calculated.                             *)
MayApprove(row, u) == "approved" \in RunAllowed[row.status] /\ row.by # u /\ row.total > 0

MayRead(verb, d, u) ==
  CASE verb = "calculate" -> "calculating" \in RunAllowed[runs[d].status] /\ ~runs[d].entry
    [] verb = "submit"    -> "pending_approval" \in RunAllowed[runs[d].status] /\ runs[d].total > 0
    [] verb = "approve"   -> MayApprove(runs[d], u)
    [] verb = "post"      -> "posted" \in RunAllowed[runs[d].status] /\ ~runs[d].entry
    [] verb = "pay"       -> "paid" \in RunAllowed[runs[d].status] /\ runs[d].entry /\ runs[d].total > 0
    [] verb = "cancel"    -> "cancelled" \in RunAllowed[runs[d].status]
    [] verb = "certify"   -> "approved" \in SlipAllowed[slips[d].status]
    [] verb = "reject"    -> "rejected" \in SlipAllowed[slips[d].status]
    [] OTHER              -> TRUE

(* Requests that prepare: they have their document to themselves, and two  *)
(* calculations never share a slip.                                        *)
Prepares == {"calculate", "submit", "cancel", "patch", "reject", "amend"}
Touches(verb, d) == IF verb = "calculate" THEN {d} \cup Covers[d] ELSE {d}

Alone(verb, d) == OneOfficer => \A w \in Worker :
  ws[w].verb # "idle" /\ {verb, ws[w].verb} \cap Prepares # {} =>
    Touches(verb, d) \cap Touches(ws[w].verb, ws[w].doc) = {}

(* The verbs that write who asked, and those that write or compare what    *)
(* they read.                                                              *)
Signs  == {"calculate", "approve"}
Copies == {"post", "pay", "patch", "amend"}

Read(w, verb, d, u) ==
  /\ ws[w].verb = "idle"
  /\ d \in (IF verb \in RunVerb THEN Run ELSE Slip)
  /\ MayRead(verb, d, u) /\ Alone(verb, d)
  /\ ws' = [ws EXCEPT ![w] = [Idle EXCEPT !.verb = verb, !.doc = d,
                !.user = IF verb \in Signs THEN u ELSE None,
                !.seen = IF verb \in Copies THEN RowOf(d) ELSE NewRun]]
  /\ UNCHANGED <<salary, runs, payslips, slips, ledger, lock>>

Free(r) == lock[r] = None

\* Mutant: the run of a calculation that fails stays locked.
GiveUpLocked(w) ==
  /\ ws[w].verb # "idle" /\ End(w)
  /\ UNCHANGED <<salary, runs, payslips, slips, ledger, lock>>

(* A request that is refused, fails or dies: calculate_run has no          *)
(* transaction of its own, but the request it runs in has.                 *)
GiveUp(w) ==
  /\ ws[w].verb # "idle"
  /\ lock' = [r \in Run |-> IF lock[r] = w THEN None ELSE lock[r]]
  /\ End(w)
  /\ UNCHANGED <<salary, runs, payslips, slips, ledger>>

-----------------------------------------------------------------------------
(* calculate_run.                                                          *)

\* Mutant: slips that a run has claimed are picked again.
PayableAgain(r) == {s \in Covers[r] : slips[s].status \in {"approved", "paid"}}

(* The slips of the run are released, and every approved slip of the       *)
(* period that no run has claimed is picked.                               *)
Payable(r) == {s \in Covers[r] : \/ slips[s].run = r
                                 \/ slips[s].status = "approved" /\ slips[s].run = None}

BeginCalculate(w) == LET r == ws[w].doc IN
  /\ Serves(w, "calculate", "start") /\ Free(r)
  /\ lock' = [lock EXCEPT ![r] = w]
  /\ ws' = [ws EXCEPT ![w].at = "lines",
                      ![w].pay = [base |-> salary, slips |-> Payable(r)]]
  /\ UNCHANGED <<salary, runs, payslips, slips, ledger>>

(* _claim_overtime and _release_overtime: the stamp on every slip that was *)
(* paid is not conditional.                                                *)
Stamped(s, r, paid) ==
  IF s \in paid THEN [status |-> "paid", run |-> r]
  ELSE IF slips[s].run = r THEN [status |-> "approved", run |-> None]
  ELSE slips[s]

(* Payslips, control totals and stamps.                                    *)
CommitCalculate(w) == LET r == ws[w].doc  pay == ws[w].pay IN
  /\ Serves(w, "calculate", "lines")
  /\ payslips' = [payslips EXCEPT ![r] = pay]
  /\ slips' = [s \in Slip |-> Stamped(s, r, pay.slips)]
  /\ runs' = [runs EXCEPT ![r].status = "calculated", ![r].total = Pay(pay),
                          ![r].by = ws[w].user]
  /\ lock' = [lock EXCEPT ![r] = None]
  /\ End(w)
  /\ UNCHANGED <<salary, ledger>>

-----------------------------------------------------------------------------
(* The other verbs of a run.                                               *)

Move(w, verb, to) == LET r == ws[w].doc IN
  /\ Serves(w, verb, "start") /\ Free(r)
  /\ runs' = [runs EXCEPT ![r].status = to]
  /\ End(w)
  /\ UNCHANGED <<salary, payslips, slips, ledger, lock>>

Submit(w) == Move(w, "submit", "pending_approval")
Cancel(w) == Move(w, "cancel", "cancelled")

Approve(w) == LET r == ws[w].doc IN
  /\ Serves(w, "approve", "start") /\ Free(r)
  /\ runs' = [runs EXCEPT ![r].status = "approved", ![r].approver = ws[w].user]
  /\ End(w)
  /\ UNCHANGED <<salary, payslips, slips, ledger, lock>>

(* post_run_to_ledger: the entry is built from the payslips there are, and *)
(* must agree with the control total of the copy.                          *)
Agrees(w) == Pay(payslips[ws[w].doc]) = ws[w].seen.total

BuildEntry(w) ==
  /\ Serves(w, "post", "start") /\ Agrees(w)
  /\ ws' = [ws EXCEPT ![w].at = "entry", ![w].pay = payslips[ws[w].doc]]
  /\ UNCHANGED <<salary, runs, payslips, slips, ledger, lock>>

(* Key payroll:{id}: an entry with this key is found, not posted.          *)
Accrued(r, n) == IF ledger[r].accrued > 0 THEN ledger ELSE [ledger EXCEPT ![r].accrued = n]

CommitPost(w) == LET r == ws[w].doc IN
  /\ Serves(w, "post", "entry") /\ Free(r)
  /\ ledger' = Accrued(r, Pay(ws[w].pay))
  /\ runs' = [runs EXCEPT ![r].status = "posted", ![r].entry = TRUE]
  /\ End(w)
  /\ UNCHANGED <<salary, payslips, slips, lock>>

(* mark_run_paid: key payroll:{id}:payment, the net of the copy.           *)
Paid(r, n) == IF ledger[r].paid > 0 THEN ledger ELSE [ledger EXCEPT ![r].paid = n]

MarkPaid(w) == LET r == ws[w].doc IN
  /\ Serves(w, "pay", "start") /\ Free(r)
  /\ ledger' = Paid(r, ws[w].seen.total)
  /\ runs' = [runs EXCEPT ![r].status = "paid"]
  /\ End(w)
  /\ UNCHANGED <<salary, payslips, slips, lock>>

(* PATCH: every column of the copy is written.                             *)
Patch(w) == LET r == ws[w].doc IN
  /\ Serves(w, "patch", "start") /\ Free(r)
  /\ runs' = [runs EXCEPT ![r] = ws[w].seen]
  /\ End(w)
  /\ UNCHANGED <<salary, payslips, slips, ledger, lock>>

-----------------------------------------------------------------------------
(* Overtime slips.                                                         *)

Judge(w, verb, to) ==
  /\ Serves(w, verb, "start")
  /\ slips' = [slips EXCEPT ![ws[w].doc].status = to]
  /\ End(w)
  /\ UNCHANGED <<salary, runs, payslips, ledger, lock>>

Certify(w) == Judge(w, "certify", "approved")
Reject(w)  == Judge(w, "reject", "rejected")

Amend(w) ==
  /\ Serves(w, "amend", "start")
  /\ slips' = [slips EXCEPT ![ws[w].doc] = ws[w].seen]
  /\ End(w)
  /\ UNCHANGED <<salary, runs, payslips, ledger, lock>>

(* A salary revision that takes effect in the period.                      *)
Revise == \E n \in Salary :
  /\ n # salary /\ salary' = n
  /\ UNCHANGED <<runs, payslips, slips, ledger, lock, ws>>

-----------------------------------------------------------------------------
Init ==
  /\ salary \in Salary
  /\ runs = [r \in Run |-> NewRun] /\ payslips = [r \in Run |-> NoPay]
  /\ slips = [s \in Slip |-> [status |-> "submitted", run |-> None]]
  /\ ledger = [r \in Run |-> [accrued |-> 0, paid |-> 0]]
  /\ lock = [r \in Run |-> None] /\ ws = [w \in Worker |-> Idle]

Serve(w) ==
  \/ BeginCalculate(w) \/ CommitCalculate(w) \/ Submit(w) \/ Approve(w)
  \/ BuildEntry(w) \/ CommitPost(w) \/ MarkPaid(w) \/ Cancel(w) \/ Patch(w)
  \/ Certify(w) \/ Reject(w) \/ Amend(w)
  \/ GiveUp(w)

Next ==
  \/ \E w \in Worker : \/ Serve(w)
                       \/ \E verb \in RunVerb \cup SlipVerb, d \in Doc, u \in User :
                            Read(w, verb, d, u)
  \/ Revise

Spec == Init /\ [][Next]_vars

-----------------------------------------------------------------------------
(* What the reports say.                                                   *)

(* PayrollRegisterGenerator: every payslip of the period, whatever became  *)
(* of its run.                                                             *)
Register(R) == SumFunction([r \in R |-> Pay(payslips[r])])

(* compute_hr_metrics: the control totals of the runs that are approved.   *)
Committed == {r \in Run : runs[r].status \in {"approved", "posted", "paid"}}
PayrollCost == SumFunction([r \in Committed |-> runs[r].total])

-----------------------------------------------------------------------------
(* Every variable has the values its columns can hold, and a run is locked *)
(* while it is calculated and at no other time.                            *)
PayrollTypeOK ==
  /\ salary \in Salary /\ runs \in [Run -> RunRow] /\ slips \in [Slip -> SlipRow]
  /\ payslips \in [Run -> [base : Nat, slips : SUBSET Slip]]
  /\ ledger \in [Run -> [accrued : Nat, paid : Nat]]
  /\ lock \in [Run -> Worker \cup {None}]
  /\ \A r \in Run, w \in Worker :
       lock[r] = w <=> Serves(w, "calculate", "lines") /\ ws[w].doc = r
  /\ \A w \in Worker : ws[w].seen \in RunRow \cup SlipRow

(* The ledger holds what the register says: a run that is accrued is       *)
(* accrued once, for what its payslips and its control total add up to,    *)
(* and what is paid out is the accrual, once, although post and mark-paid  *)
(* may be clicked by two people at once.                                   *)
LedgerIsTheRegister == \A r \in Run :
  /\ runs[r].entry => ledger[r].accrued = runs[r].total
  /\ ledger[r].accrued \in {0, Pay(payslips[r])}
  /\ ledger[r].paid \in {0, ledger[r].accrued}
  /\ runs[r].status = "paid" => ledger[r].paid > 0

(* The register, the dashboard and the ledger tell one payroll: the runs   *)
(* that are approved cost what their payslips pay, and the ledger has of   *)
(* them what is posted.                                                    *)
Posted == {r \in Committed : ledger[r].accrued > 0}
ReportsAgree ==
  /\ PayrollCost = Register(Committed)
  /\ SumFunction([r \in Posted |-> ledger[r].accrued]) = Register(Posted)
  /\ {r \in Run : runs[r].status \in {"posted", "paid"}} \subseteq Posted

(* Not so: what the ledger has accrued is in the dashboard's cost.  A late *)
(* second approval makes a posted run approved, and an approved run can be *)
(* cancelled (the docstring of cancel, payroll/viewsets.py:355).           *)
LedgerIsCommitted == \A r \in Run : ledger[r].accrued > 0 => r \in Committed

(* Not so, operational.py:432: the register of a period ties to its        *)
(* payroll entries.                                                        *)
RegisterTies == Register(Run) = PayrollCost

(* Segregation of duties: nobody approved what he calculated.              *)
TwoPeople == \A r \in Run : runs[r].status \in {"approved", "posted", "paid"} =>
  runs[r].approver # None /\ runs[r].approver # runs[r].by

(* An overtime slip is on the payslips of the run that claimed it and of   *)
(* no other: it is never paid twice.                                       *)
OvertimePaidOnce == \A s \in Slip, r \in Run :
  s \in payslips[r].slips <=> slips[s].run = r

(* The docstring of _release_overtime, engine.py:941: a discarded run must *)
(* not strand the slips it claimed.                                        *)
CancelledFreesOvertime == \A r \in Run, s \in Slip :
  runs[r].status = "cancelled" => slips[s].run # r

(* The docstring of cancel, payroll/viewsets.py:355: only runs that are    *)
(* not approved yet can be cancelled.                                      *)
ApprovedIsNotCancelled == [][\A r \in Run :
  runs[r].status = "approved" => runs'[r].status # "cancelled"]_runs
=============================================================================
