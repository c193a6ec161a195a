------------------------------- MODULE Timesheets -------------------------------
(***************************************************************************)
(* Time entries from logging to invoice (projects/viewsets.py and          *)
(* projects/services/invoicing.py).  Submit, approve and reject work under *)
(* the lock of the entry and are one action.  A bulk approval is one       *)
(* transaction that locks entries in the order the client names them, and  *)
(* an invoice run one that locks them in the order of their dates: both    *)
(* take a row at a time and write at COMMIT.  A PATCH reads without a lock *)
(* and saves every column of its copy.                                     *)
(***************************************************************************)
EXTENDS Integers, FiniteSets, Functions

CONSTANTS
  Entry,    \* time entries of one project
  Date,     \* the place of each entry in the order of work_date, created_at
  Task,     \* the task of each entry
  User,     \* who logs and approves time
  Desk,     \* the workers that serve requests
  OneDesk,  \* does an entry that is edited have no other request?
  Hours,    \* hours of an entry
  Nobody    \* holder of a free lock, and no author

TimesheetConstantsOK ==
  /\ IsFiniteSet(Entry) /\ Date \in [Entry -> Nat] /\ Task \in [Entry -> Nat]
  /\ OneDesk \in BOOLEAN /\ Hours \subseteq 1..24 /\ Nobody \notin Desk \cup User

VARIABLES
  entry,  \* the time entry rows
  line,   \* the invoice lines: [entries, hours]
  lock,   \* holder of the row lock of each entry
  ws      \* the request of each worker

vars == <<entry, line, lock, ws>>

(* ALLOWED_TRANSITIONS of TimesheetEntry.                                  *)
Allowed == [absent    |-> {},
            draft     |-> {"submitted"},
            submitted |-> {"approved", "rejected", "draft"},
            approved  |-> {"invoiced", "submitted"},
            rejected  |-> {"draft"},
            invoiced  |-> {}]

(* linked: is invoice_line set?                                            *)
EntryRow == [status : DOMAIN Allowed, hours : Nat, author : User \cup {Nobody}, linked : BOOLEAN]
NoEntry  == [status |-> "absent", hours |-> 0, author |-> Nobody, linked |-> FALSE]

(* A request: what it has still to lock, from which end of the order, what *)
(* it has locked and will write, the copy it edits, and its user.          *)
Work == [at : {"idle", "edit", "bulk", "run"}, todo : SUBSET Entry, back : BOOLEAN,
         got : SUBSET Entry, seen : EntryRow, by : User \cup {Nobody}]

Idle    == [at |-> "idle", todo |-> {}, back |-> FALSE, got |-> {}, seen |-> NoEntry, by |-> Nobody]
Free(w) == lock' = [e \in Entry |-> IF lock[e] = w THEN Nobody ELSE lock[e]]
End(w)  == Free(w) /\ ws' = [ws EXCEPT ![w] = Idle]
Unedited(e) == OneDesk => \A w \in Desk : ws[w].at = "edit" => e \notin ws[w].todo

-----------------------------------------------------------------------------
(* One entry.                                                              *)

Log(u, e) == \E h \in Hours :
  /\ entry[e].status = "absent"
  /\ entry' = [entry EXCEPT ![e] = [NoEntry EXCEPT !.status = "draft", !.hours = h, !.author = u]]
  /\ UNCHANGED <<line, lock, ws>>

Move(e, to) ==
  /\ lock[e] = Nobody /\ Unedited(e) /\ to \in Allowed[entry[e].status]
  /\ entry' = [entry EXCEPT ![e] = [entry[e] EXCEPT !.status = to]]
  /\ UNCHANGED <<line, lock, ws>>

Submit(e) == Move(e, "submitted")
Reject(e) == Move(e, "rejected")

\* Mutant: a rejected or billed entry may be approved, too.
MayApproveAny(u, row) == row.status # "draft" /\ u # row.author

(* assert_not_self_prepared; nobody here may break the glass.              *)
NotOwn(u, row) == u # row.author

MayApprove(u, row) == "approved" \in Allowed[row.status] /\ NotOwn(u, row)

Approve(u, e) == MayApprove(u, entry[e]) /\ Move(e, "approved")

ReadForEdit(w, e) ==
  /\ ws[w].at = "idle" /\ entry[e].status # "absent"
  /\ OneDesk => lock[e] = Nobody /\ \A v \in Desk : e \notin ws[v].todo
  /\ ws' = [ws EXCEPT ![w] = [Idle EXCEPT !.at = "edit", !.todo = {e}, !.seen = entry[e]]]
  /\ UNCHANGED <<entry, line, lock>>

Edit(w) == \E e \in ws[w].todo, h \in Hours :
  /\ ws[w].at = "edit" /\ lock[e] = Nobody
  /\ entry' = [entry EXCEPT ![e] = [ws[w].seen EXCEPT !.hours = h]]
  /\ End(w) /\ UNCHANGED line

-----------------------------------------------------------------------------
(* Many entries: a worker locks what it has to do in an order, one row at  *)
(* a time.                                                                 *)

Foremost(w) == {e \in ws[w].todo : \A d \in ws[w].todo :
  IF ws[w].back THEN Date[d] <= Date[e] ELSE Date[e] <= Date[d]}

(* bulk_approve: what the client may see, in the client's order.           *)
BeginBulk(w, u) == \E back \in BOOLEAN :
  /\ ws[w].at = "idle" /\ Entry # {}
  /\ \A e \in Entry : entry[e].status # "absent" /\ Unedited(e)
  /\ ws' = [ws EXCEPT ![w] =
       [Idle EXCEPT !.at = "bulk", !.by = u, !.todo = Entry, !.back = back]]
  /\ UNCHANGED <<entry, line, lock>>

Billable(e) == entry[e].status = "approved" /\ ~entry[e].linked

(* create_invoice_from_time: the candidates of one snapshot.               *)
BeginRun(w) ==
  /\ ws[w].at = "idle" /\ \A e \in Entry : Unedited(e)
  /\ \E e \in Entry : Billable(e)
  /\ ws' = [ws EXCEPT ![w] = [Idle EXCEPT !.at = "run", !.todo = {e \in Entry : Billable(e)}]]
  /\ UNCHANGED <<entry, line, lock>>

(* Once a row is locked it is read again: a bulk approval skips what may   *)
(* not be approved, whose savepoint gives the lock back, and the query of  *)
(* the run drops what no longer matches.                                   *)
Keeps(w, e) == IF ws[w].at = "run" THEN Billable(e) ELSE MayApprove(ws[w].by, entry[e])

LockNext(w) == \E e \in Foremost(w) :
  /\ ws[w].at \in {"bulk", "run"} /\ lock[e] = Nobody
  /\ lock' = IF ws[w].at = "run" \/ Keeps(w, e) THEN [lock EXCEPT ![e] = w] ELSE lock
  /\ ws' = [ws EXCEPT ![w] = [ws[w] EXCEPT
       !.todo = ws[w].todo \ {e},
       !.got  = IF Keeps(w, e) THEN ws[w].got \cup {e} ELSE ws[w].got]]
  /\ UNCHANGED <<entry, line>>

CommitBulk(w) ==
  /\ ws[w].at = "bulk" /\ ws[w].todo = {}
  /\ entry' = [e \in Entry |-> IF e \in ws[w].got THEN [entry[e] EXCEPT !.status = "approved"]
                               ELSE entry[e]]
  /\ End(w) /\ UNCHANGED line

(* One line per entry, or per task.  invoice_line is one-to-one, so a line *)
(* of several entries is refused.                                          *)
Groups(S, byTask) == IF byTask THEN {{e \in S : Task[e] = t} : t \in {Task[e] : e \in S}}
                     ELSE {{e} : e \in S}

CommitRun(w) == \E byTask \in BOOLEAN : LET G == Groups(ws[w].got, byTask) IN
  /\ ws[w].at = "run" /\ ws[w].todo = {} /\ ws[w].got # {}
  /\ \A g \in G : Cardinality(g) = 1
  /\ line' = [e \in Entry |-> IF {e} \in G THEN line[e] + 1 ELSE line[e]]
  /\ entry' = [e \in Entry |-> IF e \in ws[w].got
                 THEN [entry[e] EXCEPT !.status = "invoiced", !.linked = TRUE] ELSE entry[e]]
  /\ End(w)

(* Nothing is left to bill, or two entries of one task were to be grouped. *)
RefuseRun(w) ==
  /\ ws[w].at = "run" /\ ws[w].todo = {}
  /\ ws[w].got = {} \/ \E d, e \in ws[w].got : d # e /\ Task[d] = Task[e]
  /\ End(w) /\ UNCHANGED <<entry, line>>

WaitsFor(w, v) == /\ ws[w].at \in {"bulk", "run"} /\ v # w
                  /\ \E e \in Foremost(w) : lock[e] = v

\* Mutant: the locks of an aborted transaction stay.
AbortKeepsLocks(w) == /\ ws' = [ws EXCEPT ![w] = Idle] /\ UNCHANGED <<entry, line, lock>>

Abort(w) == End(w) /\ UNCHANGED <<entry, line>>

AbortDeadlock(w) ==
  /\ \E S \in SUBSET Desk : w \in S /\ \A x \in S : \E y \in S : WaitsFor(x, y)
  /\ Abort(w)

Crash(w) == ws[w].at # "idle" /\ Abort(w)

-----------------------------------------------------------------------------
Init ==
  /\ entry = [e \in Entry |-> NoEntry] /\ line = [e \in Entry |-> 0]
  /\ lock = [e \in Entry |-> Nobody] /\ ws = [w \in Desk |-> Idle]

Step(w) == LockNext(w) \/ CommitBulk(w) \/ CommitRun(w) \/ RefuseRun(w) \/ Edit(w)

Next ==
  \/ \E u \in User, e \in Entry : Log(u, e) \/ Approve(u, e)
  \/ \E e \in Entry : Submit(e) \/ Reject(e)
  \/ \E w \in Desk : \/ BeginRun(w) \/ Step(w) \/ AbortDeadlock(w) \/ Crash(w)
                     \/ \E u \in User : BeginBulk(w, u)
                     \/ \E e \in Entry : ReadForEdit(w, e)

(* A lock that is free again and again is granted in turn, the database    *)
(* ends a deadlock, and a running request goes on.                         *)
Fairness == \A w \in Desk : SF_vars(Step(w)) /\ WF_vars(AbortDeadlock(w))

Spec == Init /\ [][Next]_vars /\ Fairness

-----------------------------------------------------------------------------
(* What the project's screen says, at one rate.                            *)

HoursOf(S) == SumFunction([e \in Entry |-> IF e \in S THEN entry[e].hours ELSE 0])
HoursOnLines == SumFunction([e \in Entry |-> line[e] * entry[e].hours])
UnbilledTime == HoursOf({e \in Entry : Billable(e)})
BillableValue == HoursOf({e \in Entry : entry[e].status \in {"approved", "invoiced"}})

-----------------------------------------------------------------------------
(* Every variable has the values its columns can hold; linked and invoiced *)
(* are one fact (ck_timesheet_invoiced_has_line and its converse).         *)
TimesheetTypeOK ==
  /\ entry \in [Entry -> EntryRow] /\ line \in [Entry -> Nat]
  /\ lock \in [Entry -> Desk \cup {Nobody}]
  /\ \A e \in Entry : entry[e].linked <=> entry[e].status = "invoiced"
  /\ ws \in [Desk -> Work]

(* An hour is billed once: an entry is on one invoice line if it is marked *)
(* invoiced and on none otherwise, however runs, approvals in bulk and     *)
(* rejections of the same entries interleave, deadlock or die.             *)
BilledOnce == \A e \in Entry : line[e] = IF entry[e].status = "invoiced" THEN 1 ELSE 0

(* What the screen calls billable is what the next run finds and what is   *)
(* on invoice lines already: no approved hour falls between the two.       *)
FiguresTie ==
  BillableValue = UnbilledTime + HoursOnLines

(* Every request ends, in whatever order it locks its entries.             *)
BillingEnds == \A w \in Desk : ws[w].at # "idle" ~> ws[w].at = "idle"

(* The docstring of TimesheetEntry, projects/models.py:348: an approved    *)
(* entry is invoiced exactly once.                                         *)
NeverBilledTwice == \A e \in Entry : line[e] <= 1
=============================================================================
