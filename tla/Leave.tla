---------------------------------- MODULE Leave ----------------------------------
(***************************************************************************)
(* Leave requests and the balances they draw on (hr/services/leave.py and  *)
(* the verbs of hr/viewsets.py): days are held when a request is           *)
(* submitted, taken when it is approved, given back when it is rejected or *)
(* cancelled, and granted by the monthly accrual.  An account is an        *)
(* employee, a type of leave and a year, the key by which the services     *)
(* look a balance up; a request names its account by what its row says at  *)
(* that moment, and a PATCH may change it.                                 *)
(*                                                                         *)
(* A request reads the leave request without a lock (get_object) and keeps *)
(* the copy in ws[w].seen; the service decides on that copy and only then  *)
(* locks the balance, so from the lock to COMMIT is one action.  The       *)
(* accrual locks balance after balance and holds them to its COMMIT.  Days *)
(* are counted in half days, and the working days of a range are the same  *)
(* for all employees and do not change.                                    *)
(***************************************************************************)
EXTENDS Integers, FiniteSets, Functions

CONSTANTS
  Entitlement, \* employee, type of leave and year
  Holder,     \* the employee of each account
  Request,    \* leave requests
  Dates,      \* date ranges of requests
  InYear,     \* the pairs of an account and a range that begins in its year
  Overlap,    \* the pairs of ranges that share a day
  Working,    \* the working days of each range
  Desk,       \* the workers that serve requests
  OneDesk,    \* does a leave request, or a balance, have one request at a time?
  NeedsHR,    \* requires_hr_approval of the type of each account
  Opening,    \* its days at the start of the year; with none it has no row
  Rate, Cap,  \* of its monthly accrual; a rate of 0 is none, 0 is no cap
  MaxMonth,   \* bound: months that pass
  Adjustment, \* corrections by hand
  Nothing     \* an idle worker's request

LeaveConstantsOK ==
  /\ IsFiniteSet(Request) /\ Nothing \notin Request \cup Entitlement /\ Request \cap Entitlement = {}
  /\ Overlap \subseteq Dates \X Dates /\ Working \in [Dates -> Nat] /\ InYear \subseteq Entitlement \X Dates
  /\ NeedsHR \in [Entitlement -> BOOLEAN] /\ Opening \in [Entitlement -> Nat] /\ Rate \in [Entitlement -> Nat]
  /\ {Cap, MaxMonth} \subseteq Nat /\ Adjustment \subseteq Int /\ OneDesk \in BOOLEAN

VARIABLES
  leave,    \* the leave request rows
  steps,    \* the decisions of each request: manager and HR
  balance,  \* the balance row of each account
  strayed,  \* history: the accounts a client parted from their requests or months
  begun,    \* the ranges whose first day has come
  month,    \* months that have begun
  ws        \* the request of each worker

vars == <<leave, steps, balance, strayed, begun, month, ws>>

Waiting  == {"submitted", "pending_manager", "pending_hr"}
Blocking == Waiting \cup {"approved"}

(* ALLOWED_TRANSITIONS of LeaveRequest.                                    *)
Allowed == [draft           |-> {"submitted", "cancelled"},
            submitted       |-> {"pending_manager", "pending_hr", "approved",
                                 "rejected", "cancelled"},
            pending_manager |-> {"pending_hr", "approved", "rejected", "cancelled"},
            pending_hr      |-> {"approved", "rejected", "cancelled"},
            approved        |-> {"cancelled"},
            rejected        |-> {},
            cancelled       |-> {}]

LeaveRow == [status : DOMAIN Allowed, of : Entitlement, range : Dates, days : Nat, applied : BOOLEAN]

(* LeaveApproval: step 1 is the manager's, step 2 that of HR; "none" is no *)
(* row.                                                                    *)
Decision == {"none", "pending", "approved", "rejected", "skipped"}
StepRow  == [manager : Decision, hr : Decision]

(* accruedIn is the month of last_accrued_on.                              *)
BalanceRow == [there : BOOLEAN, available : Int, pending : Nat, taken : Nat, accrued : Nat,
               adjusted : Int, accruedIn : Nat]
NoBalance  == [there |-> FALSE, available |-> 0, pending |-> 0, taken |-> 0, accrued |-> 0,
               adjusted |-> 0, accruedIn |-> 0]

Idle == [verb |-> "idle", doc |-> Nothing, seen |-> Nothing]
End(w) == ws' = [ws EXCEPT ![w] = Idle]
Serves(w, verb) == ws[w].verb = verb

Positive(n) == IF n > 0 THEN n ELSE 0

-----------------------------------------------------------------------------
(* get_object at the start of a request.                                   *)
Read(w, verb, r) ==
  /\ ws[w].verb = "idle"
  /\ OneDesk => \A v \in Desk : ws[v].doc # r
  /\ ws' = [ws EXCEPT ![w] = [verb |-> verb, doc |-> r, seen |-> leave[r]]]
  /\ UNCHANGED <<leave, steps, balance, strayed, begun, month>>

(* A request is refused, loses a deadlock or dies, and leaves nothing.     *)
GiveUp(w) ==
  /\ ws[w].verb # "idle" /\ End(w)
  /\ UNCHANGED <<leave, steps, balance, strayed, begun, month>>

(* What a live request leaves behind when its row changes: a balance that  *)
(* holds its days though it names another, or holds other days than its    *)
(* dates have.                                                             *)
Parted(old, row) ==
  IF row.status \notin Blocking THEN {}
  ELSE (IF row.of # old.of THEN {old.of, row.of} ELSE {})
       \cup (IF row.days # Working[row.range] THEN {row.of} ELSE {})

(* A PATCH may name another employee, type of leave and dates in every     *)
(* status; total_days is not the client's.  The whole copy is saved.       *)
Edit(w) == \E a \in Entitlement, g \in Dates :
  LET row == [ws[w].seen EXCEPT !.of = a, !.range = g] IN
  /\ Serves(w, "edit") /\ <<a, g>> \in InYear
  /\ leave' = [leave EXCEPT ![ws[w].doc] = row]
  /\ strayed' = strayed \cup Parted(leave[ws[w].doc], row)
  /\ End(w) /\ UNCHANGED <<steps, balance, begun, month>>

-----------------------------------------------------------------------------
(* submit_request.                                                         *)

Clashes(r, seen) == \E q \in Request \ {r} :
  /\ leave[q].status \in Blocking /\ Holder[leave[q].of] = Holder[seen.of]
  /\ <<seen.range, leave[q].range>> \in Overlap

(* The checks before the balance is locked: days are counted, and no live  *)
(* request of the employee overlaps.                                       *)
CheckSubmit(w) == LET seen == ws[w].seen IN
  /\ Serves(w, "submit")
  /\ "submitted" \in Allowed[seen.status] /\ Working[seen.range] > 0
  /\ ~Clashes(ws[w].doc, seen)
  /\ ws' = [ws EXCEPT ![w].verb = "hold", ![w].seen.days = Working[seen.range]]
  /\ UNCHANGED <<leave, steps, balance, strayed, begun, month>>

Enough(b, days) == days <= b.available - b.pending

(* A balance that is not there is inserted first, without days.            *)
Held(b, days) == [b EXCEPT !.there = TRUE, !.pending = @ + days]

(* _next_approver: without a manager to ask the request goes to HR at      *)
(* once, and the manager's step says so.                                   *)
FirstStep(s) == IF s = "pending_manager" THEN "pending" ELSE "skipped"

(* The days are held, the whole row is saved and the manager's step        *)
(* inserted, once a request (uq_hr_leave_approval_step).                   *)
Submit(w) == LET seen == ws[w].seen  b == balance[seen.of] IN
  /\ Serves(w, "hold") /\ Enough(b, seen.days) /\ steps[ws[w].doc].manager = "none"
  /\ balance' = [balance EXCEPT ![seen.of] = Held(b, seen.days)]
  /\ \E s \in {"pending_manager", "pending_hr"} :
       /\ leave' = [leave EXCEPT ![ws[w].doc] = [seen EXCEPT !.status = s]]
       /\ steps' = [steps EXCEPT ![ws[w].doc].manager = FirstStep(s)]
  /\ End(w) /\ UNCHANGED <<strayed, begun, month>>

-----------------------------------------------------------------------------
(* approve_step.                                                           *)

(* _record_decision: the row of the step is inserted or written over.      *)
Recorded(r, atManager, decision) ==
  IF atManager THEN [steps EXCEPT ![r].manager = decision] ELSE [steps EXCEPT ![r].hr = decision]

(* The manager's approval of a type that HR decides too; the step of HR is *)
(* opened if it is not there.                                              *)
ApproveManager(w) == LET seen == ws[w].seen IN
  /\ Serves(w, "approve") /\ seen.status = "pending_manager" /\ NeedsHR[seen.of]
  /\ leave' = [leave EXCEPT ![ws[w].doc].status = "pending_hr"]
  /\ steps' = [steps EXCEPT ![ws[w].doc] =
                 [manager |-> "approved", hr |-> IF @.hr = "none" THEN "pending" ELSE @.hr]]
  /\ End(w) /\ UNCHANGED <<balance, strayed, begun, month>>

LastStep(seen) == \/ seen.status = "pending_manager" /\ ~NeedsHR[seen.of]
                  \/ seen.status \in {"submitted", "pending_hr"}

\* Mutant: the days stay held when they are taken.
DebitedKeepingHold(b, days) == [b EXCEPT !.there = TRUE, !.taken = @ + days, !.available = @ - days]

Debited(b, days) == [b EXCEPT !.there = TRUE, !.pending = Positive(@ - days), !.taken = @ + days,
                              !.available = @ - days]

(* _finalise_approval: the days move from held to taken unless the copy    *)
(* says that they have.                                                    *)
Finalise(w) == LET seen == ws[w].seen  b == balance[seen.of] IN
  /\ Serves(w, "approve") /\ LastStep(seen)
  /\ IF seen.applied THEN balance' = [balance EXCEPT ![seen.of].there = TRUE]
     ELSE b.available >= seen.days /\ balance' = [balance EXCEPT ![seen.of] = Debited(b, seen.days)]
  /\ leave' = [leave EXCEPT ![ws[w].doc].status = "approved", ![ws[w].doc].applied = TRUE]
  /\ steps' = Recorded(ws[w].doc, seen.status = "pending_manager", "approved")
  /\ End(w) /\ UNCHANGED <<strayed, begun, month>>

Released(b, days) == [b EXCEPT !.pending = Positive(@ - days)]

(* reject: held days are released, and of the row the status is written.   *)
(* Without a balance there is nothing to lock, and the request is refused. *)
Reject(w) == LET seen == ws[w].seen  b == balance[seen.of] IN
  /\ Serves(w, "reject") /\ "rejected" \in Allowed[seen.status] /\ b.there
  /\ balance' = [balance EXCEPT ![seen.of] = IF seen.applied THEN b ELSE Released(b, seen.days)]
  /\ leave' = [leave EXCEPT ![ws[w].doc].status = "rejected"]
  /\ steps' = Recorded(ws[w].doc, seen.status # "pending_hr", "rejected")
  /\ End(w) /\ UNCHANGED <<strayed, begun, month>>

(* Whether a request has days to give back, and the balance that has them. *)
Owing(seen) == seen.applied \/ seen.status \in Blocking

Returned(b, seen) ==
  CASE seen.applied -> [b EXCEPT !.taken = Positive(@ - seen.days), !.available = @ + seen.days]
    [] ~seen.applied /\ Owing(seen) -> Released(b, seen.days)
    [] OTHER -> b

(* cancel: approved leave that has begun stays; the whole copy is saved.   *)
Cancel(w) == LET seen == ws[w].seen  b == balance[seen.of] IN
  /\ Serves(w, "cancel") /\ "cancelled" \in Allowed[seen.status] /\ (Owing(seen) => b.there)
  /\ seen.status = "approved" => seen.range \notin begun
  /\ balance' = [balance EXCEPT ![seen.of] = Returned(b, seen)]
  /\ leave' = [leave EXCEPT ![ws[w].doc] = [seen EXCEPT !.status = "cancelled",
                                                        !.applied = FALSE]]
  /\ End(w) /\ UNCHANGED <<steps, strayed, begun, month>>

-----------------------------------------------------------------------------
(* The balances alone.                                                     *)

Due(a) == Rate[a] > 0 /\ balance[a].accruedIn < month

Grant(a) == IF Cap = 0 \/ balance[a].available + Rate[a] <= Cap THEN Rate[a]
            ELSE Positive(Cap - balance[a].available)

Granted(a) == [balance[a] EXCEPT !.there = TRUE, !.accrued = @ + Grant(a),
                                 !.available = @ + Grant(a), !.accruedIn = month]

(* accrue_monthly, under the locks of the balances.  The task may be       *)
(* delivered again, late, or not at all (acks_late).                       *)
Accrue ==
  /\ \E a \in Entitlement : Due(a)
  /\ balance' = [a \in Entitlement |-> IF Due(a) THEN Granted(a) ELSE balance[a]]
  /\ UNCHANGED <<leave, steps, strayed, begun, month, ws>>

(* The balance of which a client names another month as the last granted.  *)
Dated(a, b, m) == IF m = b.accruedIn THEN {} ELSE {a}

(* A POST inserts a balance of which adjusted_days and last_accrued_on are *)
(* the client's.                                                           *)
Open == \E a \in Entitlement, n \in Adjustment, m \in 0..month :
  /\ ~balance[a].there
  /\ balance' = [balance EXCEPT ![a].there = TRUE, ![a].adjusted = n, ![a].accruedIn = m]
  /\ strayed' = strayed \cup Dated(a, balance[a], m)
  /\ UNCHANGED <<leave, steps, begun, month, ws>>

(* A PATCH of a balance: read without a lock, every column written.        *)
ReadBalance(w, a) ==
  /\ ws[w].verb = "idle" /\ balance[a].there
  /\ OneDesk => \A v \in Desk : ws[v].verb = "idle"
  /\ ws' = [ws EXCEPT ![w] = [verb |-> "adjust", doc |-> a, seen |-> balance[a]]]
  /\ UNCHANGED <<leave, steps, balance, strayed, begun, month>>

Unread == OneDesk => \A w \in Desk : ws[w].verb # "adjust"

(* It writes the same two, and may name another employee, type or year (not*)
(* while another PATCH of a balance is under way, which would save its     *)
(* copy under the old name).                                               *)
Adjust(w) == \E n \in Adjustment, m \in 0..month, b \in Entitlement :
  LET a == ws[w].doc  row == [ws[w].seen EXCEPT !.adjusted = n, !.accruedIn = m] IN
  /\ Serves(w, "adjust")
  /\ b # a => ~balance[b].there /\ \A v \in Desk \ {w} : ws[v].verb # "adjust"
  /\ balance' = [balance EXCEPT ![a] = NoBalance, ![b] = row]
  /\ strayed' = strayed \cup (IF b = a THEN {} ELSE {a, b}) \cup Dated(b, ws[w].seen, m)
  /\ End(w) /\ UNCHANGED <<leave, steps, begun, month>>

-----------------------------------------------------------------------------
Begins(g) ==
  /\ g \notin begun /\ begun' = begun \cup {g}
  /\ UNCHANGED <<leave, steps, balance, strayed, month, ws>>

NextMonth ==
  /\ month < MaxMonth /\ month' = month + 1
  /\ UNCHANGED <<leave, steps, balance, strayed, begun, ws>>

(* The request rows are drafts made outside the API, whose default of      *)
(* total_days ck_hr_leave_request_days_positive refuses.                   *)
Init ==
  /\ leave \in [Request -> {[status |-> "draft", of |-> p[1], range |-> p[2], days |-> 1,
                              applied |-> FALSE] : p \in InYear}]
  /\ balance = [a \in Entitlement |-> [NoBalance EXCEPT !.there = Opening[a] > 0,
                                                    !.available = Opening[a]]]
  /\ steps = [r \in Request |-> [manager |-> "none", hr |-> "none"]]
  /\ strayed = {} /\ begun = {} /\ month = 0 /\ ws = [w \in Desk |-> Idle]

Serve(w) ==
  \/ \E r \in Request, verb \in {"submit", "approve", "reject", "cancel", "edit"} :
       Unread /\ Read(w, verb, r)
  \/ CheckSubmit(w) \/ Submit(w) \/ ApproveManager(w) \/ Finalise(w) \/ Reject(w)
  \/ Cancel(w) \/ Edit(w) \/ Adjust(w) \/ GiveUp(w)
  \/ \E a \in Entitlement : ReadBalance(w, a)

Next ==
  \/ \E w \in Desk : Serve(w)
  \/ Unread /\ Accrue
  \/ Open
  \/ NextMonth
  \/ \E g \in Dates : Begins(g)

Spec == Init /\ [][Next]_vars

-----------------------------------------------------------------------------
(* Every variable has the values its columns can hold.                     *)
LeaveTypeOK ==
  /\ leave \in [Request -> LeaveRow] /\ balance \in [Entitlement -> BalanceRow]
  /\ steps \in [Request -> StepRow] /\ strayed \subseteq Entitlement
  /\ begun \subseteq Dates /\ month \in 0..MaxMonth
  /\ \A w \in Desk : ws[w].doc \in Request \cup Entitlement \cup {Nothing}

DaysOf(a, statuses) ==
  SumFunctionOnSet([r \in Request |-> leave[r].days],
                   {r \in Request : leave[r].of = a /\ leave[r].status \in statuses})

(* A balance knows its requests: what is held is what the waiting requests *)
(* ask for, what is taken is what was approved, the rest of the            *)
(* entitlement is available, and what a request asks for are the working   *)
(* days of its dates.                                                      *)
AddsUp(a) == LET b == balance[a] IN
  /\ b.pending = DaysOf(a, Waiting)
  /\ b.taken = DaysOf(a, {"approved"})
  /\ b.available = Opening[a] + b.accrued - b.taken
  /\ \A r \in Request : leave[r].of = a /\ leave[r].status \in Blocking =>
       leave[r].days = Working[leave[r].range]

Kept == Entitlement \ strayed

(* Every balance adds up, in whatever order requests are submitted,        *)
(* decided, edited, cancelled and the month's days granted, unless a live  *)
(* request was moved away from it, onto it or to dates of other length, or *)
(* the balance itself was named after another account or given another     *)
(* month.                                                                  *)
BalanceIsItsRequests == \A a \in Kept : AddsUp(a)

(* No days are spent twice: requests that each fit a balance do not exceed *)
(* it together, whichever of them is approved first.                       *)
HeldWithinAvailable == \A a \in Kept : balance[a].pending <= balance[a].available

(* The trail of decisions explains the status: a request waits for the     *)
(* step that is open, is approved by the last level its type asks for and  *)
(* by nobody below who refused, and is rejected by one level only.         *)
StepsTellTheStatus == \A r \in Request :
  LET s == leave[r].status  m == steps[r].manager  h == steps[r].hr  a == leave[r].of IN
  /\ s = "pending_manager" => m = "pending" /\ h = "none"
  /\ s = "pending_hr" => m \in {"approved", "skipped"} /\ h \in {"none", "pending"}
  /\ s = "approved" =>
       /\ "rejected" \notin {m, h}
       /\ a \in Kept => h = "approved" \/ (m = "approved" /\ ~NeedsHR[a])
  /\ (s = "rejected") <=> ("rejected" \in {m, h})
  /\ ~(m = "rejected" /\ h = "rejected")

(* A month is granted once, however often its task is delivered, unless    *)
(* last_accrued_on was written by hand.                                    *)
GrantedOnceAMonth == \A a \in Kept : balance[a].accrued <= Rate[a] * month

(* The docstring of approve_step, hr/services/leave.py:385: balance_applied *)
(* makes the debit idempotent against a retried request.                   *)
DebitedOnce == \A a \in Kept : balance[a].taken <= DaysOf(a, DOMAIN Allowed)

(* The days of a live request are computed from its dates, not named by    *)
(* the client (LeaveRequestSerializer, hr/serializers.py:414), and held by *)
(* the balance that the request names.                                     *)
EveryBalanceAddsUp == \A a \in Entitlement : AddsUp(a)

(* The docstring of accrue_monthly, hr/services/leave.py:609: a second run *)
(* in a month is a no-op rather than a second grant.                       *)
EveryMonthGrantedOnce == \A a \in Entitlement : balance[a].accrued <= Rate[a] * month

(* The comment of LeaveBalance, hr/models.py:1050: the invariant that the  *)
(* service layer is said to assert.                                        *)
AvailableAddsUp == \A a \in Entitlement : LET b == balance[a] IN
  b.available = Opening[a] + b.accrued + b.adjusted - b.taken

(* The docstring of LeaveRequest, hr/models.py:1122: two live requests of  *)
(* one employee cannot overlap.                                            *)
NoDoubleBooking == \A q, r \in Request :
  /\ q # r /\ Holder[leave[q].of] = Holder[leave[r].of]
  /\ {leave[q].status, leave[r].status} \subseteq Blocking
  => <<leave[q].range, leave[r].range>> \notin Overlap
=============================================================================
