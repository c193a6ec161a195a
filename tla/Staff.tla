---------------------------------- MODULE Staff ----------------------------------
(***************************************************************************)
(* Employees, their pay history and their attendance (apps.hr): phones     *)
(* check in and out and retry, supervisors enter and correct days, HR      *)
(* revises salaries, edits records and ends employments, and payroll and   *)
(* the HR dashboard count the same rows.                                   *)
(*                                                                         *)
(* An edit reads its row without a lock (get_object) and saves every       *)
(* column of the copy in ws[w].seen.  Time passes in ticks, DayLength of   *)
(* them a day.                                                             *)
(***************************************************************************)
EXTENDS Integers, FiniteSets, Functions

CONSTANTS
  Employee,    \* employees
  Desk,        \* workers that serve edits
  OneDesk,     \* is a row edited by one request at a time, and nothing else meanwhile?
  Salaries,    \* salaries
  Outcomes,    \* statuses of a day that a supervisor enters
  Corrects,    \* what supervisors correct: "status", "times"
  Typed,       \* the times of day that they type, None for no time
  Break,       \* break_minutes of the shift
  DayLength, LastDay,
  MaxEntered,  \* bound: days entered by a supervisor, and salary revisions
  None

VARIABLES
  person,    \* the employee rows
  revision,  \* the salary revisions, by employee and effective date
  day,       \* the attendance rows, by employee and date
  ws,        \* the edit in progress of each worker
  now        \* ticks

vars == <<person, revision, day, ws, now>>

P == INSTANCE Payslips

Days  == 0..LastDay
Today == now \div DayLength

(* ALLOWED_TRANSITIONS of Employee.                                        *)
Gone    == {"terminated", "resigned"}
Allowed == [active     |-> {"on_leave", "suspended"} \cup Gone,
            on_leave   |-> {"active", "suspended"} \cup Gone,
            suspended  |-> {"active"} \cup Gone,
            terminated |-> {},
            resigned   |-> {}]
IsPayable(e) == person[e].status \in {"active", "on_leave"}

EmployeeRow == [status : DOMAIN Allowed, left : Days \cup {None}, salary : Salaries]
RevisionRow == [from : Salaries, to : Salaries]

(* AttendanceRecord: shift is whether a shift is scheduled on the row, and *)
(* closed, a history, whether it was check_out that recorded the departure.*)
Statuses == DOMAIN P!Present \cup {"holiday", "weekend"}
DayRow   == [in : Nat \cup {None}, out : Nat \cup {None}, worked : Nat,
             status : Statuses, shift : BOOLEAN, closed : BOOLEAN]

StaffConstantsOK ==
  /\ IsFiniteSet(Employee) /\ OneDesk \in BOOLEAN /\ Salaries \subseteq Nat
  /\ Outcomes \subseteq Statuses /\ Corrects \subseteq {"status", "times"}
  /\ {Break, LastDay, MaxEntered} \subseteq Nat /\ DayLength \in Nat \ {0}
  /\ None \notin Employee /\ None \notin Nat /\ None \notin DayRow /\ None \notin RevisionRow
  /\ Typed \subseteq Nat \cup {None}

Recorded(e, d) == day[e][d] # None

Idle == [verb |-> "idle", who |-> None, on |-> None, seen |-> None]
Busy(w) == ws[w].verb # "idle"
End(w)  == ws' = [ws EXCEPT ![w] = Idle]

(* Nobody else works on the rows of e while one request edits them.        *)
Unedited(e) == OneDesk => \A w \in Desk : ws[w].who # e

-----------------------------------------------------------------------------
(* Employment.                                                             *)

MayLeave(e, outcome) == outcome \in Allowed[person[e].status]

(* terminate, under the lock of the row.                                   *)
Terminate(e, outcome, d) ==
  /\ Unedited(e) /\ MayLeave(e, outcome)
  /\ person' = [person EXCEPT ![e].status = outcome, ![e].left = d]
  /\ UNCHANGED <<revision, day, ws, now>>

ReadPerson(w, e) ==
  /\ ~Busy(w) /\ Unedited(e)
  /\ ws' = [ws EXCEPT ![w] = [verb |-> "person", who |-> e, on |-> None, seen |-> person[e]]]
  /\ UNCHANGED <<person, revision, day, now>>

(* A PATCH of the record: the status is not the client's to name, but the  *)
(* whole copy is saved.  The column of the salary is no revision.          *)
SavePerson(w, salary) ==
  /\ ws[w].verb = "person"
  /\ person' = [person EXCEPT ![ws[w].who] = [ws[w].seen EXCEPT !.salary = salary]]
  /\ End(w) /\ UNCHANGED <<revision, day, now>>

GiveUp(w) == Busy(w) /\ End(w) /\ UNCHANGED <<person, revision, day, now>>

-----------------------------------------------------------------------------
(* Salaries.                                                               *)
Revisions(e) == {[on |-> d, salary |-> revision[e][d].to] : d \in {x \in Days : revision[e][x] # None}}
InForce(e, d) == P!EffectiveSalary(Revisions(e), d)

Entered == Cardinality({x \in Employee \X Days : revision[x[1]][x[2]] # None})

(* One revision a date; what was paid before is taken from the record,     *)
(* which a revision does not change.                                       *)
Revise(e, d, salary) ==
  /\ Entered < MaxEntered /\ revision[e][d] = None
  /\ revision' = [revision EXCEPT ![e][d] = [from |-> person[e].salary, to |-> salary]]
  /\ UNCHANGED <<person, day, ws, now>>

(* PUT and PATCH are routed as for any other row.                          *)
Amend(e, d, salary) ==
  /\ revision[e][d] # None /\ salary # revision[e][d].to
  /\ revision' = [revision EXCEPT ![e][d].to = salary]
  /\ UNCHANGED <<person, day, ws, now>>

-----------------------------------------------------------------------------
(* Attendance.                                                             *)
Worked(row) ==
  IF None \in {row.in, row.out} THEN 0
  ELSE P!AtLeastZero(row.out - row.in - (IF row.shift THEN Break ELSE 0))

(* ck_hr_attendance_time_order                                             *)
InOrder(row) == None \notin {row.in, row.out} => row.in <= row.out

NewDay(in, out, status, shift) ==
  [in |-> in, out |-> out, worked |-> 0, status |-> status, shift |-> shift, closed |-> FALSE]

Unarrived(e) == Recorded(e, Today) => day[e][Today].in = None

(* check_in: get_or_create, and the first arrival stays.                   *)
CheckIn(e) ==
  LET row == IF Recorded(e, Today) THEN day[e][Today] ELSE NewDay(None, None, "present", FALSE)
      arrived == [row EXCEPT !.in = now]
  IN /\ Unedited(e) /\ Unarrived(e) /\ InOrder(arrived)
     /\ day' = [day EXCEPT ![e][Today] = arrived]
     /\ UNCHANGED <<person, revision, ws, now>>

(* check_out, of the calendar day it is: the first departure stays.        *)
CheckOut(e) ==
  LET gone == [day[e][Today] EXCEPT !.out = now] IN
  /\ Unedited(e) /\ Recorded(e, Today) /\ day[e][Today].out = None /\ InOrder(gone)
  /\ day' = [day EXCEPT ![e][Today] =
                 [gone EXCEPT !.worked = Worked(gone), !.closed = TRUE]]
  /\ UNCHANGED <<person, revision, ws, now>>

(* A supervisor enters a day that was missed, uq_hr_attendance_day, with   *)
(* the times he types; the hours are not the client's, and stay 0.         *)
EnterDay(e, d, status, shift) == \E in, out \in Typed :
  LET row == NewDay(in, out, status, shift) IN
  /\ Unedited(e) /\ ~Recorded(e, d) /\ InOrder(row)
  /\ Cardinality({x \in Employee \X Days : Recorded(x[1], x[2])}) < MaxEntered
  /\ day' = [day EXCEPT ![e][d] = row]
  /\ UNCHANGED <<person, revision, ws, now>>

ReadDay(w, e, d) ==
  /\ ~Busy(w) /\ Unedited(e) /\ Recorded(e, d)
  /\ ws' = [ws EXCEPT ![w] = [verb |-> "day", who |-> e, on |-> d, seen |-> day[e][d]]]
  /\ UNCHANGED <<person, revision, day, now>>

(* A PATCH of a day; the hours are not the client's to name, and are those *)
(* of the copy.                                                            *)
Corrected(seen) ==
  UNION {IF "status" \in Corrects THEN {[seen EXCEPT !.status = s] : s \in Outcomes} ELSE {},
         IF "times" \in Corrects
         THEN {[seen EXCEPT !.in = t] : t \in {now, None}}
                \cup {[seen EXCEPT !.out = t] : t \in {now, None}}
                \cup {[seen EXCEPT !.shift = s] : s \in BOOLEAN}
         ELSE {}}

CorrectDay(w) ==
  /\ ws[w].verb = "day"
  /\ \E row \in Corrected(ws[w].seen) :
       InOrder(row) /\ day' = [day EXCEPT ![ws[w].who][ws[w].on] = row]
  /\ End(w) /\ UNCHANGED <<person, revision, now>>

Tick == now < DayLength * (LastDay + 1) - 1 /\ now' = now + 1
        /\ UNCHANGED <<person, revision, day, ws>>

-----------------------------------------------------------------------------
(* compute_hr_metrics: heads, and the days of a window by status.          *)
Headcount == Cardinality({e \in Employee : IsPayable(e)})
LeftIn(from, to) == Cardinality({e \in Employee : person[e].left \in from..to})

Expected == {"present", "absent", "late", "half_day"}
Counted(from, to, S) ==
  Cardinality({x \in Employee \X (from..to) : Recorded(x[1], x[2]) /\ day[x[1]][x[2]].status \in S})
ExpectedDays(from, to) == Counted(from, to, Expected)

(* In half days, over which the rate of attendance is taken.               *)
Credited(from, to) ==
  2 * Counted(from, to, {"present", "late"}) + Counted(from, to, {"half_day"})

(* count_attendance of payroll, of one employee.                           *)
Records(e, from, to) ==
  {[day |-> d, status |-> day[e][d].status, approved |-> FALSE, overtime |-> 0] :
     d \in {x \in from..to : Recorded(e, x)}}
OnPayslips(from, to, part) ==
  SumFunctionOnSet([e \in Employee |-> P!Attended(Records(e, from, to))[part]], Employee)

-----------------------------------------------------------------------------
(* Employees are hired on the first day, without a revision.               *)
Init ==
  /\ person \in [Employee -> {[status |-> "active", left |-> None, salary |-> s] : s \in Salaries}]
  /\ revision = [e \in Employee |-> [d \in Days |-> None]]
  /\ day = [e \in Employee |-> [d \in Days |-> None]]
  /\ ws = [w \in Desk |-> Idle] /\ now = 0

Employment(e) ==
  \/ \E d \in Days, outcome \in Gone : Terminate(e, outcome, d)
  \/ \E d \in Days, salary \in Salaries : Revise(e, d, salary) \/ Amend(e, d, salary)
  \/ \E w \in Desk : ReadPerson(w, e)
  \/ \E w \in Desk, salary \in Salaries : SavePerson(w, salary)

Attendance(e) ==
  \/ CheckIn(e) \/ CheckOut(e)
  \/ \E d \in Days, status \in Outcomes, shift \in BOOLEAN : EnterDay(e, d, status, shift)
  \/ \E w \in Desk, d \in Days : ReadDay(w, e, d)
  \/ \E w \in Desk : CorrectDay(w)

Next == \/ \E e \in Employee : Employment(e) \/ Attendance(e)
        \/ \E w \in Desk : GiveUp(w)
        \/ Tick

Spec == Init /\ [][Next]_vars

-----------------------------------------------------------------------------
(* Every variable has the values its columns can hold.                     *)
StaffTypeOK ==
  /\ person \in [Employee -> EmployeeRow]
  /\ \A e \in Employee, d \in Days :
       /\ revision[e][d] \in RevisionRow \cup {None}
       /\ day[e][d] # None => day[e][d] \in DayRow /\ InOrder(day[e][d])
  /\ now \in Nat

(* The dashboard's moves explain its heads: who is not counted has left on *)
(* a day, and is counted as leaving once, in whatever window.              *)
HeadsAreMoves ==
  /\ Headcount + LeftIn(0, LastDay) = Cardinality(Employee)
  /\ \A d \in Days : LeftIn(0, d) + LeftIn(d + 1, LastDay) = LeftIn(0, LastDay)

(* Payroll and the dashboard count the same days: they differ by the days  *)
(* of leave, which are paid and not expected.                              *)
SameDays == \A from, to \in Days :
  LET leave == 2 * Counted(from, to, {"on_leave"}) IN
  /\ OnPayslips(from, to, "working") = 2 * ExpectedDays(from, to) + leave
  /\ OnPayslips(from, to, "present") = Credited(from, to) + leave
  /\ Credited(from, to) <= 2 * ExpectedDays(from, to)

(* The hours of a day are those between its first arrival and its first    *)
(* departure as soon as check_out has recorded it, however often phones    *)
(* repeat themselves, on whichever side of midnight, and also when the     *)
(* arrival, the status or the shift were a supervisor's; before, and on a  *)
(* day whose departure he typed, there are none.                           *)
HoursAreTheTimes == \A e \in Employee, d \in Days :
  LET row == day[e][d] IN
  Recorded(e, d) => row.worked = IF row.closed THEN Worked(row) ELSE 0

(* The docstring of AttendanceRecordSerializer, hr/serializers.py:292:     *)
(* worked hours are computed from the timestamps, of every day.            *)
EveryDayHasItsHours == \A e \in Employee, d \in Days :
  Recorded(e, d) => day[e][d].worked = Worked(day[e][d])

(* Heads, days and hours in one.                                           *)
StaffAddsUp == HeadsAreMoves /\ SameDays /\ HoursAreTheTimes

(* The comment of ALLOWED_TRANSITIONS, hr/models.py:258: terminated and    *)
(* resigned are terminal.                                                  *)
LeaversStayGone == [][\A e \in Employee : person[e].status \in Gone =>
                        person'[e].status = person[e].status]_vars

(* The docstring of SalaryRevision, hr/models.py:528: rows are never       *)
(* updated; payroll of a past period comes out the same again.             *)
RevisionsStand == [][\A e \in Employee, d \in Days : revision[e][d] # None =>
                       revision'[e][d] = revision[e][d]]_vars

(* The comment of perform_create, hr/viewsets.py:350: a revision does not  *)
(* misstate the old salary.                                                *)
RevisionsChain == \A e \in Employee, d \in Days :
  LET before == {x \in Revisions(e) : x.on < d} IN
  revision[e][d] # None /\ before # {} =>
    revision[e][d].from = P!EffectiveSalary(before, d)
=============================================================================
