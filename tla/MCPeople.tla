------------------------------- MODULE MCPeople -------------------------------
(***************************************************************************)
(* Payroll runs, leave, account codes and the calculations under them, in  *)
(* small instances for TLC.  A behaviour works in one part from its first  *)
(* state on: the modules share no rows.                                    *)
(***************************************************************************)
EXTENDS Payroll, TLC

CONSTANTS
  r1, r2, s1, g1, g2, w1, w2, u1, u2,
  Parts,      \* the parts that are looked at
  Short,      \* do the bounds ShortLeave and ShortDays hold?
  (* Of Leave: its requests, its calendar and its balances.                *)
  Entitlement, Holder, Request, Dates, InYear, Overlap, Working, NeedsHR, Opening, Rate, Cap,
  MaxMonth, Adjustment,
  (* Of Staff.                                                             *)
  Employee, Clerk, Salaries, Outcomes, Corrects, Typed, Break, DayLength, LastDay, MaxEntered,
  Clocking,   \* the employees whose days are looked at
  (* Of Organisations.                                                     *)
  Org, Email, Currency, Key, Month, MaxPlaces, Template,
  Settled,    \* the organisations whose settings are looked at
  (* Of Roles.                                                             *)
  Permission, SystemRole, CustomRole, Member, Seat, File, MaxGrants,
  (* Of Scopes.                                                            *)
  Department, Project, Resource, Rule, Rank, Actor, Boss, Builds, Moves

(* r1 and r2 are payroll runs in one part and leave requests in another.   *)
VARIABLES
  part,
  leave, steps, balance, strayed, begun, month, desk,
  rows, coders,
  person, revision, day, hr, now,
  org, entries, release, office,
  known, roles, asked, grants, today, deployed, seat,
  parent, path, place, team, linked, held,
  input

payrollVars == vars
leaveVars   == <<leave, steps, balance, strayed, begun, month, desk>>
codeVars    == <<rows, coders>>
staffVars   == <<person, revision, day, hr, now>>
orgVars     == <<org, entries, release, office>>
roleVars    == <<known, roles, asked, grants, today, deployed, seat>>
scopeVars   == <<parent, path, place, team, linked, held>>
allVars     == <<part, payrollVars, leaveVars, codeVars, staffVars, orgVars, roleVars, scopeVars, input>>

(* Two runs of periods that share a day: one slip is in both.              *)
SharedSlip == (r1 :> {s1}) @@ (r2 :> {s1})

(* A one-day and a two-day range that do not overlap.                      *)
TwoRanges   == {<<g1, g1>>, <<g2, g2>>}
WorkingDays == (g1 :> 1) @@ (g2 :> 2)

(* One employee and two types of leave, of one year: HR decides the one,   *)
(* and the other has no days before the first month and no long range.     *)
Types      == {"annual", "sick"}
OneHolder  == [a \in Types |-> "e1"]
OneYear    == {<<"annual", g1>>, <<"annual", g2>>, <<"sick", g1>>}
AnnualIsHR == [annual |-> TRUE, sick |-> FALSE]
StartDays  == [annual |-> 2, sick |-> 0]
OneAMonth  == [a \in Types |-> 1]

Holidays == INSTANCE Leave WITH
  Desk <- Worker, OneDesk <- OneOfficer, Nothing <- None, ws <- desk

(* Three levels with room for two children each.                           *)
Chart == INSTANCE AccountCoding WITH
  Worker <- {w1, w2}, Slot <- <<3, 3, 3>>, MaxRows <- 6, Root <- None, ws <- coders

(* Two employees whose records are edited at one desk, and the days of one *)
(* of them: no row of the one is a row of the other.                       *)
MorningOrNight == {None, 1, 4}

Crew == INSTANCE Staff WITH Desk <- Clerk, OneDesk <- OneOfficer, ws <- hr

(* Two organisations of one name, and a release that adds an account.      *)
TwoReleases == <<<<"bank", "fees">>, <<"bank", "fees", "vat">>>>

Firms == INSTANCE Organisations WITH OneDesk <- OneOfficer, ws <- office

(* Three files: the second drops a role and a permission and adds one, the *)
(* third grants what it does not declare.                                  *)
ThreeFiles ==
  <<[permissions |-> {"read", "post"}, roles |-> [r \in {"clerk", "auditor"} |-> {"read"}]],
    [permissions |-> {"read", "void"}, roles |-> [r \in {"clerk"} |-> {"read", "void"}]],
    [permissions |-> {"read"}, roles |-> [r \in {"clerk"} |-> {"post"}]]>>

Catalogue == INSTANCE Roles WITH Desk <- Seat, OneDesk <- OneOfficer, ws <- seat

(* The scopes of three roles as permissions.json has them, in a chart of   *)
(* three departments.                                                      *)
Own(resources) == [resource \in resources |-> "own_record"]
Filed  == {"leave_request", "expense", "timesheet_entry"}
Shipped ==
  [owner |-> [payroll_run |-> "all"],
   department_manager |->
     [resource \in Filed \cup {"employee", "department"} |-> "department_subtree"]
     @@ [resource \in {"project", "invoice", "customer"} |-> "assigned_projects"] @@ [payslip |-> "none"],
   employee |-> Own(Filed \cup {"payslip", "employee"})
     @@ [department |-> "own_department", project |-> "assigned_projects", payroll_run |-> "none"]]
RoleRank == [owner |-> 0, department_manager |-> 30, employee |-> 50]
Resources == Filed \cup {"employee", "payslip", "department", "project", "invoice", "payroll_run",
                         "customer", "account"}
OneBoss == [e1 |-> None, e2 |-> "e1"]

Sight == INSTANCE Scopes

Calculations == INSTANCE MCAmounts

ASSUME LeaveConstants == Holidays!LeaveConstantsOK
ASSUME CrewConstants == Crew!StaffConstantsOK
ASSUME FirmsConstants == Firms!OrganisationsConstantsOK
ASSUME RoleConstants == Catalogue!RolesConstantsOK
ASSUME SightConstants == Sight!ScopesConstantsOK
ASSUME LookedAt == Clocking \subseteq Employee /\ Settled \subseteq Org
ASSUME ChartConstants == Chart!AccountCodingConstantsOK
ASSUME AmountsConstants == Calculations!AmountsConstantsOK

AnyOrder == Permutations({w1, w2}) \cup Permutations({r1, r2}) \cup Permutations({u1, u2})

NoInput == [kind |-> "none"]

PeopleInit ==
  /\ part \in Parts
  /\ IF part = "amounts" THEN input \in Calculations!Inputs ELSE input = NoInput
  /\ Init /\ Holidays!Init /\ Chart!Init /\ Crew!Init /\ Firms!Init /\ Catalogue!Init /\ Sight!Init
  /\ \A e \in Employee : person[e].salary = 1
  /\ part # "payroll" => salary = 1
  /\ part # "leave" => \A r \in Request :
       <<leave[r].of, leave[r].range>> = CHOOSE p \in InYear : TRUE

(* Bounds of the leave part: a behaviour is followed up to the first PATCH *)
(* that parts a balance from its requests or months, after the first month *)
(* only while all are drafts; leave begins in the first month, the month   *)
(* turns between requests, and once either has happened, and while a row   *)
(* is edited, one worker serves at a time, beside the accrual.             *)
ShortLeave ==
  /\ strayed = {} /\ begun' \subseteq {g1}
  /\ strayed' # {} /\ month # 0 => \A r \in Request : leave[r].status = "draft"
  /\ month' # month => \A w \in Worker : desk[w].verb = "idle"
  /\ begun' # {} => month' = 0
  /\ begun' # {} \/ month' # 0 \/ (\E w \in Worker : desk'[w].verb \in {"edit", "adjust"}) =>
       \E w \in Worker : desk'[w].verb = "idle"

(* Bound of the days part: times are typed of the first day only.          *)
ShortDays(e) == \A d \in Crew!Days \ {0} :
  day[e][d] = None /\ day'[e][d] # None /\ day'[e][d].status # "present" =>
    day'[e][d].in = None /\ day'[e][d].out = None

WorkNext ==
  \/ part = "payroll" /\ Next /\ UNCHANGED <<leaveVars, codeVars, staffVars, orgVars>>
  \/ /\ part = "leave" /\ UNCHANGED <<payrollVars, codeVars, staffVars, orgVars>>
     /\ Holidays!Next /\ (Short => ShortLeave)
  \/ part = "codes" /\ Chart!Next /\ UNCHANGED <<payrollVars, leaveVars, staffVars, orgVars>>
  \/ /\ part = "staff" /\ UNCHANGED <<payrollVars, leaveVars, codeVars, orgVars>>
     /\ \/ \E e \in Employee : Crew!Employment(e)
        \/ \E w \in Clerk : Crew!GiveUp(w)
  \/ /\ part = "days" /\ UNCHANGED <<payrollVars, leaveVars, codeVars, orgVars>>
     /\ \/ \E e \in Clocking : Crew!Attendance(e) /\ (Short => ShortDays(e))
        \/ Crew!Tick
        \/ \E w \in Clerk : Crew!GiveUp(w)
  \/ /\ part = "founding" /\ UNCHANGED <<payrollVars, leaveVars, codeVars, staffVars>>
     /\ \E w \in Worker : Firms!Founding(w) \/ Firms!Abort(w)
  \/ /\ part = "firm" /\ UNCHANGED <<payrollVars, leaveVars, codeVars, staffVars>>
     /\ Firms!Next
     /\ \A o \in Org \ Settled : org'[o] = None /\ \A w \in Worker : office'[w].of # o

PeopleNext == UNCHANGED <<part, input>> /\
  \/ UNCHANGED <<roleVars, scopeVars>> /\ WorkNext
  \/ /\ UNCHANGED <<payrollVars, leaveVars, codeVars, staffVars, orgVars>>
     /\ \/ part = "roles" /\ Catalogue!Next /\ UNCHANGED scopeVars
        \/ part = "scopes" /\ Sight!Next /\ UNCHANGED roleVars

PeopleSpec == PeopleInit /\ [][PeopleNext]_allVars

EveryPart == {"payroll", "leave", "codes", "amounts", "staff", "days", "founding", "firm", "roles", "scopes"}

ASSUME PartsOK == Parts \subseteq EveryPart /\ Short \in BOOLEAN

-----------------------------------------------------------------------------
(* Every variable of Payroll and Leave has the values it can hold.         *)
PeopleTypeOK == CASE part = "leave" -> Holidays!LeaveTypeOK
                  [] part \in {"staff", "days"} -> Crew!StaffTypeOK
                  [] part \in {"founding", "firm"} -> Firms!OrganisationsTypeOK
                  [] part = "roles" -> Catalogue!RolesTypeOK
                  [] part = "scopes" -> Sight!ScopesTypeOK
                  [] OTHER -> PayrollTypeOK

(* The ledger and the dashboard hold what the payslips of a run say, once; *)
(* nobody approves what he calculated; and an overtime slip is on the      *)
(* payslips of the one run that claimed it.                                *)
PaidByTheRules == /\ LedgerIsTheRegister /\ TwoPeople /\ OvertimePaidOnce
                  /\ part = "payroll" => ReportsAgree

(* A leave balance holds, takes and grants what the requests that name it  *)
(* and its months ask for, and is never promised twice, unless a client    *)
(* parted it from them; heads, days and hours are those of the rows, for   *)
(* payroll as for the dashboard, the hours from check_out on.              *)
TimeAddsUp ==
  /\ part = "leave" => Holidays!BalanceIsItsRequests /\ Holidays!HeldWithinAvailable
                         /\ Holidays!GrantedOnceAMonth /\ Holidays!StepsTellTheStatus
  /\ part = "staff" => Crew!HeadsAreMoves
  /\ part = "days" => Crew!SameDays /\ Crew!HoursAreTheTimes

(* An organisation is founded whole and alone, seeding leaves closed months*)
(* closed, and its books stay in its currency.  Shipped roles are those of *)
(* the release, custom ones those of their edits, nothing they bundle is   *)
(* gone, and what somebody sees through them is the branch he manages and  *)
(* never less for another role; the pay of others is shown to the owner,   *)
(* to personnel, and to who calculated it and is no employee any more.     *)
OrganisationsStand ==
  /\ part \in {"founding", "firm"} => Firms!OrganisationsStand
  /\ part = "roles" => Catalogue!RolesStand
  /\ part = "scopes" => Sight!ScopesHold

(* Leave that is approved is debited once, also when the approval is sent  *)
(* again (the docstring of approve_step, hr/services/leave.py:385).        *)
DebitedOnce == Holidays!DebitedOnce

(* Splits, rates, taxes, absences and payroll entries lose and invent      *)
(* nothing, and an account code belongs to one place in the chart.         *)
NumbersAddUp == /\ part = "amounts" => Calculations!AmountsAddUp
                /\ part = "codes" => Chart!CodeIsThePlace
=============================================================================
