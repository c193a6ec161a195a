------------------------------- MODULE Payslips -------------------------------
(***************************************************************************)
(* What one employee earns (the pure part of payroll/services/engine.py):  *)
(* attendance and leave prorate the base, components follow in sequence,   *)
(* insurance and marginal tax are taken off, and the payslips of a run     *)
(* make one ledger entry.                                                  *)
(*                                                                         *)
(* Amounts are integers of which a minor unit has `scale`; a division of   *)
(* decimals keeps whole ones.  Rates are per cent, days are counted in     *)
(* halves and known by their number.                                       *)
(***************************************************************************)
EXTENDS Integers, Sequences, SequencesExt

M == INSTANCE Money

AtLeastZero(n) == IF n < 0 THEN 0 ELSE n
Least(a, b) == IF a < b THEN a ELSE b
Most(a, b)  == IF a < b THEN b ELSE a

-----------------------------------------------------------------------------
(* Time.                                                                   *)

NoSalary == -1

(* effective_salary: the last revision on or before the day, or a refusal. *)
EffectiveSalary(revisions, day) ==
  LET past == {r \in revisions : r.on <= day} IN
  IF past = {} THEN NoSalary ELSE (CHOOSE r \in past : \A q \in past : q.on <= r.on).salary

(* AttendanceRecord.Status of a working day, and the halves it is paid.    *)
Present == [present |-> 2, late |-> 2, on_leave |-> 2, half_day |-> 1, absent |-> 0]

(* count_attendance: holidays and weekends do not count, and overtime only *)
(* once it is approved.                                                    *)
Attended(records) ==
  LET days == {r \in records : r.status \in DOMAIN Present} IN
  [working  |-> 2 * Cardinality(days),
   present  |-> SumFunctionOnSet([r \in days |-> Present[r.status]], days),
   overtime |-> MapThenSumSet(LAMBDA r : IF r.approved THEN r.overtime ELSE 0, days)]

\* Mutant: the half days are taken off in every period.
ClippedInAll(q, first, last) ==
  2 * (Least(q.end, last) - Most(q.start, first) + 1)
    - (IF q.halfStart THEN 1 ELSE 0) - (IF q.halfEnd THEN 1 ELSE 0)

(* The days of a request in a period, each in the period it is in.         *)
Clipped(q, first, last) ==
  2 * (Least(q.end, last) - Most(q.start, first) + 1)
    - (IF q.halfStart /\ first <= q.start THEN 1 ELSE 0)
    - (IF q.halfEnd /\ q.end <= last THEN 1 ELSE 0)

(* unpaid_leave_days of the approved requests of unpaid types.             *)
UnpaidHalves(requests, first, last) ==
  MapThenSumSet(LAMBDA q : AtLeastZero(Clipped(q, first, last)),
                {q \in requests : q.approved /\ q.start <= last /\ first <= q.end})

(* working_days_between: what a request takes from the balance, given the  *)
(* working days that are no holidays.  A request of one day has one half   *)
(* to give.                                                                *)
WorkingHalves(q, work) ==
  AtLeastZero(2 * Cardinality((q.start..q.end) \cap work)
                - (IF q.halfStart /\ q.start \in work THEN 1 ELSE 0)
                - (IF q.halfEnd /\ q.end # q.start /\ q.end \in work THEN 1 ELSE 0))

(* Who has no attendance on file is paid his schedule.                     *)
Days(records, requests, scheduled, first, last) ==
  LET a       == Attended({r \in records : r.day \in first..last})
      working == IF a.working = 0 THEN scheduled ELSE a.working
      present == IF a.working = 0 THEN scheduled ELSE a.present
  IN [working  |-> working, overtime |-> a.overtime,
      paid     |-> AtLeastZero(present - UnpaidHalves(requests, first, last))]

Prorated(base, days) ==
  IF days.working > 0 THEN (base * days.paid) \div days.working ELSE base

-----------------------------------------------------------------------------
(* Components.                                                             *)

(* A row of PayrollComponent with its defaults.                            *)
Component(type, calc, amount, rate) ==
  [type |-> type, calc |-> calc, amount |-> amount, rate |-> rate, taxable |-> TRUE,
   insurable |-> TRUE, affectsNet |-> TRUE]

(* _evaluate_component; a formula is a component whose amount is what the  *)
(* formula evaluates to.                                                   *)
Value(c, base, s) ==
  CASE c.calc = "of_base"  -> (base * c.rate) \div 100
    [] c.calc = "of_gross" -> (s.gross * c.rate) \div 100
    [] c.calc = "per_unit" -> s.overtime * c.amount
    [] OTHER               -> c.amount

(* Direction is the type's, never the sign's.                              *)
AddComponent(s, c, base) ==
  LET v == Value(c, base, s)
      onPay == c.affectsNet /\ c.type = "earning"
  IN [s EXCEPT !.refused   = @ \/ v < 0,
               !.gross     = @ + IF onPay THEN v ELSE 0,
               !.taxable   = @ + IF onPay /\ c.taxable THEN v ELSE 0,
               !.insurable = @ + IF onPay /\ c.insurable THEN v ELSE 0,
               !.other     = @ + IF c.affectsNet /\ c.type = "deduction" THEN v ELSE 0,
               !.employer  = @ + IF c.affectsNet /\ c.type = "employer_contribution"
                                 THEN v ELSE 0]

(* price_slip: the hours at a multiple, in tenths, of the hourly rate,     *)
(* rounded once.  month: the standard hours of a month.                    *)
HourlyRate(salary, month) == salary \div month
OvertimePay(salary, month, hours, times, scale) ==
  M!RoundHalfUp(HourlyRate(salary, month) * hours * times, 10 * scale)

AsEarning(slip) == [type |-> "earning", calc |-> "fixed", amount |-> slip.amount, rate |-> 0,
                    taxable |-> slip.taxable, insurable |-> slip.insurable, affectsNet |-> TRUE]

(* Base and priced overtime first, then the components by sequence.        *)
Earned(base, slips, days, components) ==
  LET start == [gross |-> base, taxable |-> base, insurable |-> base, other |-> 0,
                employer |-> 0, overtime |-> days.overtime, refused |-> FALSE]
      overtime == [i \in DOMAIN slips |-> AsEarning(slips[i])]
  IN FoldLeft(LAMBDA s, c : AddComponent(s, c, base), start, overtime \o components)

-----------------------------------------------------------------------------
(* Insurance and tax.                                                      *)

(* compute_social_insurance: on the insurable wage at most.                *)
Insured(amount, cap) == IF cap > 0 THEN Least(amount, cap) ELSE amount

(* What a slab takes, in hundredths.                                       *)
Slab(b, annual) == AtLeastZero((Least(annual, b.upper) - b.lower) * b.rate - b.fixed * 100)

(* compute_income_tax: the newest scale in force on the day.  In           *)
(* hundredths, for a year.                                                 *)
YearTax(brackets, annual, day) ==
  LET inForce == {b \in brackets : b.from <= day /\ day <= b.to}
      newest  == {b \in inForce : \A x \in inForce : x.from <= b.from}
  IN MapThenSumSet(LAMBDA b : Slab(b, annual), {b \in newest : b.lower < annual})

Tax(brackets, taxable, exemption, periods, day, scale) ==
  M!RoundHalfUp(YearTax(brackets, taxable * periods - exemption, day),
                100 * periods * scale)

NetOf(s, p, scale) == p.gross - p.tax - p.insurance - p.other

(* compute_payslip: everything is rounded once and the net is what is left *)
(* of the rounded parts.  law: the tax scale and the rates of a tenant.    *)
Payslip(s, profile, law, day, scale) ==
  LET insured == Insured(s.insurable, profile.cap)
      share(rate) == IF profile.uninsured THEN 0
                     ELSE M!RoundHalfUp(insured * rate, 100 * scale)
      own     == share(law.employee)
      taxable == AtLeastZero(s.taxable - own * scale)
      parts   == [gross     |-> M!RoundHalfUp(s.gross, scale),
                  insurance |-> own,
                  employer  |-> M!RoundHalfUp(s.employer + share(law.employer) * scale, scale),
                  tax       |-> IF profile.untaxed THEN 0
                                ELSE Tax(law.brackets, taxable, profile.exemption,
                                         law.periods, day, scale),
                  other     |-> M!RoundHalfUp(s.other, scale)]
  IN [parts |-> parts, net |-> NetOf(s, parts, scale)]

(* assert_net_identity, and the components that are refused: what is not   *)
(* stored.                                                                 *)
Issued(s, p) == ~s.refused /\ p.net >= 0

-----------------------------------------------------------------------------
(* build_journal_entry: what the payslips cost, by cost centre, against    *)
(* what is owed to the employees and the authorities.                      *)
Entry(slips, centre) ==
  LET N == DOMAIN slips
      total(f(_)) == MapThenSumSet(f, N)
      salary(c) == MapThenSumSet(LAMBDA i : slips[i].parts.gross,
                                 {i \in N : centre[i] = c})
      employer == total(LAMBDA i : slips[i].parts.employer)
      social   == employer + total(LAMBDA i : slips[i].parts.insurance)
      posted(amounts) == SelectSeq(amounts, LAMBDA n : n > 0)
      centres == SetToSeq({centre[i] : i \in N})
  IN [debits  |-> posted([k \in DOMAIN centres |-> salary(centres[k])]) \o posted(<<employer>>),
      credits |-> <<total(LAMBDA i : slips[i].net)>>
                    \o posted(<<total(LAMBDA i : slips[i].parts.tax), social,
                                total(LAMBDA i : slips[i].parts.other)>>)]
=============================================================================
