------------------------------- MODULE MCAmounts -------------------------------
(***************************************************************************)
(* The pure functions of Money, Payslips and EntryForms against what they  *)
(* promise: TLC takes every input of the bounded sets below as an initial  *)
(* state.                                                                  *)
(***************************************************************************)
EXTENDS Integers, Sequences, FiniteSets, TLC

LOCAL INSTANCE FiniteSetsExt
LOCAL INSTANCE SequencesExt
LOCAL INSTANCE Functions

VARIABLE input

M == INSTANCE Money
P == INSTANCE Payslips

(* Rates to three decimals, of which the form shows two.                   *)
E == INSTANCE EntryForms WITH RateUnits <- 1000, ShownUnits <- 1, Scale <- 1
AmountsConstantsOK == E!EntryFormsConstantsOK

(* Two units in a minor unit: a half is the smallest fraction.             *)
Scale == 2

Splits == [kind : {"split"}, total : 1..15,
           weights : {w \in UNION {[1..n -> 0..3] : n \in 1..3} : SumFunction(w) > 0}]

Quote(from, to, on, rate) == [from |-> from, to |-> to, on |-> on, rate |-> rate]
Quotes == {Quote("usd", "egp", 1, <<3, 1>>), Quote("usd", "egp", 3, <<4, 1>>),
           Quote("egp", "usd", 2, <<1, 5>>), Quote("egp", "usd", 4, <<1, 2>>)}
Raises == {[on |-> 1, salary |-> 10], [on |-> 3, salary |-> 12]}
Lookups == [kind : {"lookup"}, quotes : SUBSET Quotes, raises : SUBSET Raises, day : 1..4]

(* The scale of day one, replaced on day three; income up to 30.           *)
Band(from, lower, upper, rate) ==
  [from |-> from, to |-> 9, lower |-> lower, upper |-> upper, rate |-> rate, fixed |-> 0]
Bands == {Band(1, 0, 10, 0), Band(1, 10, 20, 10), Band(1, 20, 99, 25),
          Band(3, 0, 15, 5), Band(3, 15, 99, 30)}
Incomes == [kind : {"income"}, annual : 0..30, day : 1..4]

Absences == {q \in [kind : {"absence"}, start : 1..4, end : 1..4, halfStart : BOOLEAN,
                    halfEnd : BOOLEAN, approved : {TRUE}, cut : 1..3, work : SUBSET (1..4)] :
                  q.start <= q.end}

(* An evening's overtime at one and a half or twice the hourly rate, on    *)
(* one slip or on two.                                                     *)
Evenings == [kind : {"evening"}, salary : {0, 7, 40, 99}, month : {1, 3, 4}, hours : {1, 3},
             more : {1, 2}, times : {10, 15, 20}]

(* Two employees: base pay, an allowance in per cent of the gross, a       *)
(* deduction and one overtime slip.                                        *)
Registers == [kind : {"register"}, base : {7, 20, 33}, rate : {0, 15}, other : {0, 3},
              slip : {0, 5}, paid : {9, 20}, cap : {0, 11}, apart : BOOLEAN]

(* A line of an invoice form, and the rows of a journal form.              *)
FormLines == [kind : {"line"}, gross : 0..60 \cup {999, 1003}, mode : {"pct", "amt"}, typed : 0..50, tax : {0, 14}]
Row == [debit : 0..2, credit : 0..2, account : {"none", "known", "unknown"}]
Grids == [kind : {"grid"}, rows : [1..2 -> Row], last : [debit : {0}, credit : {0}, account : {"none", "known"}]]

(* One to three lines of a payload, in halves of a minor unit.             *)
Payloads == [kind : {"payload"}, rows : UNION {[1..n -> [debit : 0..3, credit : 0..2]] : n \in 1..3}]

Inputs == UNION {FormLines, Grids, Payloads, Splits, Lookups, Incomes, Absences, Evenings, Registers}

(* A foreign entry: one debit against two credits, at a rate.              *)
Conversions == [kind : {"conversion"}, credits : [1..2 -> 1..9], rate : {<<1, 3>>, <<7, 2>>}]

AmountsInit == input \in Inputs \cup Conversions

(* A calculation has no steps.                                             *)
AmountsSpec == AmountsInit /\ [][FALSE]_input

-----------------------------------------------------------------------------
(* A split loses and invents nothing, and no share is a whole minor unit   *)
(* off its proportion.                                                     *)
SplitsAddUp == input.kind = "split" =>
  LET shares == M!Allocate(input.total, input.weights, Scale)
      W      == SumFunction(input.weights)
  IN /\ SumFunction(shares) = M!RoundHalfUp(input.total, Scale)
     /\ \A i \in DOMAIN shares :
          M!Magnitude(shares[i] * W * Scale - input.total * input.weights[i]) <= W * Scale

(* What is looked up for a day does not depend on what is entered for a    *)
(* later one: a posting or payslip of the past comes out the same again.   *)
PastStands == input.kind = "lookup" =>
  LET known(S) == {x \in S : x.on <= input.day} IN
  /\ M!LookupRate(input.quotes, "usd", "egp", input.day)
       = M!LookupRate(known(input.quotes), "usd", "egp", input.day)
  /\ P!EffectiveSalary(input.raises, input.day)
       = P!EffectiveSalary(known(input.raises), input.day)

(* Every unit of income is taxed at the rate of the slab it is in, on the  *)
(* scale in force: a raise never costs more tax than it brings.            *)
RateOf(unit, day) ==
  LET newest == IF day < 3 THEN 1 ELSE 3 IN
  (CHOOSE b \in Bands : b.from = newest /\ b.lower <= unit /\ unit < b.upper).rate

TaxIsMarginal == input.kind = "income" =>
  P!YearTax(Bands, input.annual, input.day)
    = MapThenSumSet(LAMBDA u : RateOf(u, input.day), 0..(input.annual - 1))

(* A leave over a period's end is deducted in each period for its own      *)
(* days: together once; and one that is asked for in two parts takes from  *)
(* the balance what it takes in one, unless the last part is a day of its  *)
(* own, whose half counts from its start.                                  *)
LeaveIsSplit == input.kind = "absence" =>
  /\ P!UnpaidHalves({input}, 1, input.cut) + P!UnpaidHalves({input}, input.cut + 1, 9)
       = P!UnpaidHalves({input}, 1, 9)
  /\ input.start <= input.cut /\ input.cut + 1 < input.end =>
       P!WorkingHalves([input EXCEPT !.end = input.cut, !.halfEnd = FALSE], input.work)
         + P!WorkingHalves([input EXCEPT !.start = input.cut + 1, !.halfStart = FALSE], input.work)
       = P!WorkingHalves(input, input.work)

(* Payroll never deducts less for a leave of several days than the balance *)
(* gives up for it, and the same when no weekend is in it.                 *)
LeaveIsDeducted == input.kind = "absence" /\ input.start < input.end =>
  LET deducted == P!UnpaidHalves({input}, 1, 9)  taken == P!WorkingHalves(input, input.work) IN
  deducted >= taken /\ (input.start..input.end \subseteq input.work => deducted = taken)

(* Overtime is paid at least at the hourly rate, and hours on two slips    *)
(* bring what they bring on one, to a minor unit.                          *)
HoursArePaid == input.kind = "evening" =>
  LET pay(hours, times) == P!OvertimePay(input.salary, input.month, hours, times, Scale)
      hours == input.hours + input.more
  IN /\ pay(hours, input.times) >= pay(hours, 10)
     /\ M!Magnitude(pay(input.hours, input.times) + pay(input.more, input.times)
                      - pay(hours, input.times)) <= 1

(* The payslips of a run make an entry that the ledger accepts: rounding   *)
(* and the split over cost centres lose nothing.                           *)
Law == [brackets |-> Bands, employee |-> 11, employer |-> 19, periods |-> 1]
Profile(cap) == [cap |-> cap, uninsured |-> FALSE, untaxed |-> FALSE, exemption |-> 2]
SlipOf(base, r) ==
  LET days   == [working |-> 20, paid |-> r.paid, overtime |-> 0]
      earned == P!Earned(P!Prorated(base, days),
                         <<[amount |-> r.slip, taxable |-> TRUE, insurable |-> FALSE]>>, days,
                         <<P!Component("earning", "of_gross", 0, r.rate),
                           P!Component("deduction", "fixed", r.other, 0),
                           P!Component("employer_contribution", "of_base", 0, r.rate)>>)
      slip   == P!Payslip(earned, Profile(r.cap), Law, 4, Scale)
  IN [issued |-> P!Issued(earned, slip), slip |-> slip]

RegisterBalances == input.kind = "register" =>
  LET both  == <<SlipOf(input.base, input), SlipOf(input.base + 5, input)>>
      entry == P!Entry(<<both[1].slip, both[2].slip>>, <<1, IF input.apart THEN 2 ELSE 1>>)
  IN both[1].issued /\ both[2].issued => M!Balanced(entry.debits, entry.credits, 1)

(* A discount typed into a line is the discount the server grants, to the  *)
(* minor unit, on lines that are smaller than the decimals of a rate; one  *)
(* in per cent is still the same when the draft is opened and saved again; *)
(* and the estimate is off by less than two minor units.                   *)
DiscountsAreGranted == input.kind = "line" =>
  /\ input.mode = "amt" /\ input.gross < 1000 =>
       E!Subtotal(input.gross, E!SentRate(input)) = input.gross - E!Least(input.typed, input.gross)
  /\ input.mode = "pct" => E!LineTotal(E!Reopened(input)) = E!LineTotal(input)
  /\ input.gross < 1000 => M!Magnitude(E!Estimate(input) - E!Fine * E!LineTotal(input)) < 2 * E!Fine

(* Balancing into a row of its own leaves nothing open, and what the form  *)
(* lets through with its button is what the save sends and the ledger      *)
(* takes.                                                                  *)
FormsBalance == input.kind = "grid" =>
  LET rows == Append(input.rows, input.last)
      even == E!AutoBalanced(rows, 3)
  IN /\ E!Debits(even) = E!Credits(even)
     /\ E!Postable(even) /\ E!Accepted(even) =>
          M!Balanced([n \in DOMAIN E!Sent(even) |-> E!Sent(even)[n].debit],
                     [n \in DOMAIN E!Sent(even) |-> E!Sent(even)[n].credit], 1)

(* accounting/serializers.py:833: a payload is compared "exactly as        *)
(* validate_draft does": what it lets through is what the posting service  *)
(* accepts, of payloads with a side to every line.                         *)
PayloadsAreDrafts == input.kind = "payload" =>
  LET draft == E!Drafted(input.rows) IN
  E!ValidPayload(input.rows, Scale)
    <=> /\ \A n \in DOMAIN input.rows : E!OneSided(input.rows[n])
        /\ M!Balanced(draft.debits, draft.credits, Scale)

(* Not so, app.js:1621: "The money is identical; only the phrasing         *)
(* changes" of a draft that is opened and saved again.                     *)
ReopenedIsTheSame == input.kind = "line" =>
  E!LineTotal(E!Reopened(input)) = E!LineTotal(input)

(* Not so, engine.py:285: approved leave days are deducted, of which the   *)
(* balance (leave.py:87) leaves out weekends and a second half of a day.   *)
PayrollDeductsTheLeave == input.kind = "absence" =>
  P!UnpaidHalves({input}, 1, 9) = P!WorkingHalves(input, input.work)

AmountsAddUp == /\ SplitsAddUp /\ PastStands /\ TaxIsMarginal
                /\ LeaveIsSplit /\ LeaveIsDeducted /\ HoursArePaid /\ RegisterBalances
                /\ DiscountsAreGranted /\ FormsBalance /\ PayloadsAreDrafts

(* The docstring of TrialBalanceGenerator, reporting/generators/           *)
(* financial.py:238: an imbalance of the base amounts cannot be produced   *)
(* by this application.                                                    *)
TrialBalanceFoots == input.kind = "conversion" =>
  LET debits == <<SumFunction(input.credits)>> IN
  M!Balanced(debits, input.credits, 1) /\ M!Kept(debits, input.credits, 1) =>
    M!Total(M!InBase(debits, input.rate, 1)) = M!Total(M!InBase(input.credits, input.rate, 1))
=============================================================================
