------------------------------ MODULE Statements ------------------------------
(***************************************************************************)
(* The reports (apps.reporting, and the ledger views they repeat) drawn    *)
(* from one journal.  Amounts are in the base currency; an entry is of one *)
(* of the kinds the documents post, and a reversed entry is one of two:    *)
(* itself, no longer counted, and its posted mirror.                       *)
(*                                                                         *)
(* A report is several SELECTs, each of which sees what was committed when *)
(* it began: seen is the journal as an earlier query of a report, or an    *)
(* earlier snapshot, read it, book what a query reads now.                 *)
(***************************************************************************)
EXTENDS ChartOfAccounts

LOCAL INSTANCE FiniteSetsExt
LOCAL Seqs == INSTANCE SequencesExt

CONSTANTS
  Customer,    \* customers
  Nobody,      \* the partner of an entry that has none
  NewYear,     \* the first day of the second fiscal year; the first begins on day 0
  LastDay,     \* bound: the last accounting date
  MaxPosted,   \* bound: entries that are not corrections
  MaxEntries   \* bound: entries

StatementsConstantsOK ==
  /\ IsFiniteSet(Customer) /\ Nobody \notin Customer
  /\ NewYear \in Nat /\ LastDay \in Nat /\ MaxPosted \in Nat /\ MaxEntries \in Nat

VARIABLES
  book,   \* the journal: a set of entries
  seen    \* the journal when an earlier query read it

vars == <<book, seen>>

Total(f(_), S) == MapThenSumSet(f, S)
Day == 0..LastDay

-----------------------------------------------------------------------------
(* Documents name their customer on every line; a journal entered by hand  *)
(* need not, on a control account either.                                  *)
PartnersOf(k) == IF k \in {"invoice", "receipt", "writeOff"}
                 THEN Customer ELSE {Nobody}

(* Lines that carry a project: the revenue lines of an invoice, and an     *)
(* expense.                                                                *)
OnProject == {<<"invoice", "sales">>, <<"rent", "rent">>}

Entry == [kind : DOMAIN Kinds, partner : Customer \cup {Nobody}, day : Day,
          mirror : BOOLEAN, status : {"posted", "reversed"}]

StatementsTypeOK == book \subseteq Entry /\ seen \subseteq Entry

-----------------------------------------------------------------------------
(* ledger_query: posted entries by accounting date.                        *)
Query(b, from, to) == {e \in b : e.status = "posted" /\ from <= e.day /\ e.day <= to}

(* ReportContext: a period, or everything up to a day.                     *)
Periods == {p \in Day \X Day : p[1] <= p[2]}
During(b, p) == Query(b, p[1], p[2])
UpTo(b, d)   == Query(b, 0, d)

(* Debit minus credit of an entry on an account, and of entries on all.    *)
Side(e) == IF e.mirror THEN -1 ELSE 1
Line(e, a) == IF a \in DOMAIN Kinds[e.kind] THEN Side(e) * Kinds[e.kind][a] ELSE 0

(* _aggregate_by_account and net_balance: positive on the normal side of   *)
(* the account's type.                                                     *)
Raw(E) == [a \in Account |-> Total(LAMBDA e : Line(e, a), E)]
Signed(raw) == [a \in Account |-> IF a \in DebitNormal THEN raw[a] ELSE -raw[a]]
Balances(E) == Signed(Raw(E))
SumOf(bal, S) == Total(LAMBDA a : bal[a], S)

-----------------------------------------------------------------------------
(* TrialBalanceGenerator, JournalRegisterGenerator: both columns.          *)
Debits(E)  == Total(LAMBDA a : Total(LAMBDA e : IF Line(e, a) > 0 THEN Line(e, a) ELSE 0, E),
                    Account)
Credits(E) == Total(LAMBDA e : Total(LAMBDA a : IF Line(e, a) < 0 THEN -Line(e, a) ELSE 0,
                                     Account), E)

\* Mutant: the brought-forward balance takes in the first day of the period.
BroughtOnTheDay(b, from) == Balances(Query(b, 0, from))

(* GeneralLedgerGenerator: brought forward, the movements, carried forward. *)
Brought(b, from) == Balances(Query(b, 0, from - 1))
Carried(b, p) == LET before == Brought(b, p[1])  moved == Balances(During(b, p))
                 IN [a \in Account |-> before[a] + moved[a]]

(* AccountViewSet.ledger: the lines of an account in a window, by date and *)
(* on one day as they were made.  A page of them opens with whatever is    *)
(* older than its first line, and closes with what its lines add.          *)
Ordered(E, a) == {s \in Seqs!SetToSeqs({e \in E : Line(e, a) # 0}) :
                    \A i, j \in DOMAIN s : i < j => s[i].day <= s[j].day}
Movement(e, a) == IF a \in DebitNormal THEN Line(e, a) ELSE -Line(e, a)
Moved(s, N, a) == Total(LAMBDA n : Movement(s[n], a), N)
Older(s, first) == {n \in DOMAIN s : \/ s[n].day < s[first].day
                                     \/ s[n].day = s[first].day /\ n < first}
OpeningBalance(s, first, a) == Moved(s, Older(s, first), a)
ClosingBalance(s, first, last, a) == OpeningBalance(s, first, a) + Moved(s, first..last, a)

(* assert_ledger_balanced, every night: all posted lines.                  *)
LedgerBalanced(b) == Debits(UpTo(b, LastDay)) = Credits(UpTo(b, LastDay))

-----------------------------------------------------------------------------
(* ProfitLossGenerator: income less expense of a period.                   *)
Profit(bal) == SumOf(bal, Income) - SumOf(bal, Expenses)
Result(b, from, to) == Profit(Balances(Query(b, from, to)))

LineAmount(i, bal) == Layout[i].sign * SumOf(bal, Selected[i])

(* _mapped_sections: the sum of the lines down to i.  A line that is left  *)
(* out because it is zero starts no subtotal.                              *)
Running(i, bal) == Total(LAMBDA j : LineAmount(j, bal), 1..i)
Printed(i, bal) == i > 0 /\ ~(Layout[i].hide /\ LineAmount(i, bal) = 0)
Subtotal(i, bal) == LET after == Layout[i].after IN
  Running(i, bal) - (IF Printed(after, bal) THEN Running(after, bal) ELSE 0)

-----------------------------------------------------------------------------
(* BalanceSheetGenerator: balances as read first, and the earnings of the  *)
(* fiscal year as a later query reads them.  Nothing closes a year.        *)
YearStart(d) == IF d < NewYear THEN 0 ELSE NewYear

Earnings(b, d) == Result(b, YearStart(d), d)

Sheet(first, later, d) ==
  LET bal == Balances(UpTo(first, d)) IN
  [assets      |-> SumOf(bal, Assets),
   liabilities |-> SumOf(bal, Liabilities),
   equity      |-> SumOf(bal, Equity) + Earnings(later, d)]

Difference(sheet) == sheet.assets - (sheet.liabilities + sheet.equity)

-----------------------------------------------------------------------------
(* Expenses that took no money are added back; assets consume cash, what   *)
(* is owed provides it.                                                    *)
OperatingCash(bal) ==
  Profit(bal) + SumOf(bal, NonCash) + SumOf(bal, Working \ Assets)
    - SumOf(bal, Working \cap Assets)
InvestingCash(bal) == -SumOf(bal, Investing)
FinancingCash(bal) == SumOf(bal, Financing)

(* The movement the statement explains less the one of the cash accounts.  *)
Unexplained(bal) ==
  OperatingCash(bal) + InvestingCash(bal) + FinancingCash(bal) - SumOf(bal, Cash)

-----------------------------------------------------------------------------
(* TaxSummaryGenerator: the lines that carry a tax rate are on the accounts *)
(* of the rate.                                                            *)
OutputTax(bal)  == bal["vat"]
InputTax(bal)   == bal["inputVat"]
NetPayable(bal) == OutputTax(bal) - InputTax(bal)

(* _AgingGenerator: control lines of a partner by age, of whoever has one. *)
Buckets == [current |-> <<-1, 0>>, young |-> <<1, 1>>, old |-> <<2, LastDay + 2>>]
InBucket(e, d, k) == e.day <= d - Buckets[k][1] /\ e.day >= d - Buckets[k][2]

Receivables(E) == Total(LAMBDA e : Line(e, "receivable"), E)
OfPartner(b, c) == {e \in b : e.partner = c}
Aged(b, c, d, k) == Receivables({e \in OfPartner(UpTo(b, d), c) : InBucket(e, d, k)})
Outstanding(b, d) ==
  Total(LAMBDA c : Total(LAMBDA k : Aged(b, c, d, k), DOMAIN Buckets), Customer)

(* PartyStatementGenerator: the control lines of one partner.              *)
Statement(b, c, p) == Receivables(OfPartner(Query(b, 0, p[1] - 1), c))
                      + Receivables(OfPartner(During(b, p), c))

(* _pl_buckets and FinancialRatiosGenerator: discounts are an income       *)
(* account, with a debit balance.                                          *)
Bucket(bal, c) == SumOf(bal, InCategory(c))
NetSales(bal) == Bucket(bal, "revenue") - Bucket(bal, "discount")
RatioProfit(bal) ==
  NetSales(bal) - Bucket(bal, "cogs") - Bucket(bal, "admin") - Bucket(bal, "depreciation_tax")

(* compute_kpis: a position at the end of the period, a rate over it.      *)
Kpis(b, p) ==
  LET position == Balances(UpTo(b, p[2]))
      profit   == Profit(Balances(During(b, p)))
  IN [assets      |-> SumOf(position, Assets),
      liabilities |-> SumOf(position, Liabilities),
      equity      |-> SumOf(position, Equity) + profit,
      working     |-> SumOf(position, CurrentAssets)
                        - SumOf(position, CurrentLiabilities),
      cashChange  |-> SumOf(position, Cash) - SumOf(Balances(UpTo(b, p[1])), Cash)]

(* ProjectProfitabilityGenerator, and the profit and loss of a project:    *)
(* the lines that carry it.                                                *)
Tagged(E) == [a \in Account |-> Total(LAMBDA e : IF <<e.kind, a>> \in OnProject
                                                 THEN Line(e, a) ELSE 0, E)]
Margin(E) == -Tagged(E)["sales"] - Tagged(E)["rent"]

-----------------------------------------------------------------------------
(* What a snapshot freezes: a line for each account that moved, and the    *)
(* totals.                                                                 *)
Payload(b, p) ==
  LET bal == Balances(During(b, p)) IN
  [lines |-> [a \in {x \in (Income \cup Expenses) : bal[x] # 0} |-> bal[a]],
   profit |-> Profit(bal)]

Figure(lines, a) == IF a \in DOMAIN lines THEN lines[a] ELSE 0

(* compare_snapshots: the lines changed, added and removed.                *)
Changes(old, new) ==
  [changed |-> [a \in DOMAIN old.lines \cup DOMAIN new.lines
                  |-> Figure(new.lines, a) - Figure(old.lines, a)],
   profit  |-> new.profit - old.profit]

(* A snapshot is filed with the period it is of; the one given first is    *)
(* the baseline, and two of different periods are not compared.            *)
Snapshot(b, p) == [period |-> p, payload |-> Payload(b, p)]
Snapshots(b) == {Snapshot(b, p) : p \in Periods}
Comparable(old, new) == old.period = new.period
Compare(old, new) == Changes(old.payload, new.payload)

-----------------------------------------------------------------------------
Originals == {e \in book : ~e.mirror}

Init == book = {} /\ seen = {}

(* A document or a journal entry is posted, today or late.                 *)
Post(k, c, d) ==
  LET e == [kind |-> k, partner |-> c, day |-> d, mirror |-> FALSE, status |-> "posted"] IN
  /\ Cardinality(Originals) < MaxPosted /\ Cardinality(book) < MaxEntries
  /\ c \in PartnersOf(k)
  /\ ~\E x \in Originals : x.kind = k /\ x.partner = c /\ x.day = d
  /\ book' = book \cup {e}
  /\ UNCHANGED seen

(* reverse_entry: a posted mirror, dated as the request says, and the      *)
(* original leaves the reports.  Bound: a mirror is not reversed again.    *)
Reverse(e, d) ==
  LET mirror == [e EXCEPT !.mirror = TRUE, !.day = d] IN
  /\ e \in book /\ e.status = "posted" /\ ~e.mirror
  /\ Cardinality(book) < MaxEntries /\ mirror \notin book
  /\ book' = (book \ {e}) \cup {[e EXCEPT !.status = "reversed"], mirror}
  /\ UNCHANGED seen

(* The first query of a report, or generate_and_snapshot.                  *)
Read == book # seen /\ seen' = book /\ UNCHANGED book

Next == \/ \E k \in DOMAIN Kinds, c \in Customer \cup {Nobody}, d \in Day : Post(k, c, d)
        \/ \E e \in book, d \in Day : Reverse(e, d)
        \/ Read

Spec == Init /\ [][Next]_vars

-----------------------------------------------------------------------------
(* Trial balance, register and general ledger agree: both columns foot,    *)
(* and what is brought forward and moved is the balance at the end.        *)
LedgersAgree == \A p \in Periods :
  /\ Debits(During(book, p)) = Credits(During(book, p))
  /\ Carried(book, p) = Balances(UpTo(book, p[2]))

(* The pages of an account's ledger chain, wherever they are cut and       *)
(* however the lines of one day are ordered, and the newest closes with    *)
(* what the account moved in the window.                                   *)
PagesChain == \A p \in Periods, a \in {"bank", "receivable", "vat"} :
  \A s \in Ordered(During(book, p), a) : s # <<>> =>
    /\ OpeningBalance(s, 1, a) = 0
    /\ \A n \in 2..Len(s) : \A first \in 1..(n - 1) :
         ClosingBalance(s, first, n - 1, a) = OpeningBalance(s, n, a)
    /\ ClosingBalance(s, Len(s), Len(s), a) = Balances(During(book, p))[a]

(* A layout loses no account and counts none twice: its last line is the   *)
(* net profit, of all accounts and of those of a project.                  *)
LayoutIsComplete == \A p \in Periods :
  LET bal == Balances(During(book, p)) IN
  /\ Subtotal(7, bal) = Profit(bal)
  /\ Subtotal(3, bal) + Subtotal(6, bal) = Subtotal(7, bal)
  /\ Profit(Signed(Tagged(During(book, p)))) = Margin(During(book, p))

(* A balance sheet is out by the results of the years before, which        *)
(* nothing closes, and by what was committed between its queries: in the   *)
(* first year and read at once it balances.                                *)
SheetIsShortOfOldYears == \A d \in Day :
  Difference(Sheet(seen, book, d))
    = Result(seen, 0, YearStart(d) - 1) + (Earnings(seen, d) - Earnings(book, d))

(* A cash flow statement fails to explain the accounts that no section     *)
(* takes up, and explains a bad debt twice; nothing else.                  *)
CashGapIsKnown == \A p \in Periods :
  LET bal == Balances(During(book, p)) IN
  Unexplained(bal) = SumOf(bal, NonCash) - SumOf(bal, Liabilities \ Working)

(* The ages of what a customer owes add up to the closing balance of the   *)
(* statement, and with the lines of no customer to the control account.    *)
AgesAddUp ==
  /\ \A d \in Day : Outstanding(book, d) + Receivables(OfPartner(UpTo(book, d), Nobody))
                      = Balances(UpTo(book, d))["receivable"]
  /\ \A p \in Periods, c \in Customer :
       Statement(book, c, p) = Total(LAMBDA k : Aged(book, c, p[2], k), DOMAIN Buckets)

(* The dashboard's assets and liabilities differ by its equity and what    *)
(* was earned before the period; its change of cash misses the first day;  *)
(* the ratios count a discount as a sale instead of off one; VAT returns   *)
(* of two periods add up to the one of both.                               *)
FiguresAgree == \A p \in Periods :
  LET bal == Balances(During(book, p))  kpis == Kpis(book, p) IN
  /\ kpis.assets - kpis.liabilities - kpis.equity = Result(book, 0, p[1] - 1)
  /\ kpis.cashChange = SumOf(Balances(Query(book, p[1] + 1, p[2])), Cash)
  /\ kpis.working = kpis.assets - kpis.liabilities
       - SumOf(Balances(UpTo(book, p[2])), Subtree("fixed assets") \cap Account)
       + SumOf(Balances(UpTo(book, p[2])), Subtree("long-term liabilities") \cap Account)
  /\ RatioProfit(bal) = Profit(bal) - 2 * bal["discount"]
  /\ NetPayable(bal) = NetPayable(Balances(Query(book, p[1], p[1])))
                         + NetPayable(Balances(Query(book, p[1] + 1, p[2])))

(* What a comparison with a filed snapshot lists adds up to the change of  *)
(* the profit, whatever was posted late or reversed since.                 *)
ChangesExplainProfit ==
  \A old \in Snapshots(seen), new \in Snapshots(book) : Comparable(old, new) =>
    LET changes == Compare(old, new)
        of(S) == SumOf(changes.changed, DOMAIN changes.changed \cap S)
    IN changes.profit = of(Income) - of(Expenses)

(* Every figure of the reports ties to the others, with gaps only where    *)
(* the generators leave them.                                              *)
StatementsTie ==
  /\ SheetIsShortOfOldYears /\ ChangesExplainProfit
  /\ seen = book => LedgersAgree /\ LedgerBalanced(book) /\ PagesChain /\ LayoutIsComplete /\ CashGapIsKnown /\ AgesAddUp
                    /\ FiguresAgree

-----------------------------------------------------------------------------
(* The note of the line in CashFlowGenerator, reporting/generators/        *)
(* financial.py:1061: the unexplained difference "must be zero".           *)
CashIsExplained == \A p \in Periods : Unexplained(Balances(During(book, p))) = 0

(* The docstring of generate_and_snapshot, reporting/services/snapshot.py: *)
(* one atomic block gives every query the same snapshot.                   *)
SheetBalances == \A d \in 0..(NewYear - 1) : Difference(Sheet(seen, book, d)) = 0

(* The docstring of _AgingGenerator, reporting/generators/operational.py:  *)
(* the total of the aging report is the control account balance.           *)
AgingIsTheControl == \A d \in Day :
  Outstanding(book, d) = Balances(UpTo(book, d))["receivable"]
=============================================================================
