--------------------------- MODULE ChartOfAccounts ---------------------------
(***************************************************************************)
(* The default chart of accounts, one leaf of each kind, what each kind of *)
(* entry does to it, and which accounts each report takes up.              *)
(***************************************************************************)
EXTENDS Integers, Sequences, FiniteSets

Leaf(code, group, type, key, category) ==
  [code |-> code, group |-> group, type |-> type, key |-> key, category |-> category]

(* One leaf of each kind of the default chart, in the order of the codes.  *)
Chart == [
  bank         |-> Leaf(11, "current assets", "asset", "bank_main", "none"),
  receivable   |-> Leaf(12, "current assets", "asset", "ar_control", "none"),
  goods        |-> Leaf(13, "current assets", "asset", "inventory_asset", "none"),
  inputVat     |-> Leaf(14, "current assets", "asset", "input_vat", "none"),
  machine      |-> Leaf(15, "fixed assets", "asset", "", "none"),
  worn         |-> Leaf(16, "fixed assets", "asset", "", "none"),
  payable      |-> Leaf(21, "current liabilities", "liability", "ap_control", "none"),
  vat          |-> Leaf(22, "current liabilities", "liability", "output_vat", "none"),
  loan         |-> Leaf(23, "long-term liabilities", "liability", "", "none"),
  capital      |-> Leaf(31, "equity", "equity", "share_capital", "none"),
  sales        |-> Leaf(41, "revenue", "income", "sales_revenue", "revenue"),
  discount     |-> Leaf(42, "revenue", "income", "sales_discount", "discount"),
  cogs         |-> Leaf(51, "expenses", "expense", "cogs", "cogs"),
  rent         |-> Leaf(52, "expenses", "expense", "", "admin"),
  badDebt      |-> Leaf(53, "expenses", "expense", "bad_debt_expense", "admin"),
  depreciation |-> Leaf(54, "expenses", "expense", "", "depreciation_tax")]

Account       == DOMAIN Chart
OfType(t)     == {a \in Account : Chart[a].type = t}
Keyed(K)      == {a \in Account : Chart[a].key \in K}
InCategory(c) == {a \in Account : Chart[a].category = c}

Assets      == OfType("asset")
Liabilities == OfType("liability")
Equity      == OfType("equity")
Income      == OfType("income")
Expenses    == OfType("expense")
Cash        == {"bank"}   \* is_reconcilable

(* The summaries over the leaves.                                          *)
Summary == [assets |-> {"current assets", "fixed assets"},
            liabilities |-> {"current liabilities", "long-term liabilities"}]
Parent(n) == IF n \in Account THEN Chart[n].group
             ELSE IF \E s \in DOMAIN Summary : n \in Summary[s]
                  THEN CHOOSE s \in DOMAIN Summary : n \in Summary[s]
                  ELSE ""
Groups == {Chart[a].group : a \in Account} \cup DOMAIN Summary

(* _Chart.under walks up, _subtree_ids walks down.                         *)
Under(n, g) == g \in {n, Parent(n), Parent(Parent(n))}
Children(S) == {n \in Account \cup Groups : Parent(n) \in S}
Subtree(g)  == {g} \cup Children({g}) \cup Children(Children({g}))

(* What each kind of entry debits (+) and credits (-).                     *)
Kinds == [
  invoice    |-> [receivable |-> 5, discount |-> 1, sales |-> -4, vat |-> -2],
  receipt    |-> [bank |-> 4, receivable |-> -4],
  writeOff   |-> [badDebt |-> 2, receivable |-> -2],
  bill       |-> [goods |-> 7, inputVat |-> 2, payable |-> -9],
  payment    |-> [payable |-> 8, bank |-> -8],
  delivery   |-> [cogs |-> 3, goods |-> -3],
  rent       |-> [rent |-> 10, bank |-> -10],
  machine    |-> [machine |-> 20, bank |-> -20],
  wear       |-> [depreciation |-> 11, worn |-> -11],
  loan       |-> [bank |-> 30, loan |-> -30],
  share      |-> [bank |-> 40, capital |-> -40],
  opening    |-> [receivable |-> 50, capital |-> -50]]

DebitNormal == Assets \cup Expenses   \* NORMAL_BALANCE

CurrentAssets      == {a \in Account : Under(a, "current assets")}
CurrentLiabilities == {a \in Account : Under(a, "current liabilities")}

-----------------------------------------------------------------------------
(* A layout (AccountGrouping, ReportLineMapping): lines that select        *)
(* accounts by type, key or code, and subtotals, from the top or after the *)
(* line of a sequence.                                                     *)
Selects(type, key, from, to, sign, hide) ==
  [subtotal |-> FALSE, type |-> type, key |-> key, from |-> from, to |-> to,
   sign |-> sign, hide |-> hide, after |-> 0]
Subtotals(after) == [subtotal |-> TRUE, type |-> "", key |-> "", from |-> 0, to |-> 0,
                     sign |-> 1, hide |-> FALSE, after |-> after]

Layout == <<Selects("income", "", 0, 99, 1, FALSE),    \* revenue
            Selects("", "cogs", 0, 99, -1, FALSE),     \* cost of sales
            Subtotals(0),                              \* gross profit
            Selects("", "", 52, 53, -1, TRUE),         \* overheads
            Selects("expense", "", 54, 54, -1, TRUE),  \* depreciation
            Subtotals(3),                              \* what follows gross profit
            Subtotals(0)>>                             \* net profit

(* matches_account: the selectors are conjoined.                           *)
Matches(l, a) == /\ ~l.subtotal
                 /\ l.key = "" \/ Chart[a].key = l.key
                 /\ l.type = "" \/ Chart[a].type = l.type
                 /\ l.from <= Chart[a].code /\ Chart[a].code <= l.to

Selected == [i \in DOMAIN Layout |-> {a \in Income \cup Expenses : Matches(Layout[i], a)}]

-----------------------------------------------------------------------------
(* CashFlowGenerator: the accounts each section takes up.                  *)
NonCash   == Keyed({"depreciation_expense", "bad_debt_expense"})
Working   == Keyed({"ar_control", "inventory_asset", "ap_control"})
Investing == Assets \ (Cash \cup Working \cup NonCash)
Financing == (Keyed({"share_capital"}) \cup Equity) \ (Working \cup NonCash)
=============================================================================
