------------------------------- MODULE MCStock -------------------------------
(***************************************************************************)
(* A small warehouse, its price lists, its valuation and the reports for   *)
(* TLC.  A behaviour works in one part from its first state on: levels,    *)
(* prices and costs of an item are changed by different requests on        *)
(* different rows, and the reports read the journal alone.                 *)
(***************************************************************************)
EXTENDS Stock, ChartOfAccounts, TLC

CONSTANTS
  b1, b2, i1, i2, a1,
  Change, Days, Start, MaxPrice,                \* of Prices
  Method, Quantity, Cost, Standard, MaxMoves,   \* of Valuation
  Customer, NewYear, LastDay, MaxPosted, MaxEntries   \* of Statements

VARIABLES
  part,
  rows, asked, made,
  qty, average, value, batches, account, rounded, lost, moves,
  book, seen

priceVars == <<rows, asked, made>>
costVars  == <<qty, average, value, batches, account, rounded, lost, moves>>
bookVars  == <<book, seen>>
allVars   == <<part, vars, priceVars, costVars, bookVars>>

(* Two invoices that lock the same bins in opposite orders, and an         *)
(* adjustment that counted one of them as expected.                        *)
TwoOrders ==
  (i1 :> <<[bin |-> b1, delta |-> -1], [bin |-> b2, delta |-> -1]>>)
  @@ (i2 :> <<[bin |-> b2, delta |-> -2], [bin |-> b1, delta |-> -1]>>)
  @@ (a1 :> <<[bin |-> b1, delta |-> 0], [bin |-> b2, delta |-> -1]>>)
TwoEach == [b \in Bin |-> 2]

(* Two rises from the same day, one from a later day and one cut.          *)
FourChanges == {[from |-> 2, by |-> 1], [from |-> 2, by |-> 2],
                [from |-> 3, by |-> 1], [from |-> 1, by |-> -1]}

Lists   == INSTANCE Prices
Costs   == INSTANCE Valuation
Reports == INSTANCE Statements

ASSUME ListsConstants == Lists!PricesConstantsOK
ASSUME CostsConstants == Costs!ValuationConstantsOK
ASSUME ReportsConstants == Reports!StatementsConstantsOK

WarehouseInit == /\ part \in {"levels", "prices", "costs", "reports"}
                 /\ Init /\ Lists!Init /\ Costs!Init /\ Reports!Init

WarehouseNext == UNCHANGED part /\
  \/ part = "levels" /\ Next /\ UNCHANGED <<priceVars, costVars, bookVars>>
  \/ part = "prices" /\ Lists!Next /\ UNCHANGED <<vars, costVars, bookVars>>
  \/ part = "costs" /\ Costs!Next /\ UNCHANGED <<vars, priceVars, bookVars>>
  \/ part = "reports" /\ Reports!Next /\ UNCHANGED <<vars, priceVars, costVars>>

(* Outside the levels no worker has anything to do.                        *)
WarehouseSpec == WarehouseInit /\ [][WarehouseNext]_allVars /\ Fairness

-----------------------------------------------------------------------------
(* Locks, lines in progress and movements are hidden; a document is done   *)
(* when its row says so.                                                   *)
Promised == INSTANCE Shelf WITH
  onHand   <- [b \in Bin |-> level[b].on],
  reserved <- [b \in Bin |-> level[b].reserved],
  done     <- {d \in Doc : status[d] = "done"}

(* The stock service does what Shelf says: whatever documents run beside   *)
(* each other, are refused, deadlock or crash, each takes effect at once,  *)
(* once, with all its lines, and never eats what is promised to others.    *)
DocumentsAreAtomic == Promised!Spec

(* A bin at its reorder point is reported, a day has one price, and what a *)
(* bin is worth drifts from quantity times average by rounding only.       *)
KnownAndPriced == /\ LowIsKnown /\ Lists!PricesTypeOK /\ Lists!OnePriceADay
                  /\ Costs!ValuationTypeOK /\ Costs!DriftIsRounding
                  /\ Costs!DriftIsWrittenOff

(* Every figure of the reports ties to the others, with gaps only where    *)
(* the generators leave them.  In the other parts the journal stays empty, *)
(* as it is in the first state of this one.                                *)
StatementsTie == part = "reports" => Reports!StatementsTypeOK /\ Reports!StatementsTie

(* A document that is begun ends, however its bins are ordered, and a bulk *)
(* change of prices leaves the days before it alone.                       *)
EndsAndPastStands == DocumentsEnd /\ Lists!HistoryKept
=============================================================================
