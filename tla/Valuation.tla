------------------------------- MODULE Valuation -------------------------------
(***************************************************************************)
(* What stock is worth (_compute_costs, _fifo_unit_cost and                *)
(* build_journal_entry in inventory/services/stock.py): receipts and       *)
(* issues of one item in one warehouse change the quantity, the average    *)
(* cost and the value of the level and post the cost of the goods to the   *)
(* inventory account of the ledger.                                        *)
(*                                                                         *)
(* Movements of a bin are serialised by the lock on its level (module      *)
(* Stock), so one movement is one action.  Costs are whole units of the    *)
(* last decimal place that the columns hold.                               *)
(***************************************************************************)
EXTENDS Integers

LOCAL INSTANCE Sequences
LOCAL INSTANCE SequencesExt
LOCAL INSTANCE Functions
M == INSTANCE Money

CONSTANTS
  Method,    \* the valuation method of the item
  Quantity,  \* quantities of a movement
  Cost,      \* unit costs of receipts
  Standard,  \* the purchase price of the item
  MaxMoves   \* bound: the movements looked at

ValuationConstantsOK ==
  /\ Method \in {"average", "fifo", "standard"}
  /\ Quantity \subseteq Nat \ {0} /\ Cost \subseteq Nat /\ Standard \in Nat /\ MaxMoves \in Nat

VARIABLES
  qty,      \* quantity_on_hand
  average,  \* average_cost
  value,    \* total_value
  batches,  \* the batches of the bin, first to expire first: [left, cost]
  account,  \* the balance of the inventory account
  rounded,  \* twice what rounding the average cost may have moved so far
  lost,     \* the same of every time the bin was emptied, added up
  moves

vars == <<qty, average, value, batches, account, rounded, lost, moves>>

-----------------------------------------------------------------------------
\* Mutant: the average forgets what was in the bin.
ReceiptAverage(q, cost) ==
  IF Method = "standard" THEN Standard
  ELSE IF qty + q <= 0 THEN cost ELSE (average + cost) \div 2

(* _compute_costs: the average after a receipt, of the balance before it.  *)
NewAverage(q, cost) ==
  IF Method = "standard" THEN Standard
  ELSE IF qty + q <= 0 THEN cost
  ELSE M!RoundHalfEven(qty * average + q * cost, qty + q)

(* _fifo_unit_cost: what the open batches would supply, in order, and the  *)
(* average for what they do not cover.                                     *)
Taken(q) ==
  LET before(i) == SumFunction([j \in 1..(i - 1) |-> batches[j].left])
      rest(i)   == IF q > before(i) THEN q - before(i) ELSE 0
  IN [i \in DOMAIN batches |-> IF batches[i].left < rest(i) THEN batches[i].left ELSE rest(i)]

OutCost(q) ==
  LET taken == Taken(q)
      from  == SumFunction([i \in DOMAIN batches |-> taken[i] * batches[i].cost])
      short == q - SumFunction(taken)
  IN CASE Method = "standard" -> q * Standard
       [] Method = "fifo" /\ SumFunction(taken) > 0 -> from + short * average
       [] OTHER -> q * average

(* build_journal_entry: goods in debit inventory, goods out credit it.     *)
Posted(cost, in) == IF in THEN account + cost ELSE account - cost

(* The value of an empty bin is written off the level.                     *)
ValueAfter(q, cost) == IF q = 0 THEN 0 ELSE value + cost

Receive(q, cost) ==
  /\ moves < MaxMoves
  /\ qty' = qty + q /\ average' = NewAverage(q, cost)
  /\ value' = ValueAfter(qty + q, q * cost)
  /\ batches' = IF Method = "fifo" THEN Append(batches, [left |-> q, cost |-> cost]) ELSE batches
  /\ account' = Posted(q * cost, TRUE)
  /\ rounded' = rounded + qty + q
  /\ moves' = moves + 1
  /\ UNCHANGED lost

(* The batches an issue is costed from are left as they are unless the     *)
(* caller names one; no caller in the repository does.                     *)
Issue(q) ==
  /\ moves < MaxMoves /\ q <= qty
  /\ qty' = qty - q
  /\ value' = ValueAfter(qty - q, -OutCost(q))
  /\ account' = Posted(OutCost(q), FALSE)
  /\ IF qty = q THEN rounded' = 0 /\ lost' = lost + rounded
               ELSE UNCHANGED <<rounded, lost>>
  /\ moves' = moves + 1
  /\ UNCHANGED <<average, batches>>

Init ==
  /\ qty = 0 /\ average = 0 /\ value = 0 /\ batches = <<>> /\ account = 0
  /\ rounded = 0 /\ lost = 0 /\ moves = 0

Next == \E q \in Quantity : Issue(q) \/ \E c \in Cost : Receive(q, c)

Spec == Init /\ [][Next]_vars

(* The inventory valuation report: the levels against the control account. *)
Drift == value - account

-----------------------------------------------------------------------------
(* Quantities and costs are never negative, and an empty bin is worth      *)
(* nothing.                                                                *)
ValuationTypeOK == qty \in Nat /\ average \in Nat /\ (qty = 0 => value = 0)

(* The value of a level and quantity times average cost, which the nightly *)
(* comparison takes for it, differ by no more than rounding: half a unit   *)
(* for every unit on hand at each receipt since the bin was last empty.    *)
DriftIsRounding == Method = "average" => 2 * M!Magnitude(value - qty * average) <= rounded

(* What the valuation report calls drift between the levels and the ledger *)
(* is no more than the rounding of the bins that were emptied: the ledger  *)
(* still carries it, and a bin that was never emptied does not drift.      *)
DriftIsWrittenOff == Method = "average" => 2 * M!Magnitude(Drift) <= lost

(* The comment of apply_movement, stock.py:259: a difference that is       *)
(* rounded off the level is booked through the journal entry, never lost;  *)
(* the note of the report, operational.py:877: the drift must be zero.     *)
NothingLost == Drift = 0

(* The docstring of _fifo_unit_cost, stock.py:863: an issue is valued at   *)
(* the batches it consumes; what is left is worth what it cost.            *)
BatchesAreConsumed == Method = "fifo" => SumFunction([i \in DOMAIN batches |-> batches[i].left]) = qty
=============================================================================
