--------------------------------- MODULE Stock ---------------------------------
(***************************************************************************)
(* Stock levels and the movements behind them (inventory/services/stock.py *)
(* and fulfilment.py): an invoice that is issued ships its lines, a stock  *)
(* adjustment that is posted corrects the bins it counted, orders reserve, *)
(* and a nightly job compares every level with its movements.              *)
(*                                                                         *)
(* A document is one transaction: it locks its own row, then the level of  *)
(* each line in line order, and writes at COMMIT.  ws[w].view is what the  *)
(* transaction of worker w will write to the levels it holds; everyone     *)
(* else sees level.  log[b] is the sum of the committed movements of a bin *)
(* and moved[d][i] the number of movements line i of a document has made.  *)
(***************************************************************************)
EXTENDS Integers, FiniteSets, Sequences

CONSTANTS
  Bin,        \* an item in a warehouse
  Invoice,    \* invoices, with the lines that carry stock
  Adjustment, \* stock adjustments
  Lines,      \* the lines of each document: sequences of [bin, delta]
  Clerk,      \* the workers that serve requests
  Amount,     \* quantities that orders reserve and release
  Opening,    \* the quantity each bin starts with
  Negative,   \* the bins of items with allow_negative_stock
  Reorder,    \* the reorder point
  OneDesk,    \* does nobody edit an adjustment while others work on it?
  Repair,     \* does the comparison of levels and movements repair?
  Nobody      \* holder of a free lock

Doc == Invoice \cup Adjustment

ASSUME ConstantsOK ==
  /\ IsFiniteSet(Bin) /\ IsFiniteSet(Doc) /\ Invoice \cap Adjustment = {}
  /\ Bin \cap Doc = {} /\ Nobody \notin Clerk \cup Bin \cup Doc
  /\ Lines \in [Doc -> Seq([bin : Bin, delta : Int])]
  /\ \A d \in Doc : Lines[d] # <<>>
  /\ \A d \in Invoice : \A i \in DOMAIN Lines[d] : Lines[d][i].delta < 0
  /\ Amount \subseteq Nat \ {0} /\ Opening \in [Bin -> Nat] /\ Negative \subseteq Bin
  /\ Reorder \in Nat /\ OneDesk \in BOOLEAN /\ Repair \in BOOLEAN

VARIABLES
  level,   \* the stock level of each bin: on hand and reserved
  log,     \* the sum of the movements of each bin
  moved,   \* the movements of each line
  status,  \* of each document
  alert,   \* the latest low-stock alert of each bin
  lock,    \* holder of the row lock of each bin and document
  ws,      \* the transaction of each worker
  sums     \* what the nightly job has still to compare

vars == <<level, log, moved, status, alert, lock, ws, sums>>

LevelRow == [on : Int, reserved : Nat]
Status   == {"draft", "approved", "done"}
Alert    == {"none", "open", "acknowledged"}

(* An invoice is issued from draft, an adjustment posted from approved.    *)
Ready(d) == status[d] = IF d \in Invoice THEN "draft" ELSE "approved"

Available(row) == row.on - row.reserved
Low(row)       == Reorder > 0 /\ Available(row) <= Reorder

Still(w) == ws[w].at = "idle"
Idle  == [at |-> "idle", doc |-> Nobody, next |-> 1, view |-> [b \in Bin |-> [on |-> 0, reserved |-> 0]],
          delta |-> [b \in Bin |-> 0], count |-> <<>>, raise |-> {}, seen |-> "draft"]
Free(w) == lock' = [r \in Bin \cup Doc |-> IF lock[r] = w THEN Nobody ELSE lock[r]]
Holds(w, b) == lock[b] = w

-----------------------------------------------------------------------------
(* One movement.                                                           *)

\* Mutant: what others have reserved is not looked at.
CoveredOnHand(b, row, delta, consume) ==
  delta < 0 /\ b \notin Negative => row.on + delta >= 0

(* apply_movement: an issue must be covered by what is on hand and, unless *)
(* it ships what an order reserved, by what nobody has reserved.           *)
Covered(b, row, delta, consume) ==
  delta < 0 /\ b \notin Negative =>
    /\ row.on + delta >= 0
    /\ consume \/ -delta <= Available(row)

Positive(n) == IF n > 0 THEN n ELSE 0

Shifted(row, delta, consume) ==
  [on       |-> row.on + delta,
   reserved |-> IF consume /\ delta < 0 THEN Positive(row.reserved + delta)
                ELSE row.reserved]

-----------------------------------------------------------------------------
(* A document: issue_invoice and the post verb of adjustments.             *)

Alone(d) == OneDesk => \A w \in Clerk : ws[w].doc # d
Unedited(d) == OneDesk => \A w \in Clerk : ws[w].doc = d => ws[w].at # "edit"

Begin(w, d) ==
  /\ Still(w) /\ lock[d] = Nobody /\ Ready(d) /\ Unedited(d)
  /\ lock' = [lock EXCEPT ![d] = w]
  /\ ws' = [ws EXCEPT ![w] = [Idle EXCEPT !.at = "lines", !.doc = d, !.count = moved[d]]]
  /\ UNCHANGED <<level, log, moved, status, alert, sums>>

Line(w) == Lines[ws[w].doc][ws[w].next]
Lacks(w) == ws[w].at = "lines" /\ ws[w].next \in DOMAIN Lines[ws[w].doc]

(* A line counted as expected moves nothing; an invoice line whose key has *)
(* a movement is not moved again.                                          *)
Settled(w) == \/ Line(w).delta = 0
              \/ ws[w].doc \in Invoice /\ ws[w].count[ws[w].next] > 0

SkipLine(w) ==
  /\ Lacks(w) /\ Settled(w)
  /\ ws' = [ws EXCEPT ![w].next = @ + 1]
  /\ UNCHANGED <<level, log, moved, status, alert, lock, sums>>

\* Mutant: the level is read, not locked, while another document moves it.
ShiftLineUnlocked(w) ==
  LET b == Line(w).bin  delta == Line(w).delta  consume == ws[w].doc \in Invoice
      row == IF Holds(w, b) THEN ws[w].view[b] ELSE level[b]
      new == Shifted(row, delta, consume)
  IN /\ Lacks(w) /\ ~Settled(w)
     /\ Covered(b, row, delta, consume)
     /\ lock' = [lock EXCEPT ![b] = w]
     /\ ws' = [ws EXCEPT ![w] = [ws[w] EXCEPT
                 !.next = @ + 1, !.view[b] = new, !.delta[b] = @ + delta, !.count[ws[w].next] = @ + 1,
                 !.raise = IF Low(new) /\ alert[b] # "open" THEN @ \cup {b} ELSE @]]
     /\ UNCHANGED <<level, log, moved, status, alert, sums>>

(* _lock_level, then the checks, the movement and the alert of one line:   *)
(* an alert is opened unless an open one is found, which is refreshed.     *)
ShiftLine(w) ==
  LET b == Line(w).bin  delta == Line(w).delta  consume == ws[w].doc \in Invoice
      row == IF Holds(w, b) THEN ws[w].view[b] ELSE level[b]
      new == Shifted(row, delta, consume)
  IN /\ Lacks(w) /\ ~Settled(w)
     /\ lock[b] \in {Nobody, w} /\ Covered(b, row, delta, consume)
     /\ lock' = [lock EXCEPT ![b] = w]
     /\ ws' = [ws EXCEPT ![w] = [ws[w] EXCEPT
                 !.next = @ + 1, !.view[b] = new, !.delta[b] = @ + delta, !.count[ws[w].next] = @ + 1,
                 !.raise = IF Low(new) /\ alert[b] # "open" THEN @ \cup {b} ELSE @]]
     /\ UNCHANGED <<level, log, moved, status, alert, sums>>

Raised(w) == ws[w].raise

\* Mutant: the document is marked before its last line.
CommitEarly(w) == LET d == ws[w].doc IN
  /\ ws[w].at = "lines" /\ ws[w].next >= Len(Lines[d])
  /\ level' = [b \in Bin |-> IF Holds(w, b) THEN ws[w].view[b] ELSE level[b]]
  /\ log' = [b \in Bin |-> log[b] + ws[w].delta[b]]
  /\ moved' = [moved EXCEPT ![d] = ws[w].count]
  /\ status' = [status EXCEPT ![d] = "done"]
  /\ alert' = [b \in Bin |-> IF b \in Raised(w) THEN "open" ELSE alert[b]]
  /\ Free(w) /\ ws' = [ws EXCEPT ![w] = Idle]
  /\ UNCHANGED sums

Commit(w) == LET d == ws[w].doc IN
  /\ ws[w].at = "lines" /\ ws[w].next > Len(Lines[d])
  /\ level' = [b \in Bin |-> IF Holds(w, b) THEN ws[w].view[b] ELSE level[b]]
  /\ log' = [b \in Bin |-> log[b] + ws[w].delta[b]]
  /\ moved' = [moved EXCEPT ![d] = ws[w].count]
  /\ status' = [status EXCEPT ![d] = "done"]
  /\ alert' = [b \in Bin |-> IF b \in Raised(w) THEN "open" ELSE alert[b]]
  /\ Free(w) /\ ws' = [ws EXCEPT ![w] = Idle]
  /\ UNCHANGED sums

\* Mutant: a document that is given up leaves its rows locked.
AbortLocked(w) ==
  /\ ws' = [ws EXCEPT ![w] = Idle]
  /\ UNCHANGED <<level, log, moved, status, alert, lock, sums>>

Abort(w) ==
  /\ Free(w) /\ ws' = [ws EXCEPT ![w] = Idle]
  /\ UNCHANGED <<level, log, moved, status, alert, sums>>

(* A line that is not covered refuses the whole document.                  *)
Refuse(w) ==
  LET b == Line(w).bin
      row == IF Holds(w, b) THEN ws[w].view[b] ELSE level[b]
  IN /\ Lacks(w) /\ ~Settled(w) /\ lock[b] \in {Nobody, w}
     /\ ~Covered(b, row, Line(w).delta, ws[w].doc \in Invoice)
     /\ Abort(w)

(* The database ends one transaction of a cycle of waits.  A document row  *)
(* is taken first and is never waited for while holding another row, so a  *)
(* cycle is made of bins.                                                  *)
WaitsFor(w, v) == Lacks(w) /\ ~Settled(w) /\ lock[Line(w).bin] = v /\ v # w

AbortDeadlock(w) == \E v \in Clerk :
  /\ WaitsFor(w, v)
  /\ \E S \in SUBSET Clerk : w \in S /\ \A x \in S : \E y \in S : WaitsFor(x, y)
  /\ Abort(w)

(* The process of a worker dies at any moment.                             *)
Crash(w) == ~Still(w) /\ Abort(w)

-----------------------------------------------------------------------------
(* Requests of one step.                                                   *)

Approve(a) ==
  /\ lock[a] = Nobody /\ status[a] = "draft" /\ Unedited(a)
  /\ status' = [status EXCEPT ![a] = "approved"]
  /\ UNCHANGED <<level, log, moved, alert, lock, ws, sums>>

(* reserve_stock and release_reservation lock the level and commit.        *)
Reserve(b) == \E n \in Amount :
  LET new == [level[b] EXCEPT !.reserved = @ + n] IN
  /\ lock[b] = Nobody
  /\ b \notin Negative => n <= Available(level[b])
  /\ level' = [level EXCEPT ![b] = new]
  /\ alert' = [alert EXCEPT ![b] = IF Low(new) THEN "open" ELSE @]
  /\ UNCHANGED <<log, moved, status, lock, ws, sums>>

Release(b) == \E n \in Amount :
  /\ lock[b] = Nobody
  /\ level' = [level EXCEPT ![b].reserved = Positive(@ - n)]
  /\ UNCHANGED <<log, moved, status, alert, lock, ws, sums>>

Acknowledge(b) ==
  /\ alert[b] = "open"
  /\ alert' = [alert EXCEPT ![b] = "acknowledged"]
  /\ UNCHANGED <<level, log, moved, status, lock, ws, sums>>

(* A change of the header of an adjustment: the row is read without a lock *)
(* and every column of the copy is written, the status among them.         *)
ReadHeader(w, a) ==
  /\ Still(w) /\ Alone(a)
  /\ ws' = [ws EXCEPT ![w] = [Idle EXCEPT !.at = "edit", !.doc = a, !.seen = status[a]]]
  /\ UNCHANGED <<level, log, moved, status, alert, lock, sums>>

SaveHeader(w) ==
  /\ ws[w].at = "edit" /\ lock[ws[w].doc] = Nobody
  /\ status' = [status EXCEPT ![ws[w].doc] = ws[w].seen]
  /\ ws' = [ws EXCEPT ![w] = Idle]
  /\ UNCHANGED <<level, log, moved, alert, lock, sums>>

-----------------------------------------------------------------------------
(* recompute_stock_levels: one query sums all movements, then every level  *)
(* is compared on its own.                                                 *)

BeginCheck ==
  /\ sums = <<>> /\ Bin # {}
  /\ sums' = log
  /\ UNCHANGED <<level, log, moved, status, alert, lock, ws>>

Compare(b) == LET derived == Opening[b] + sums[b] IN
  /\ b \in DOMAIN sums
  /\ Repair => lock[b] = Nobody
  /\ level' = [level EXCEPT ![b].on = IF Repair THEN derived ELSE @]
  /\ sums' = [x \in DOMAIN sums \ {b} |-> sums[x]]
  /\ UNCHANGED <<log, moved, status, alert, lock, ws>>

-----------------------------------------------------------------------------
Init ==
  /\ level = [b \in Bin |-> [on |-> Opening[b], reserved |-> 0]]
  /\ log = [b \in Bin |-> 0]
  /\ moved = [d \in Doc |-> [i \in DOMAIN Lines[d] |-> 0]]
  /\ status = [d \in Doc |-> "draft"]
  /\ alert = [b \in Bin |-> IF Low(level[b]) THEN "open" ELSE "none"]
  /\ lock = [r \in Bin \cup Doc |-> Nobody]
  /\ ws = [w \in Clerk |-> Idle] /\ sums = <<>>

Step(w) == SkipLine(w) \/ ShiftLine(w) \/ Refuse(w) \/ Commit(w) \/ SaveHeader(w)

Next ==
  \/ \E w \in Clerk : \/ \E d \in Doc : Begin(w, d)
                      \/ \E a \in Adjustment : ReadHeader(w, a)
                      \/ Step(w) \/ AbortDeadlock(w) \/ Crash(w)
  \/ \E a \in Adjustment : Approve(a)
  \/ \E b \in Bin : Reserve(b) \/ Release(b) \/ Acknowledge(b) \/ Compare(b)
  \/ BeginCheck

(* The database grants a lock that is free again and again, detects a      *)
(* deadlock, and a running worker goes on.                                 *)
Fairness == \A w \in Clerk : SF_vars(Step(w)) /\ WF_vars(AbortDeadlock(w))

Spec == Init /\ [][Next]_vars /\ Fairness

-----------------------------------------------------------------------------
(* Every variable has the values its columns can hold, and only documents  *)
(* under way hold rows.                                                    *)
StockTypeOK ==
  /\ level \in [Bin -> LevelRow] /\ log \in [Bin -> Int]
  /\ moved \in [Doc -> Seq(Nat)] /\ status \in [Doc -> Status]
  /\ alert \in [Bin -> Alert] /\ lock \in [Bin \cup Doc -> Clerk \cup {Nobody}]
  /\ DOMAIN sums \subseteq Bin
  /\ \A w \in Clerk : ws[w].at # "lines" => \A r \in Bin \cup Doc : lock[r] # w

(* The level is a projection: whatever documents move a bin at once, crash *)
(* or deadlock, the quantity on hand is the sum of the movements.          *)
LevelIsTheLog == \A b \in Bin : level[b].on = Opening[b] + log[b]

(* No oversell: what is promised to orders is on the shelf, whoever ships, *)
(* corrects, reserves and releases at the same time.                       *)
PromisesOnShelf == \A b \in Bin \ Negative :
  0 <= level[b].reserved /\ level[b].reserved <= level[b].on

(* A document that is done moved each of its lines once, one that is not   *)
(* has moved none.                                                         *)
WholeDocument == \A d \in Doc : \A i \in DOMAIN Lines[d] :
  moved[d][i] = IF status[d] = "done" /\ Lines[d][i].delta # 0 THEN 1 ELSE 0

(* A bin that is at its reorder point has been reported.                   *)
LowIsKnown == \A b \in Bin : Low(level[b]) => alert[b] # "none"

(* A request ends, however the bins of two documents are ordered.          *)
DocumentsEnd == \A w \in Clerk : ws[w].at = "lines" ~> Still(w)

(* The comment of apply_movement, stock.py:217: reserved units are already *)
(* promised, and a sale of others must not eat them.  What is reserved is  *)
(* less than before only if it was released.                               *)
PromisesKept == [][\A b \in Bin :
  level'[b].reserved < level[b].reserved => level'[b].on = level[b].on]_level

(* The comment of recompute_stock_levels, stock.py:442: what it reports is *)
(* a cache that has drifted from the movements.                            *)
DriftIsReal == [][\A b \in Bin :
  b \in DOMAIN sums \ DOMAIN sums' => level[b].on = Opening[b] + sums[b]]_sums
=============================================================================
