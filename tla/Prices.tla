-------------------------------- MODULE Prices --------------------------------
(***************************************************************************)
(* Price lists (bulk_adjust_prices in inventory/services/stock.py): a bulk *)
(* change ends the rows of an item the day before it takes effect and      *)
(* inserts successors, so that the price of any day stays a lookup.        *)
(*                                                                         *)
(* The rows are selected FOR UPDATE by a query that sees the rows          *)
(* committed when it started; the rows it waited for are looked at again   *)
(* as they are when the lock is granted.  So a change is two actions.      *)
(***************************************************************************)
EXTENDS Integers, FiniteSets

CONSTANTS
  Change,    \* the bulk changes that are made: records [from, by]
  Days,      \* days 1..Days are looked at
  Start,     \* the price of the one row there is at first
  MaxPrice   \* bound: a change to a higher price is refused here

PricesConstantsOK ==
  /\ Days \in Nat \ {0} /\ Start \in Nat /\ MaxPrice \in Nat /\ Start <= MaxPrice
  /\ \A c \in Change : c.from \in 1..Days /\ c.by \in Int

VARIABLES
  rows,    \* the price rows of one item: a function from row ids
  asked,   \* the rows each bulk change selected
  made     \* the changes that are committed

vars == <<rows, asked, made>>

Forever == Days + 1
Row == [from : 1..Days, to : 0..Forever, price : Nat]

(* A successor is known by the change that inserted it and by its          *)
(* predecessor's first day.                                                *)
First == <<[from |-> 1, by |-> 0], 0>>
Inserted(c, id) == <<c, rows[id].from>>

Current(id, c) == rows[id].to >= c.from
Ends(id, c)    == rows[id].from < c.from

Begin(c) ==
  /\ c \notin DOMAIN asked /\ c \notin made
  /\ asked' = [x \in DOMAIN asked \cup {c} |->
                 IF x = c THEN {id \in DOMAIN rows : Current(id, c)} ELSE asked[x]]
  /\ UNCHANGED <<rows, made>>

Repriced(id, c) == [rows[id] EXCEPT !.price = @ + c.by]

Ended(id, c) == [rows[id] EXCEPT !.to = c.from - 1]
Successor(id, c) == [Repriced(id, c) EXCEPT !.from = c.from]

\* Mutant: a row that has taken effect is changed in place.
ApplyInPlace(c) ==
  LET picked == {id \in asked[c] : Current(id, c)} IN
  /\ c \in DOMAIN asked
  /\ \A id \in picked : Repriced(id, c).price \in 0..MaxPrice
  /\ rows' = [id \in DOMAIN rows |-> IF id \in picked THEN Repriced(id, c) ELSE rows[id]]
  /\ asked' = [x \in DOMAIN asked \ {c} |-> asked[x]] /\ made' = made \cup {c}

(* Rows that start later are amended in place; a price below zero refuses  *)
(* the whole change.                                                       *)
Apply(c) ==
  LET picked == {id \in asked[c] : Current(id, c)}
      ended  == {id \in picked : Ends(id, c)}
  IN /\ c \in DOMAIN asked
     /\ \A id \in picked : Repriced(id, c).price \in 0..MaxPrice
     /\ rows' = [id \in DOMAIN rows \cup {Inserted(c, e) : e \in ended} |->
                   IF id \in ended THEN Ended(id, c)
                   ELSE IF id \in picked THEN Repriced(id, c)
                   ELSE IF id \in DOMAIN rows THEN rows[id]
                   ELSE Successor(CHOOSE e \in ended : id = Inserted(c, e), c)]
     /\ asked' = [x \in DOMAIN asked \ {c} |-> asked[x]] /\ made' = made \cup {c}

(* A change that is refused or whose process dies.                         *)
Forget(c) ==
  /\ c \in DOMAIN asked
  /\ asked' = [x \in DOMAIN asked \ {c} |-> asked[x]]
  /\ UNCHANGED <<rows, made>>

Init ==
  /\ rows = [id \in {First} |-> [from |-> 1, to |-> Forever, price |-> Start]]
  /\ asked = [c \in {} |-> {}] /\ made = {}

Next == \E c \in Change : Begin(c) \/ Apply(c) \/ Forget(c)

Spec == Init /\ [][Next]_vars

-----------------------------------------------------------------------------
Covers(id, day) == rows[id].from <= day /\ day <= rows[id].to
On(day) == {id \in DOMAIN rows : Covers(id, day)}
PriceOn(r, day) == {r[id].price : id \in {i \in DOMAIN r : r[i].from <= day /\ day <= r[i].to}}

(* Rows are what the columns can hold.                                     *)
PricesTypeOK == \A id \in DOMAIN rows : rows[id] \in Row

(* However bulk changes interleave, every day has one price: no gap in     *)
(* coverage, no two rows in force.                                         *)
OnePriceADay == \A day \in 1..Days : Cardinality(On(day)) = 1

(* The price of a day before the change takes effect is never changed.     *)
HistoryKept == [][\A c \in made' \ made : \A day \in 1..(c.from - 1) :
                    PriceOn(rows', day) = PriceOn(rows, day)]_vars

(* The comment of bulk_adjust_prices, stock.py:596: rows are locked for    *)
(* concurrent changes; each is then in the price of its days.              *)
EveryChangeTakesEffect == [][\A c \in made' \ made :
  PriceOn(rows', Days) = {p + c.by : p \in PriceOn(rows, Days)}]_vars
=============================================================================
