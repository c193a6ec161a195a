--------------------------------- MODULE Money ---------------------------------
(***************************************************************************)
(* Amounts and rates: rounding to minor units and the split of a total     *)
(* (core/fields.py), the exchange rate of a posting                        *)
(* (accounting/services/fx.py) and the two currencies of its lines         *)
(* (accounting/services/posting.py).                                       *)
(*                                                                         *)
(* An amount is an integer number of units of which a currency's minor     *)
(* unit has a fixed number: Decimal arithmetic is exact, only quantize     *)
(* rounds.                                                                 *)
(***************************************************************************)
EXTENDS Integers, Sequences

LOCAL INSTANCE FiniteSets
LOCAL INSTANCE FiniteSetsExt
LOCAL INSTANCE Functions

Magnitude(n) == IF n < 0 THEN -n ELSE n

(* quantize with MONEY_CONTEXT: n / d to the nearest integer, halves away  *)
(* from zero.                                                              *)
RoundHalfUp(n, d) ==
  LET q == (2 * Magnitude(n) + d) \div (2 * d) IN IF n < 0 THEN -q ELSE q

(* quantize with ROUND_DOWN: the integer part.                             *)
Truncate(n, d) == LET q == Magnitude(n) \div d IN IF n < 0 THEN -q ELSE q

(* Saving a column rounds with Python's default context: halves to even.   *)
RoundHalfEven(n, d) ==
  LET q == n \div d  r == n % d IN
  IF 2 * r < d \/ (2 * r = d /\ q % 2 = 0) THEN q ELSE q + 1

(* allocate: every share of the total is cut to whole minor units, and the *)
(* units left over go to the largest remainders, one each in turn.  scale  *)
(* is the number of units of total in a minor unit.                        *)
Allocate(total, weights, scale) ==
  LET N      == DOMAIN weights
      W      == SumFunction(weights) * scale
      cut    == [i \in N |-> Truncate(total * weights[i], W)]
      left   == RoundHalfUp(total, scale) - SumFunction(cut)
      rest   == [i \in N |-> total * weights[i] - cut[i] * W]
      before == [i \in N |-> Cardinality({j \in N : rest[j] > rest[i]
                                                  \/ (rest[j] = rest[i] /\ j < i)})]
      n      == Len(weights)
      extra  == [i \in N |-> IF left <= before[i] THEN 0
                             ELSE (left - before[i] - 1) \div n + 1]
  IN [i \in N |-> cut[i] + extra[i]]

-----------------------------------------------------------------------------
(* Exchange rates.  rates is the set of rows on file, records              *)
(* [from, to, on, rate] with rate a fraction <<n, d>>.                     *)

One == <<1, 1>>
Newest(R) == (CHOOSE x \in R : \A y \in R : y.on <= x.on).rate

OnFile(rates, from, to, day) ==
  {x \in rates : x.from = from /\ x.to = to /\ x.on <= day}

NoRate == <<0, 1>>

(* lookup_rate: the last rate on or before the day, or else the inverse of *)
(* the last one in the other direction.                                    *)
LookupRate(rates, from, to, day) ==
  LET direct  == OnFile(rates, from, to, day)
      inverse == OnFile(rates, to, from, day)
  IN IF from = to THEN One
     ELSE IF direct # {} THEN Newest(direct)
     ELSE IF inverse # {} /\ Newest(inverse)[1] > 0
          THEN <<Newest(inverse)[2], Newest(inverse)[1]>>
     ELSE NoRate

(* resolve_rate: what a posting in a currency is converted at, or a        *)
(* refusal.  A supplied rate of one counts as none.                        *)
Refused == <<0, 0>>

ResolveRate(rates, base, currency, day, supplied) ==
  LET rate == LookupRate(rates, currency, base, day) IN
  IF currency = base THEN (IF supplied = One THEN One ELSE Refused)
  ELSE IF supplied # One THEN supplied
  ELSE IF rate = NoRate THEN Refused ELSE rate

-----------------------------------------------------------------------------
(* The lines of an entry: validate_draft compares the rounded totals, and  *)
(* post_entry rounds every line, in the currency of the entry and, at its  *)
(* rate, in the base currency.                                             *)
Total(side) == SumFunction(side)

Balanced(debits, credits, scale) ==
  /\ Len(debits) + Len(credits) >= 2
  /\ RoundHalfUp(Total(debits), scale) = RoundHalfUp(Total(credits), scale)
  /\ RoundHalfUp(Total(debits), scale) > 0

Stored(side, scale) == [i \in DOMAIN side |-> RoundHalfUp(side[i], scale)]

(* The deferred trigger accounting_entry_balanced, on the lines stored.    *)
Kept(debits, credits, scale) ==
  Total(Stored(debits, scale)) = Total(Stored(credits, scale))

InBase(side, rate, scale) ==
  [i \in DOMAIN side |-> RoundHalfUp(side[i] * rate[1], scale * rate[2])]
=============================================================================
